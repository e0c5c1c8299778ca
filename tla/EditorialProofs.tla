--------------------------- MODULE EditorialProofs ---------------------------
(***************************************************************************)
(* Proofs about Editorial, for any number of drafts, editors, requests and *)
(* scheduled runs; PublishedOnce for one scheduled run at a time.          *)
(***************************************************************************)
EXTENDS Editorial, FiniteSetTheorems, TLAPS

(* Types and versions. *)

LEMMA Placeholders ==
    /\ IdleEditor \in Editing /\ IdlePublisher \in Publishing
    /\ NoRow.status = "none" /\ NoRow.edit = 0 /\ NoRow \notin Row
    /\ IdleEditor.pc = "idle" /\ IdlePublisher.pc = "idle"
    /\ IdlePublisher.todo = {} /\ IdlePublisher.draft = {}
BY BoundAssumption DEF IdleEditor, IdlePublisher, Editing, Publishing, NoRow, Row, Status, Edit

\* The last of consecutive numbers.
LEMMA LastIs ==
    ASSUME NEW d \in Draft, NEW n \in Nat \ {0}, Numbers(d) = 1..n
    PROVE  Last(d) = n
<1>1. n \in Numbers(d) /\ \A m \in Numbers(d) : m <= n
    OBVIOUS
<1>2. Last(d) \in Numbers(d) /\ \A m \in Numbers(d) : m <= Last(d)
    BY <1>1 DEF Last
<1> QED BY <1>1, <1>2

LEMMA TypeInit == Init => TypeOK /\ VersionsOK
<1> SUFFICES ASSUME Init PROVE TypeOK /\ VersionsOK
    OBVIOUS
<1> USE BoundAssumption
<1>1. draft \in [Draft -> Row]
    BY DEF Init, Row, Status, Edit
<1>2. versions \in [Draft -> SUBSET [number : 1..MaxEdits + 1, edit : Edit]]
    BY DEF Init, Edit
<1>3. record \in [Artifact -> [draft : SUBSET Draft, edit : Edit]]
    BY DEF Init, Edit
<1>4. editor \in [Editor -> Editing] /\ publisher \in [Publisher -> Publishing]
    BY Placeholders DEF Init
<1>5. /\ edits \in 0..MaxEdits /\ moves \in 0..MaxMoves
      /\ artifacts \in 0..MaxArtifacts /\ faults \in 0..MaxFaults
      /\ granted \in [Draft -> Nat] /\ event \in SUBSET Artifact
    BY DEF Init
<1>6. ASSUME NEW d \in Draft
      PROVE  Numbers(d) = 1..1 /\ \E v \in versions[d] : v.edit = draft[d].edit
    <2>1. versions[d] = {[number |-> 1, edit |-> 0]} /\ draft[d].edit = 0
        BY DEF Init
    <2> QED BY <2>1 DEF Numbers
<1>7. VersionsOK
    BY <1>6, Placeholders DEF VersionsOK, Init
<1> QED BY <1>1, <1>2, <1>3, <1>4, <1>5, <1>7 DEF TypeOK

\* A run's record, or a request's, is replaced by another.
LEMMA Replaced ==
    ASSUME TypeOK
    PROVE  /\ \A p \in Publisher : \A r : publisher' = [publisher EXCEPT ![p] = r] =>
                 /\ publisher'[p] = r
                 /\ \A q \in Publisher \ {p} : publisher'[q] = publisher[q]
                 /\ r \in Publishing => publisher' \in [Publisher -> Publishing]
           /\ \A e \in Editor : \A r : editor' = [editor EXCEPT ![e] = r] =>
                 /\ editor'[e] = r
                 /\ \A f \in Editor \ {e} : editor'[f] = editor[f]
                 /\ r \in Editing => editor' \in [Editor -> Editing]
BY DEF TypeOK

-----------------------------------------------------------------------------
(* What a step does to drafts and runs.                                    *)

\* An editor's step: what becomes SCHEDULED is granted a publication.
Edits ==
    /\ UNCHANGED <<pubVars, publisher, artifacts, faults>>
    /\ \A d \in Draft :
          /\ granted'[d] = granted[d] \/ granted'[d] = granted[d] + 1
          /\ draft'[d].status = "SCHEDULED" =>
                draft[d].status = "SCHEDULED" \/ granted'[d] = granted[d] + 1

Others(p) == \A q \in Publisher \ {p} : publisher'[q] = publisher[q]

Starts(p) ==
    /\ UNCHANGED <<docVars, pubVars, granted, artifacts, faults>>
    /\ p \in Scheduler /\ publisher[p].pc = "idle" /\ publisher'[p].pc = "next" /\ Others(p)
    /\ \A d \in publisher'[p].todo : draft[d].status = "SCHEDULED"
                                    /\ publisher'[p].row[d].status = "SCHEDULED"
    /\ publisher'[p].draft = {}

Asks(p, d) ==
    /\ UNCHANGED <<docVars, pubVars, artifacts, faults>>
    /\ granted' = [granted EXCEPT ![d] = @ + 1]
    /\ p \in Requester /\ publisher[p].pc = "idle" /\ publisher'[p].pc = "next" /\ Others(p)
    /\ publisher'[p].todo = {d} /\ publisher'[p].draft = {}

Plans(p, d) ==
    /\ UNCHANGED <<docVars, event, granted, faults>>
    /\ artifacts' = artifacts + 1 /\ artifacts' \in Artifact
    /\ \A a \in Artifact : record'[a].draft = IF a = artifacts' THEN {d} ELSE record[a].draft
    /\ publisher[p].pc = "next" /\ publisher'[p].pc = "planned" /\ Others(p)
    /\ d \in publisher[p].todo /\ publisher'[p].todo = publisher[p].todo \ {d}
    /\ publisher'[p].draft = {d} /\ publisher'[p].artifact = artifacts'
    /\ publisher'[p].row = publisher[p].row

Publishes(p, d) ==
    /\ UNCHANGED <<versions, record, granted, artifacts, faults>>
    /\ event' = event \cup {publisher[p].artifact}
    /\ \A c \in Draft : draft'[c].status = IF c = d /\ publisher[p].row[d].status # "PUBLISHED"
                                           THEN "PUBLISHED" ELSE draft[c].status
    /\ publisher[p].pc = "planned" /\ d \in publisher[p].draft /\ Others(p)
    /\ publisher'[p].draft = {} /\ publisher'[p].todo = publisher[p].todo
    /\ \/ publisher'[p].pc = "idle" /\ publisher[p].todo = {}
       \/ publisher'[p].pc = "next" /\ publisher'[p].row = publisher[p].row

Fails(p) ==
    /\ UNCHANGED <<docVars, pubVars, granted, artifacts>> /\ faults' = faults + 1
    /\ publisher'[p].pc = "idle" /\ Others(p)
    /\ publisher'[p].todo = {} /\ publisher'[p].draft = {}

Moves ==
    \/ Edits
    \/ \E p \in Publisher : Starts(p) \/ Fails(p)
    \/ \E p \in Publisher, d \in Draft : Asks(p, d) \/ Plans(p, d) \/ Publishes(p, d)

\* What an editor's step does.
LEMMA EditorTypes ==
    ASSUME TypeOK, VersionsOK, EditorStep
    PROVE  TypeOK' /\ VersionsOK' /\ Edits
<1> USE BoundAssumption
<1>0. /\ \A d \in Draft : draft[d] \in Row
      /\ \A e \in Editor : editor[e] \in Editing
      /\ edits \in 0..MaxEdits
    BY DEF TypeOK
<1>1. ASSUME NEW e \in Editor, NEW d \in Draft, LoadDraft(e, d)
      PROVE  TypeOK' /\ VersionsOK' /\ Edits
    <2>1. PICK n \in 1..edits + 1 : Numbers(d) = 1..n
        BY DEF VersionsOK
    <2>2. n \in Nat \ {0} /\ n \in 0..MaxEdits + 1
        BY <1>0
    <2>3. Last(d) = n /\ n \in Numbers(d)
        BY <2>1, <2>2, LastIs
    <2> DEFINE r == [pc |-> "loaded", draft |-> {d}, row |-> draft[d], last |-> n]
    <2>4. r \in Editing /\ r.row \in Row /\ r.draft = {d} /\ r.last = n
        BY <1>0, <2>2 DEF Editing
    <2>5. editor' = [editor EXCEPT ![e] = r]
        BY <1>1, <2>3 DEF LoadDraft
    <2> HIDE DEF r
    <2>6. UNCHANGED <<docVars, pubVars, granted, publisher, bounds>>
        BY <1>1 DEF LoadDraft
    <2>7. TypeOK'
        BY <2>4, <2>5, <2>6, Replaced DEF TypeOK, docVars, pubVars, bounds
    <2>8. VersionsOK'
        BY <2>3, <2>4, <2>5, <2>6, Replaced DEF VersionsOK, Numbers, docVars, bounds
    <2> QED BY <2>6, <2>7, <2>8 DEF Edits, docVars, bounds
<1>2. ASSUME NEW e \in Editor, NEW d \in Draft, UpdateDraft(e, d)
      PROVE  TypeOK' /\ VersionsOK' /\ Edits
    <2> DEFINE n == NextNumber(e)
               v == [number |-> n, edit |-> edits + 1]
               row == [draft[d] EXCEPT !.edit = edits + 1]
               r == [editor[e] EXCEPT !.pc = "refreshed", !.row = row]
    <2>0. /\ editor[e].pc = "loaded" /\ d \in editor[e].draft
          /\ edits < MaxEdits /\ edits' = edits + 1
          /\ draft' = [draft EXCEPT ![d] = row]
          /\ versions' = [versions EXCEPT ![d] = @ \cup {v}]
          /\ UNCHANGED <<pubVars, granted, publisher, moves, artifacts, faults>>
        BY <1>2 DEF UpdateDraft
    <2>1. PICK m \in 1..edits + 1 : Numbers(d) = 1..m
        BY DEF VersionsOK
    <2>2. editor[e].last \in 1..m /\ n = editor[e].last + 1 /\ n \in 1..m + 1
        BY <1>0, <2>0, <2>1 DEF VersionsOK, NextNumber
    <2>3. n \in 1..MaxEdits + 1 /\ edits + 1 \in Edit
        BY <1>0, <2>0, <2>1, <2>2 DEF Edit
    <2>4. row \in Row /\ row.edit = edits + 1
        BY <1>0, <2>3 DEF Row
    <2>5. editor' = [editor EXCEPT ![e] = r]
        BY <1>2, <2>0 DEF UpdateDraft, TypeOK
    <2> HIDE DEF n, row
    <2>6. v \in [number : 1..MaxEdits + 1, edit : Edit] /\ v.number = n /\ v.edit = edits + 1
        BY <2>3
    <2>7. r \in Editing /\ r.row = row /\ r.draft = editor[e].draft /\ r.last = editor[e].last
          /\ r.pc # "idle"
        BY <1>0, <2>4 DEF Editing
    <2> HIDE DEF v, r
    <2>8. draft' \in [Draft -> Row]
        BY <2>0, <2>4 DEF TypeOK
    <2>9. versions' \in [Draft -> SUBSET [number : 1..MaxEdits + 1, edit : Edit]]
        BY <2>0, <2>6 DEF TypeOK
    <2>10. TypeOK'
        BY <1>0, <2>0, <2>5, <2>7, <2>8, <2>9, Replaced DEF TypeOK, pubVars
    <2>11. /\ versions'[d] = versions[d] \cup {v}
           /\ \A c \in Draft \ {d} : versions'[c] = versions[c] /\ draft'[c] = draft[c]
           /\ draft'[d] = row
        BY <2>0 DEF TypeOK
    <2>12. Numbers(d)' = Numbers(d) \cup {n} /\ \A c \in Draft \ {d} : Numbers(c)' = Numbers(c)
        BY <2>6, <2>11 DEF Numbers
    <2>13. ASSUME NEW c \in Draft
           PROVE  \E k \in 1..edits' + 1 : Numbers(c)' = 1..k
        <3>1. CASE c # d
            <4>1. PICK k \in 1..edits + 1 : Numbers(c) = 1..k
                BY DEF VersionsOK
            <4> QED BY <1>0, <2>0, <2>12, <3>1, <4>1
        <3>2. CASE c = d /\ n \in 1..m
            <4>1. Numbers(d)' = 1..m
                BY <2>1, <2>12, <3>2
            <4> QED BY <1>0, <2>0, <3>2, <4>1
        <3>3. CASE c = d /\ n = m + 1
            <4>1. Numbers(d)' = 1..m + 1
                BY <2>1, <2>12, <3>3
            <4>2. m + 1 \in 1..edits' + 1
                BY <1>0, <2>0
            <4> QED BY <3>3, <4>1, <4>2
        <3> QED BY <2>2, <3>1, <3>2, <3>3
    <2>14. ASSUME NEW c \in Draft
           PROVE  \E u \in versions'[c] : u.edit = draft'[c].edit
        <3>1. CASE c = d
            BY <2>4, <2>6, <2>11, <3>1
        <3>2. CASE c # d
            BY <2>11, <3>2 DEF VersionsOK
        <3> QED BY <3>1, <3>2
    <2>15. ASSUME NEW f \in Editor, editor'[f].pc # "idle"
           PROVE  editor'[f].row \in Row /\ \A c \in editor'[f].draft : editor'[f].last \in Numbers(c)'
        <3>0. \A c \in Draft : Numbers(c) \subseteq Numbers(c)'
            BY <2>12
        <3>1. CASE f = e
            <4>1. \A c \in editor[e].draft : c \in Draft /\ editor[e].last \in Numbers(c)
                BY <1>0, <2>0 DEF VersionsOK, Editing
            <4> QED BY <2>4, <2>5, <2>7, <3>0, <3>1, <4>1, Replaced
        <3>2. CASE f # e
            <4>1. editor'[f] = editor[f]
                BY <2>5, <3>2, Replaced
            <4>2. \A c \in editor[f].draft : c \in Draft
                BY <1>0 DEF Editing
            <4> QED BY <2>15, <3>0, <4>1, <4>2 DEF VersionsOK
        <3> QED BY <3>1, <3>2
    <2>16. VersionsOK'
        BY <2>13, <2>14, <2>15 DEF VersionsOK
    <2>17. \A c \in Draft : draft'[c].status = draft[c].status
        <3>1. row.status = draft[d].status
            BY <1>0 DEF Row, row
        <3> QED BY <2>11, <3>1
    <2> QED BY <2>0, <2>10, <2>16, <2>17 DEF Edits
<1>3. ASSUME NEW e \in Editor, NEW d \in Draft, NEW s \in Target, TransitionStatus(e, d, s)
      PROVE  TypeOK' /\ VersionsOK' /\ Edits
    <2> DEFINE row == [draft[d] EXCEPT !.status = s]
    <2>0. /\ editor' = [editor EXCEPT ![e] = IdleEditor]
          /\ draft' = draft \/ draft' = [draft EXCEPT ![d] = row]
          /\ granted' = granted \/ granted' = [granted EXCEPT ![d] = @ + 1]
          /\ moves' \in 0..MaxMoves
          /\ UNCHANGED <<versions, pubVars, publisher, edits, artifacts, faults>>
        BY <1>3 DEF TransitionStatus, TypeOK
    <2>1. row \in Row /\ row.edit = draft[d].edit
        BY <1>0 DEF Row, Target, Status
    <2> HIDE DEF row
    <2>2. /\ draft' \in [Draft -> Row] /\ granted' \in [Draft -> Nat]
          /\ \A c \in Draft : draft'[c].edit = draft[c].edit
        BY <2>0, <2>1 DEF TypeOK
    <2>3. TypeOK'
        BY <2>0, <2>2, Replaced, Placeholders DEF TypeOK, pubVars
    <2>4. VersionsOK'
        BY <2>0, <2>2, Replaced, Placeholders DEF VersionsOK, Numbers
    <2>5. ASSUME NEW c \in Draft
          PROVE  /\ granted'[c] = granted[c] \/ granted'[c] = granted[c] + 1
                 /\ draft'[c].status = "SCHEDULED" =>
                       draft[c].status = "SCHEDULED" \/ granted'[c] = granted[c] + 1
        <3>1. granted'[c] = granted[c] \/ granted'[c] = granted[c] + 1
            BY <2>0 DEF TypeOK
        <3>2. CASE draft'[c] = draft[c]
            BY <3>1, <3>2
        <3>3. CASE draft'[c] # draft[c]
            <4>1. c = d
                BY <2>0, <3>3 DEF TypeOK
            <4>2. draft'[d].status = "SCHEDULED" => granted' = [granted EXCEPT ![d] = @ + 1]
                BY <1>3, <3>3, <4>1 DEF TransitionStatus
            <4> QED BY <3>1, <4>1, <4>2 DEF TypeOK
        <3> QED BY <3>2, <3>3
    <2> QED BY <2>0, <2>3, <2>4, <2>5 DEF Edits
<1>4. ASSUME NEW e \in Editor, LeaveDraft(e)
      PROVE  TypeOK' /\ VersionsOK' /\ Edits
    <2>1. editor' = [editor EXCEPT ![e] = IdleEditor]
          /\ UNCHANGED <<docVars, pubVars, granted, publisher, bounds>>
        BY <1>4 DEF LeaveDraft
    <2>2. TypeOK'
        BY <2>1, Replaced, Placeholders DEF TypeOK, docVars, pubVars, bounds
    <2>3. VersionsOK'
        BY <2>1, Replaced, Placeholders DEF VersionsOK, Numbers, docVars, bounds
    <2> QED BY <2>1, <2>2, <2>3 DEF Edits, docVars, bounds
<1> QED BY <1>1, <1>2, <1>3, <1>4 DEF EditorStep

\* Every step is one of these, and keeps the types and the versions.
LEMMA TypeAndMoves ==
    ASSUME TypeOK, VersionsOK, ArtifactsOK, [Next]_vars
    PROVE  TypeOK' /\ VersionsOK' /\ Moves
<1> USE BoundAssumption
<1>0. /\ \A d \in Draft : draft[d] \in Row
      /\ \A p \in Publisher : publisher[p] \in Publishing
      /\ artifacts \in 0..MaxArtifacts /\ faults \in 0..MaxFaults
    BY DEF TypeOK
<1>1. CASE EditorStep
    BY <1>1, EditorTypes DEF Moves
<1>2. ASSUME UNCHANGED <<versions, editor, edits>>, \A d \in Draft : draft'[d].edit = draft[d].edit
      PROVE  VersionsOK'
    BY <1>2 DEF VersionsOK, Numbers
<1>3. ASSUME NEW p \in Publisher, StartSchedule(p)
      PROVE  TypeOK' /\ VersionsOK' /\ Moves
    <2> DEFINE r == [IdlePublisher EXCEPT !.pc = "next", !.todo = Due,
                                  !.row = [d \in Draft |-> IF d \in Due THEN draft[d]
                                                           ELSE NoRow]]
    <2>0. Due \subseteq Draft /\ \A d \in Due : draft[d].status = "SCHEDULED"
        BY DatedAssumption DEF Due
    <2>1. /\ r \in Publishing /\ r.pc = "next" /\ r.todo = Due /\ r.draft = {}
          /\ \A d \in Due : r.row[d].status = "SCHEDULED"
        BY <1>0, <2>0, Placeholders DEF Publishing, IdlePublisher
    <2>2. /\ publisher' = [publisher EXCEPT ![p] = r] /\ p \in Scheduler
          /\ publisher[p].pc = "idle"
          /\ UNCHANGED <<docVars, pubVars, granted, editor, bounds>>
        BY <1>3 DEF StartSchedule
    <2> HIDE DEF r
    <2>3. TypeOK' /\ VersionsOK'
        BY <1>2, <2>1, <2>2, Replaced DEF TypeOK, docVars, pubVars, bounds
    <2>4. Starts(p)
        BY <2>0, <2>1, <2>2, Replaced DEF Starts, Others, bounds
    <2> QED BY <2>3, <2>4 DEF Moves
<1>4. ASSUME NEW p \in Publisher, NEW d \in Draft, StartPublish(p, d)
      PROVE  TypeOK' /\ VersionsOK' /\ Moves
    <2> DEFINE r == [IdlePublisher EXCEPT !.pc = "next", !.todo = {d},
                                  !.row = [c \in Draft |-> IF c = d THEN draft[d]
                                                           ELSE NoRow]]
    <2>1. r \in Publishing /\ r.pc = "next" /\ r.todo = {d} /\ r.draft = {}
        BY <1>0, Placeholders DEF Publishing, IdlePublisher
    <2>2. /\ publisher' = [publisher EXCEPT ![p] = r] /\ p \in Requester
          /\ publisher[p].pc = "idle" /\ granted' = [granted EXCEPT ![d] = @ + 1]
          /\ UNCHANGED <<docVars, pubVars, editor, bounds>>
        BY <1>4 DEF StartPublish
    <2> HIDE DEF r
    <2>3. granted' \in [Draft -> Nat]
        BY <2>2 DEF TypeOK
    <2>4. TypeOK' /\ VersionsOK'
        BY <1>2, <2>1, <2>2, <2>3, Replaced DEF TypeOK, docVars, pubVars, bounds
    <2>5. Asks(p, d)
        BY <2>1, <2>2, Replaced DEF Asks, Others, bounds
    <2> QED BY <2>4, <2>5 DEF Moves
<1>5. ASSUME NEW p \in Publisher, NEW d \in Draft, Plan(p, d)
      PROVE  TypeOK' /\ VersionsOK' /\ Moves
    <2> DEFINE n == artifacts + 1
               x == [draft |-> {d}, edit |-> publisher[p].row[d].edit]
               r == [publisher[p] EXCEPT !.pc = "planned", !.todo = publisher[p].todo \ {d},
                                         !.draft = {d}, !.artifact = n]
    <2>0. /\ publisher[p].pc = "next" /\ d \in publisher[p].todo
          /\ n \in Artifact /\ artifacts' = n /\ n \in 0..MaxArtifacts
          /\ record' = [record EXCEPT ![n] = x]
          /\ publisher' = [publisher EXCEPT ![p] = r]
          /\ UNCHANGED <<docVars, event, granted, editor, edits, moves, faults>>
        BY <1>0, <1>5 DEF Plan, Artifact
    <2>1. x \in [draft : SUBSET Draft, edit : Edit] /\ x.draft = {d}
        <3>1. publisher[p].row[d] \in Row \cup {NoRow}
            BY <1>0 DEF Publishing
        <3>2. publisher[p].row[d].edit \in Edit
            BY <3>1, Placeholders DEF Row, Edit
        <3> QED BY <3>2
    <2>2. /\ r \in Publishing /\ r.pc = "planned" /\ r.todo = publisher[p].todo \ {d}
          /\ r.draft = {d} /\ r.artifact = n /\ r.row = publisher[p].row
        BY <1>0, <2>0 DEF Publishing
    <2> HIDE DEF x, r
    <2>3. record' \in [Artifact -> [draft : SUBSET Draft, edit : Edit]]
          /\ \A a \in Artifact : record'[a].draft = IF a = n THEN {d} ELSE record[a].draft
        BY <2>0, <2>1 DEF TypeOK
    <2>4. TypeOK' /\ VersionsOK'
        BY <1>2, <2>0, <2>2, <2>3, Replaced DEF TypeOK, docVars
    <2>5. Plans(p, d)
        BY <2>0, <2>2, <2>3, Replaced DEF Plans, Others
    <2> QED BY <2>4, <2>5 DEF Moves
<1>6. ASSUME NEW p \in Publisher, NEW d \in Draft, Publish(p, d)
      PROVE  TypeOK' /\ VersionsOK' /\ Moves
    <2> DEFINE row == PublishedRow(p, d)
               r == IF publisher[p].todo = {} THEN IdlePublisher
                    ELSE [publisher[p] EXCEPT !.pc = "next", !.draft = {}, !.artifact = 0]
    <2>0. /\ publisher[p].pc = "planned" /\ d \in publisher[p].draft
          /\ event' = event \cup {publisher[p].artifact}
          /\ draft' = [draft EXCEPT ![d] = row]
          /\ publisher' = [publisher EXCEPT ![p] = r]
          /\ UNCHANGED <<versions, record, granted, editor, bounds>>
        BY <1>6 DEF Publish, Emitted
    <2>1. row \in Row /\ row.edit = draft[d].edit
          /\ row.status = IF publisher[p].row[d].status # "PUBLISHED" THEN "PUBLISHED"
                          ELSE draft[d].status
        BY <1>0 DEF PublishedRow, Row, Status
    <2>2. /\ r \in Publishing /\ r.draft = {} /\ r.todo = publisher[p].todo
          /\ \/ r.pc = "idle" /\ publisher[p].todo = {}
             \/ r.pc = "next" /\ r.row = publisher[p].row
        <3>1. CASE publisher[p].todo = {}
            BY <3>1, Placeholders
        <3>2. CASE publisher[p].todo # {}
            <4> DEFINE x == [publisher[p] EXCEPT !.pc = "next", !.draft = {}, !.artifact = 0]
            <4>1. /\ x \in Publishing /\ x.draft = {} /\ x.todo = publisher[p].todo
                  /\ x.pc = "next" /\ x.row = publisher[p].row
                <5>1. publisher[p] \in Publishing /\ 0 \in 0..MaxArtifacts
                    BY <1>0
                <5> QED BY <5>1 DEF Publishing
            <4>2. r = x
                BY <3>2
            <4> HIDE DEF x, r
            <4> QED BY <4>1, <4>2
        <3> QED BY <3>1, <3>2
    <2>3. publisher[p].artifact \in Artifact
        BY <1>0, <2>0 DEF ArtifactsOK, Between, Artifact
    <2> HIDE DEF row, r
    <2>4. /\ draft' \in [Draft -> Row] /\ event' \in SUBSET Artifact
          /\ \A c \in Draft : draft'[c] = IF c = d THEN row ELSE draft[c]
        BY <2>0, <2>1, <2>3 DEF TypeOK
    <2>5. TypeOK' /\ VersionsOK'
        BY <1>2, <2>0, <2>1, <2>2, <2>4, Replaced DEF TypeOK, bounds
    <2>6. Publishes(p, d)
        BY <2>0, <2>1, <2>2, <2>4, Replaced DEF Publishes, Others, bounds
    <2> QED BY <2>5, <2>6 DEF Moves
<1>7. ASSUME NEW p \in Publisher, FailPublisher(p)
      PROVE  TypeOK' /\ VersionsOK' /\ Moves
    <2>1. /\ publisher' = [publisher EXCEPT ![p] = IdlePublisher]
          /\ UNCHANGED <<docVars, pubVars, granted, editor, edits, moves, artifacts>>
          /\ faults' = faults + 1 /\ faults' \in 0..MaxFaults
        BY <1>0, <1>7 DEF FailPublisher
    <2>2. TypeOK' /\ VersionsOK'
        BY <1>2, <2>1, Replaced, Placeholders DEF TypeOK, docVars, pubVars
    <2>3. Fails(p)
        BY <2>1, Replaced, Placeholders DEF Fails, Others
    <2> QED BY <2>2, <2>3 DEF Moves
<1>8. CASE UNCHANGED vars
    <2>1. TypeOK' /\ VersionsOK'
        BY <1>8 DEF TypeOK, VersionsOK, Numbers, vars, docVars, pubVars, bounds
    <2>2. Edits
        BY <1>8 DEF Edits, vars, docVars, bounds
    <2> QED BY <2>1, <2>2 DEF Moves
<1> QED BY <1>1, <1>3, <1>4, <1>5, <1>6, <1>7, <1>8 DEF Next, PublisherStep

-----------------------------------------------------------------------------
(* Runs, artifacts and what is owed.                                       *)

LEMMA RunsKept ==
    ASSUME TypeOK, PublisherOK, Moves
    PROVE  PublisherOK'
<1> DEFINE Fits(p) == LET r == publisher[p] IN
        /\ r.pc = "idle" => r.todo = {}
        /\ r.pc # "planned" => r.draft = {}
        /\ r.pc = "planned" => \E d \in Draft \ r.todo : r.draft = {d}
        /\ p \in Scheduler => \A d \in r.todo \cup r.draft : r.row[d].status = "SCHEDULED"
<1>0. \A p \in Publisher : Fits(p)
    BY DEF PublisherOK
<1>1. ASSUME NEW p \in Publisher, Others(p), Fits(p)'
      PROVE  PublisherOK'
    BY <1>0, <1>1 DEF Others, PublisherOK
<1>2. CASE UNCHANGED publisher
    BY <1>2 DEF PublisherOK
<1>3. ASSUME NEW p \in Publisher, Starts(p) \/ Fails(p) PROVE PublisherOK'
    BY <1>1, <1>3 DEF Starts, Fails
<1>4. ASSUME NEW p \in Publisher, NEW d \in Draft, Asks(p, d) PROVE PublisherOK'
    BY <1>1, <1>4, PublisherAssumption DEF Asks
<1>5. ASSUME NEW p \in Publisher, NEW d \in Draft, Plans(p, d) PROVE PublisherOK'
    BY <1>0, <1>1, <1>5 DEF Plans
<1>6. ASSUME NEW p \in Publisher, NEW d \in Draft, Publishes(p, d) PROVE PublisherOK'
    BY <1>0, <1>1, <1>6 DEF Publishes
<1> QED BY <1>2, <1>3, <1>4, <1>5, <1>6 DEF Moves, Edits

\* A run that plans is between its two transactions, until it publishes.
LEMMA ArtifactsKept ==
    ASSUME TypeOK, ArtifactsOK, PublisherOK, Moves
    PROVE  ArtifactsOK'
<1>0. artifacts \in Nat /\ Between \subseteq Publisher
    BY DEF TypeOK, Between
<1>1. ASSUME Between' \subseteq Between, UNCHANGED <<pubVars, artifacts>>,
             \A p \in Between' : publisher'[p] = publisher[p]
      PROVE  ArtifactsOK'
    <2>1. IsFiniteSet(Between')
        BY <1>1, FS_Subset DEF ArtifactsOK
    <2> QED BY <1>0, <1>1, <2>1 DEF ArtifactsOK, pubVars
<1>2. CASE Edits
    BY <1>1, <1>2 DEF Edits, Between
<1>3. ASSUME NEW p \in Publisher, Starts(p) \/ Fails(p) PROVE ArtifactsOK'
    BY <1>1, <1>3 DEF Starts, Fails, Others, Between
<1>4. ASSUME NEW p \in Publisher, NEW d \in Draft, Asks(p, d) PROVE ArtifactsOK'
    BY <1>1, <1>4 DEF Asks, Others, Between
<1>5. ASSUME NEW p \in Publisher, NEW d \in Draft, Plans(p, d) PROVE ArtifactsOK'
    <2>1. Between' = Between \cup {p} /\ p \notin Between
        BY <1>5 DEF Plans, Others, Between
    <2>2. IsFiniteSet(Between')
        BY <2>1, FS_AddElement DEF ArtifactsOK
    <2>3. \A q \in Between : publisher'[q].artifact = publisher[q].artifact
                             /\ publisher[q].artifact \in (1..artifacts) \ event
        BY <1>5, <2>1 DEF Plans, Others, ArtifactsOK, Between
    <2>4. artifacts' = artifacts + 1 /\ event' = event /\ publisher'[p].artifact = artifacts'
        BY <1>5 DEF Plans
    <2>5. \A a \in Artifact : record'[a].draft # {} <=> a <= artifacts'
        BY <1>0, <1>5 DEF Plans, ArtifactsOK, Artifact
    <2>6. event' \subseteq 1..artifacts' /\ artifacts' \in (1..artifacts') \ event'
        BY <1>0, <2>4 DEF ArtifactsOK
    <2>7. \A q \in Between' : publisher'[q].artifact \in (1..artifacts') \ event'
        BY <1>0, <2>1, <2>3, <2>4, <2>6
    <2>8. \A q, s \in Between' : publisher'[q].artifact = publisher'[s].artifact => q = s
        BY <1>0, <2>1, <2>3, <2>4 DEF ArtifactsOK
    <2> QED BY <2>2, <2>5, <2>6, <2>7, <2>8 DEF ArtifactsOK
<1>6. ASSUME NEW p \in Publisher, NEW d \in Draft, Publishes(p, d) PROVE ArtifactsOK'
    <2>1. Between' = Between \ {p} /\ p \in Between
        BY <1>6 DEF Publishes, Others, Between
    <2>2. IsFiniteSet(Between')
        BY <2>1, FS_Subset DEF ArtifactsOK
    <2>3. \A q \in Between' : publisher'[q] = publisher[q]
        BY <1>0, <1>6, <2>1 DEF Publishes, Others
    <2>4. event' = event \cup {publisher[p].artifact} /\ UNCHANGED <<record, artifacts>>
        BY <1>6 DEF Publishes
    <2>5. event' \subseteq 1..artifacts'
        BY <2>1, <2>4 DEF ArtifactsOK
    <2>6. \A q \in Between' : publisher'[q].artifact \in (1..artifacts') \ event'
        BY <2>1, <2>3, <2>4 DEF ArtifactsOK
    <2> QED BY <2>1, <2>2, <2>3, <2>4, <2>5, <2>6 DEF ArtifactsOK
<1> QED BY <1>2, <1>3, <1>4, <1>5, <1>6 DEF Moves

LEMMA ArtifactSets ==
    ASSUME NEW S, S \subseteq Artifact
    PROVE  IsFiniteSet(S) /\ Cardinality(S) \in Nat
<1>1. IsFiniteSet(Artifact)
    BY BoundAssumption, FS_Interval DEF Artifact
<1> QED BY <1>1, FS_Subset, FS_CardinalityType

\* Each run in between accounts for one artifact without an event, and each
\* failure for one more.
LEMMA EventsKept ==
    ASSUME TypeOK, ArtifactsOK, PublisherOK, EventFollows, Moves
    PROVE  EventFollows'
<1>0. /\ artifacts \in Nat /\ faults \in Nat
      /\ IsFiniteSet(Silent) /\ IsFiniteSet(Between)
      /\ Cardinality(Silent) \in Nat /\ Cardinality(Between) \in Nat
    BY ArtifactSets, FS_CardinalityType DEF TypeOK, ArtifactsOK, Silent
<1>1. CASE Silent' = Silent /\ Between' = Between /\ faults' = faults
    BY <1>1 DEF EventFollows
<1>2. CASE Edits
    <2>1. Silent' = Silent /\ Between' = Between /\ faults' = faults
        BY <1>2 DEF Edits, Silent, Between, pubVars
    <2> QED BY <1>1, <2>1
<1>3. ASSUME NEW p \in Publisher, Starts(p) PROVE EventFollows'
    <2>1. Silent' = Silent /\ Between' = Between /\ faults' = faults
        BY <1>3 DEF Starts, Others, Silent, Between, pubVars
    <2> QED BY <1>1, <2>1
<1>4. ASSUME NEW p \in Publisher, NEW d \in Draft, Asks(p, d) PROVE EventFollows'
    <2>1. Silent' = Silent /\ Between' = Between /\ faults' = faults
        BY <1>4 DEF Asks, Others, Silent, Between, pubVars
    <2> QED BY <1>1, <2>1
<1>5. ASSUME NEW p \in Publisher, Fails(p) PROVE EventFollows'
    <2>1. Silent' = Silent /\ Between' = Between \ {p} /\ faults' = faults + 1
        BY <1>5 DEF Fails, Others, Silent, Between, pubVars
    <2>2. Cardinality(Between') >= Cardinality(Between) - 1 /\ Cardinality(Between') \in Nat
        <3>1. /\ IsFiniteSet(Between')
              /\ Cardinality(Between') = IF p \in Between THEN Cardinality(Between) - 1
                                         ELSE Cardinality(Between)
            BY <1>0, <2>1, FS_RemoveElement
        <3>2. Cardinality(Between') \in Nat
            BY <3>1, FS_CardinalityType
        <3> QED BY <1>0, <3>1, <3>2
    <2> QED BY <1>0, <2>1, <2>2 DEF EventFollows
<1>6. ASSUME NEW p \in Publisher, NEW d \in Draft, Plans(p, d) PROVE EventFollows'
    <2>1. Between' = Between \cup {p} /\ p \notin Between /\ faults' = faults
        BY <1>6 DEF Plans, Others, Between
    <2>2. Silent' = Silent \cup {artifacts'} /\ artifacts' \notin Silent
        BY <1>0, <1>6 DEF Plans, Silent, ArtifactsOK, Artifact
    <2>3. Cardinality(Between') = Cardinality(Between) + 1
        BY <1>0, <2>1, FS_AddElement
    <2>4. Cardinality(Silent') = Cardinality(Silent) + 1
        BY <1>0, <2>2, FS_AddElement
    <2> QED BY <1>0, <2>1, <2>3, <2>4 DEF EventFollows
<1>7. ASSUME NEW p \in Publisher, NEW d \in Draft, Publishes(p, d) PROVE EventFollows'
    <2>1. Between' = Between \ {p} /\ p \in Between /\ faults' = faults
        BY <1>7 DEF Publishes, Others, Between
    <2> DEFINE a == publisher[p].artifact
    <2>2. a \in Artifact /\ a \in Silent
        <3>1. a \in 1..artifacts /\ a \notin event
            BY <2>1 DEF ArtifactsOK
        <3>2. a \in Artifact /\ a <= artifacts
            BY <3>1, BoundAssumption DEF TypeOK, Artifact
        <3> QED BY <3>1, <3>2 DEF ArtifactsOK, Silent
    <2>3. Silent' = Silent \ {a}
        BY <1>7 DEF Publishes, Silent
    <2>4. Cardinality(Between') = Cardinality(Between) - 1
        BY <1>0, <2>1, FS_RemoveElement
    <2>5. Cardinality(Silent') = Cardinality(Silent) - 1
        BY <1>0, <2>2, <2>3, FS_RemoveElement
    <2> QED BY <1>0, <2>1, <2>4, <2>5 DEF EventFollows
<1> QED BY <1>2, <1>3, <1>4, <1>5, <1>6, <1>7 DEF Moves

\* With one scheduled run at a time: a publication by a request settles what it
\* asked for, one by the run settles the draft's being SCHEDULED, and a failure
\* makes up for either.
LEMMA GrantsKept ==
    ASSUME TypeOK, ArtifactsOK, PublisherOK, GrantsCounted, Moves,
           \A p, q \in Scheduler : p = q
    PROVE  GrantsCounted'
<1> DEFINE O(d) == IF Owed(d) THEN 1 ELSE 0
           C(d) == Cardinality(Publications(d))
           A(d) == Cardinality(Asked(d))
<1>0. /\ artifacts \in Nat /\ faults \in Nat /\ granted \in [Draft -> Nat]
      /\ \A d \in Draft : /\ IsFiniteSet(Asked(d)) /\ IsFiniteSet(Publications(d))
                           /\ C(d) \in Nat /\ A(d) \in Nat
                           /\ C(d) + A(d) + O(d) <= granted[d] + faults
    <2>1. artifacts \in Nat /\ faults \in Nat /\ granted \in [Draft -> Nat]
        BY DEF TypeOK
    <2>2. ASSUME NEW d \in Draft
          PROVE  /\ IsFiniteSet(Asked(d)) /\ IsFiniteSet(Publications(d))
                 /\ C(d) \in Nat /\ A(d) \in Nat
                 /\ C(d) + A(d) + O(d) <= granted[d] + faults
        BY ArtifactSets, FS_CardinalityType DEF GrantsCounted, Publications
    <2> QED BY <2>1, <2>2
<1>1. \A d \in Draft : /\ O(d) \in {0, 1} /\ (O(d) = 1 <=> Owed(d))
                       /\ O(d)' \in {0, 1} /\ (O(d)' = 1 <=> Owed(d)')
    OBVIOUS
<1> DEFINE Balanced(d) == /\ IsFiniteSet(Asked(d)')
                          /\ C(d)' + A(d)' + O(d)' - granted'[d] - faults'
                                <= C(d) + A(d) + O(d) - granted[d] - faults
<1>2. ASSUME faults' \in Nat, \A d \in Draft : granted'[d] \in Nat /\ Balanced(d)
      PROVE  GrantsCounted'
    <2> SUFFICES ASSUME NEW d \in Draft
                 PROVE  IsFiniteSet(Asked(d)') /\ C(d)' + A(d)' + O(d)' <= granted'[d] + faults'
        BY DEF GrantsCounted
    <2>1. C(d)' \in Nat /\ A(d)' \in Nat
        BY <1>2, ArtifactSets, FS_CardinalityType DEF Publications
    <2> HIDE DEF C, A, O
    <2> QED BY <1>0, <1>1, <1>2, <2>1
<1> DEFINE Same(d) == C(d)' = C(d) /\ Asked(d)' = Asked(d)
<1>3. ASSUME faults' = faults,
             \A d \in Draft :
                /\ Same(d)
                /\ granted'[d] = granted[d] \/ granted'[d] = granted[d] + 1
                /\ Owed(d)' => Owed(d) \/ granted'[d] = granted[d] + 1
      PROVE  GrantsCounted'
    <2>1. ASSUME NEW d \in Draft PROVE granted'[d] \in Nat /\ Balanced(d)
        <3>1. C(d)' = C(d) /\ A(d)' = A(d) /\ IsFiniteSet(Asked(d)')
            BY <1>0, <1>3
        <3>2. granted[d] \in Nat /\ C(d) \in Nat /\ A(d) \in Nat /\ faults \in Nat
            BY <1>0
        <3> HIDE DEF C, A, O
        <3> QED BY <1>1, <1>3, <3>1, <3>2
    <2> QED BY <1>0, <1>2, <1>3, <2>1
<1>4. \A p \in Publisher : publisher[p].pc # "planned" => publisher[p].draft = {}
    BY DEF PublisherOK
<1>5. ASSUME Edits PROVE GrantsCounted'
    <2>1. \A d \in Draft : Publications(d)' = Publications(d) /\ Asked(d)' = Asked(d)
        BY <1>5 DEF Edits, Publications, Asked, pubVars
    <2>2. ASSUME NEW d \in Draft, Owed(d)' PROVE Owed(d) \/ granted'[d] = granted[d] + 1
        BY <1>5, <2>2 DEF Edits, Owed
    <2> QED BY <1>3, <1>5, <2>1, <2>2 DEF Edits
<1>6. ASSUME NEW p \in Publisher, Starts(p) PROVE GrantsCounted'
    <2>1. p \in Scheduler /\ p \notin Requester /\ \A q \in Scheduler : q = p
        BY <1>6, PublisherAssumption DEF Starts
    <2>2. \A d \in Draft : Publications(d)' = Publications(d) /\ Asked(d)' = Asked(d)
        BY <1>6, <2>1 DEF Starts, Others, Publications, Asked, Publisher, pubVars
    <2>3. publisher[p].draft = {}
        BY <1>4, <1>6 DEF Starts
    <2>4. ASSUME NEW d \in Draft, Owed(d)' PROVE Owed(d)
        <3>1. draft[d].status = "SCHEDULED"
            BY <1>6, <2>1, <2>4 DEF Starts, Owed, docVars
        <3> QED BY <2>1, <2>3, <3>1 DEF Owed
    <2> QED BY <1>3, <1>6, <2>2, <2>4 DEF Starts
<1>7. ASSUME NEW p \in Publisher, NEW d \in Draft, Asks(p, d) PROVE GrantsCounted'
    <2>1. p \in Requester /\ p \notin Scheduler /\ publisher[p].todo = {} /\ faults' = faults
        BY <1>7, PublisherAssumption DEF Asks, PublisherOK
    <2>2. \A c \in Draft : /\ Publications(c)' = Publications(c) /\ (Owed(c)' <=> Owed(c))
                           /\ granted'[c] = IF c = d THEN granted[c] + 1 ELSE granted[c]
        BY <1>0, <1>7, <2>1 DEF Asks, Others, Publications, Owed, Publisher, pubVars, docVars
    <2>3. /\ Asked(d)' = Asked(d) \cup {p} /\ p \notin Asked(d)
          /\ \A c \in Draft \ {d} : Asked(c)' = Asked(c)
        BY <1>7, <2>1 DEF Asks, Others, Asked, Publisher
    <2>4. ASSUME NEW c \in Draft PROVE granted'[c] \in Nat /\ Balanced(c)
        <3>0. granted[c] \in Nat /\ C(c) \in Nat /\ A(c) \in Nat /\ faults \in Nat
            BY <1>0
        <3>1. C(c)' = C(c) /\ O(c)' = O(c)
            BY <2>2
        <3>2. IsFiniteSet(Asked(c)') /\ A(c)' = IF c = d THEN A(c) + 1 ELSE A(c)
            <4>1. CASE c = d
                BY <1>0, <2>3, <4>1, FS_AddElement
            <4>2. CASE c # d
                BY <1>0, <2>3, <4>2
            <4> QED BY <4>1, <4>2
        <3> HIDE DEF C, A, O
        <3> QED BY <1>1, <2>1, <2>2, <3>0, <3>1, <3>2
    <2> QED BY <1>0, <1>2, <2>1, <2>4
<1>8. ASSUME NEW p \in Publisher, Fails(p) PROVE GrantsCounted'
    <2>1. faults' = faults + 1 /\ granted' = granted
          /\ \A c \in Draft : Publications(c)' = Publications(c) /\ Asked(c)' = Asked(c) \ {p}
        BY <1>8 DEF Fails, Others, Publications, Asked, Publisher, pubVars
    <2>2. ASSUME NEW c \in Draft PROVE granted'[c] \in Nat /\ Balanced(c)
        <3>0. granted[c] \in Nat /\ C(c) \in Nat /\ A(c) \in Nat /\ faults \in Nat
            BY <1>0
        <3>1. C(c)' = C(c)
            BY <2>1
        <3>2. /\ IsFiniteSet(Asked(c)')
              /\ A(c)' = IF p \in Asked(c) THEN A(c) - 1 ELSE A(c)
            BY <1>0, <2>1, FS_RemoveElement
        <3> HIDE DEF C, A, O
        <3> QED BY <1>1, <2>1, <3>0, <3>1, <3>2
    <2> QED BY <1>0, <1>2, <2>1, <2>2
<1>9. ASSUME NEW p \in Publisher, NEW d \in Draft, Plans(p, d) PROVE GrantsCounted'
    <2>0. /\ faults' = faults /\ granted' = granted /\ publisher[p].draft = {}
          /\ d \in publisher[p].todo
        BY <1>4, <1>9 DEF Plans
    <2>1. /\ Publications(d)' = Publications(d) \cup {artifacts'} /\ artifacts' \notin Publications(d)
          /\ \A c \in Draft \ {d} : Publications(c)' = Publications(c)
        <3>1. artifacts' \in Artifact /\ artifacts' = artifacts + 1
            BY <1>9 DEF Plans
        <3>2. record[artifacts'].draft = {}
            BY <1>0, <3>1 DEF ArtifactsOK
        <3> QED BY <1>9, <3>1, <3>2 DEF Plans, Publications
    <2>2. ASSUME NEW c \in Draft
          PROVE  IsFiniteSet(Publications(c)') /\ C(c)' = IF c = d THEN C(c) + 1 ELSE C(c)
        <3>1. CASE c = d
            BY <1>0, <2>1, <3>1, FS_AddElement
        <3>2. CASE c # d
            BY <1>0, <2>1, <3>2
        <3> QED BY <3>1, <3>2
    <2>3. CASE p \in Requester
        <3>1. p \notin Scheduler
            BY <2>3, PublisherAssumption
        <3>2. /\ Asked(d)' = Asked(d) \ {p} /\ p \in Asked(d)
              /\ \A c \in Draft \ {d} : Asked(c)' = Asked(c)
            BY <1>9, <2>0, <2>3 DEF Plans, Others, Asked, Publisher
        <3>3. \A c \in Draft : Owed(c)' <=> Owed(c)
            BY <1>9, <3>1 DEF Plans, Others, Owed, Publisher, docVars
        <3>4. ASSUME NEW c \in Draft PROVE granted'[c] \in Nat /\ Balanced(c)
            <4>0. granted[c] \in Nat /\ C(c) \in Nat /\ A(c) \in Nat /\ faults \in Nat
                BY <1>0
            <4>1. IsFiniteSet(Asked(c)') /\ A(c)' = IF c = d THEN A(c) - 1 ELSE A(c)
                <5>1. CASE c = d
                    BY <1>0, <3>2, <5>1, FS_RemoveElement
                <5>2. CASE c # d
                    BY <1>0, <3>2, <5>2
                <5> QED BY <5>1, <5>2
            <4>2. O(c)' = O(c)
                BY <3>3
            <4> HIDE DEF C, A, O
            <4> QED BY <1>1, <2>0, <2>2, <4>0, <4>1, <4>2
        <3> QED BY <1>0, <1>2, <2>0, <3>4
    <2>4. CASE p \in Scheduler
        <3>1. p \notin Requester /\ \A q \in Scheduler : q = p
            BY <2>4, PublisherAssumption
        <3>2. \A c \in Draft : Asked(c)' = Asked(c)
            BY <1>9, <3>1 DEF Plans, Others, Asked, Publisher
        <3>3. Owed(d) /\ ~Owed(d)'
            BY <1>9, <2>0, <2>4, <3>1 DEF Plans, Owed
        <3>4. ASSUME NEW c \in Draft \ {d}, Owed(c)' PROVE Owed(c)
            BY <1>9, <2>0, <2>4, <3>1, <3>4 DEF Plans, Owed, docVars
        <3>5. ASSUME NEW c \in Draft PROVE granted'[c] \in Nat /\ Balanced(c)
            <4>0. granted[c] \in Nat /\ C(c) \in Nat /\ A(c) \in Nat /\ faults \in Nat
                  /\ IsFiniteSet(Asked(c)')
                BY <1>0, <3>2
            <4>1. A(c)' = A(c)
                BY <3>2
            <4>2. O(c)' <= IF c = d THEN O(c) - 1 ELSE O(c)
                BY <1>1, <3>3, <3>4
            <4> HIDE DEF C, A, O
            <4> QED BY <1>1, <2>0, <2>2, <4>0, <4>1, <4>2
        <3> QED BY <1>0, <1>2, <2>0, <3>5
    <2> QED BY <2>3, <2>4 DEF Publisher
<1>10. ASSUME NEW p \in Publisher, NEW d \in Draft, Publishes(p, d) PROVE GrantsCounted'
    <2>1. \A c \in Draft : Publications(c)' = Publications(c) /\ Asked(c)' = Asked(c)
        BY <1>10 DEF Publishes, Others, Publications, Asked, Publisher
    <2>2. ASSUME NEW c \in Draft, Owed(c)' PROVE Owed(c)
        <3>1. CASE \E q \in Scheduler : c \in publisher'[q].todo
            BY <1>10, <3>1 DEF Publishes, Others, Owed, Publisher
        <3>2. CASE /\ draft'[c].status = "SCHEDULED"
                   /\ \A q \in Scheduler : publisher'[q].draft # {c}
            <4>1. draft[c].status = "SCHEDULED"
                  /\ (c = d => publisher[p].row[d].status = "PUBLISHED")
                BY <1>10, <3>2 DEF Publishes
            <4>2. p \in Scheduler => publisher[p].row[d].status = "SCHEDULED"
                BY <1>10 DEF Publishes, PublisherOK
            <4>3. p \in Scheduler => publisher[p].draft # {c}
                BY <1>10, <4>1, <4>2 DEF Publishes
            <4>4. \A q \in Scheduler : publisher[q].draft # {c}
                BY <1>10, <3>2, <4>3 DEF Publishes, Others, Publisher
            <4> QED BY <4>1, <4>4 DEF Owed
        <3> QED BY <2>2, <3>1, <3>2 DEF Owed
    <2> QED BY <1>3, <1>10, <2>1, <2>2 DEF Publishes
<1> QED BY <1>5, <1>6, <1>7, <1>8, <1>9, <1>10 DEF Moves

-----------------------------------------------------------------------------
(* The theorems.                                                           *)

IInv == TypeOK /\ VersionsOK /\ PublisherOK /\ ArtifactsOK /\ EventFollows

LEMMA RunInit == Init => PublisherOK /\ ArtifactsOK /\ EventFollows /\ GrantsCounted
<1> SUFFICES ASSUME Init PROVE PublisherOK /\ ArtifactsOK /\ EventFollows /\ GrantsCounted
    OBVIOUS
<1>1. \A p \in Publisher : publisher[p] = IdlePublisher
    BY DEF Init
<1>2. \A a \in Artifact : record[a].draft = {}
    BY DEF Init
<1>3. PublisherOK
    BY <1>1, Placeholders DEF PublisherOK
<1>4. Between = {} /\ Silent = {}
    BY <1>1, <1>2, Placeholders DEF Between, Silent
<1>5. ArtifactsOK
    BY <1>2, <1>4, FS_EmptySet DEF ArtifactsOK, Init, Artifact
<1>6. EventFollows
    BY <1>4, FS_EmptySet DEF EventFollows, Init
<1>7. ASSUME NEW d \in Draft
      PROVE  /\ IsFiniteSet(Asked(d))
             /\ Cardinality(Publications(d)) + Cardinality(Asked(d)) + (IF Owed(d) THEN 1 ELSE 0)
                    <= granted[d] + faults
    <2>1. Publications(d) = {} /\ Asked(d) = {} /\ ~Owed(d)
        <3>1. draft[d].status # "SCHEDULED" /\ Requester \subseteq Publisher /\ Scheduler \subseteq Publisher
            BY DEF Init, Publisher
        <3> QED BY <1>1, <1>2, <3>1, Placeholders DEF Publications, Asked, Owed
    <2>2. granted[d] = 0 /\ faults = 0
        BY DEF Init
    <2> QED BY <2>1, <2>2, FS_EmptySet
<1>8. GrantsCounted
    BY <1>7 DEF GrantsCounted
<1> QED BY <1>3, <1>5, <1>6, <1>8

LEMMA Inductive == Spec => []IInv
<1>1. Init => IInv
    BY TypeInit, RunInit DEF IInv
<1>2. IInv /\ [Next]_vars => IInv'
    BY TypeAndMoves, RunsKept, ArtifactsKept, EventsKept DEF IInv
<1> QED BY <1>1, <1>2, PTL DEF Spec

\* Every variable has its type: no version number exceeds the versions there
\* can be, and no event names an artifact that was not planned.
THEOREM TypeCorrect == Spec => []TypeOK
<1>1. IInv => TypeOK
    BY DEF IInv
<1> QED BY <1>1, Inductive, PTL

\* The numbers of a draft's versions have no gap, however editors overlap, and
\* its content is that of one of them (update_draft).
THEOREM NothingForgotten == Spec => []HistoryComplete
<1>1. IInv => HistoryComplete
    <2> SUFFICES ASSUME IInv, NEW d \in Draft
                 PROVE  /\ Numbers(d) = 1..Cardinality(Numbers(d))
                        /\ \E v \in versions[d] : v.edit = draft[d].edit
        BY DEF HistoryComplete
    <2>1. PICK n \in 1..edits + 1 : Numbers(d) = 1..n
        BY DEF IInv, VersionsOK
    <2>2. edits \in Nat
        BY BoundAssumption DEF IInv, TypeOK
    <2>3. Cardinality(1..n) = n
        BY <2>2, FS_Interval
    <2> QED BY <2>1, <2>3 DEF IInv, VersionsOK
<1> QED BY <1>1, Inductive, PTL

\* The records without an ArticlePublished event are those of the runs between
\* their two transactions, and one for each failure (publish, plan_distribution).
THEOREM EventsFollow == Spec => []EventFollows
<1>1. IInv => EventFollows
    BY DEF IInv
<1> QED BY <1>1, Inductive, PTL

\* With one scheduled run at a time a draft is published no more often than it
\* was scheduled or asked for, and once more for each failure.
THEOREM NoneTwice ==
    ASSUME \A p, q \in Scheduler : p = q
    PROVE  Spec => []PublishedOnce
<1>1. Init => GrantsCounted
    BY RunInit
<1>2. IInv /\ GrantsCounted /\ [Next]_vars => GrantsCounted'
    BY TypeAndMoves, GrantsKept DEF IInv
<1>3. IInv /\ GrantsCounted => PublishedOnce
    <2> SUFFICES ASSUME IInv, GrantsCounted, NEW d \in Draft
                 PROVE  Cardinality(Publications(d)) <= granted[d] + faults
        BY DEF PublishedOnce
    <2>1. /\ Cardinality(Publications(d)) \in Nat /\ Cardinality(Asked(d)) \in Nat
          /\ granted[d] \in Nat /\ faults \in Nat
        <3>1. Cardinality(Publications(d)) \in Nat
            BY ArtifactSets DEF Publications
        <3>2. Cardinality(Asked(d)) \in Nat
            BY FS_CardinalityType DEF GrantsCounted
        <3> QED BY <3>1, <3>2 DEF IInv, TypeOK
    <2>2. Cardinality(Publications(d)) + Cardinality(Asked(d)) + (IF Owed(d) THEN 1 ELSE 0)
                    <= granted[d] + faults
        BY DEF GrantsCounted
    <2> QED BY <2>1, <2>2
<1> QED BY <1>1, <1>2, <1>3, Inductive, PTL DEF Spec

=============================================================================
