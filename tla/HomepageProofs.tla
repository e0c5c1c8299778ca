--------------------------- MODULE HomepageProofs ---------------------------
(***************************************************************************)
(* Proofs about Homepage, for any number of articles, readers and          *)
(* refreshers, and any limits on what they accept and select.              *)
(***************************************************************************)
EXTENDS Homepage, TLAPS

IInv == TypeOK /\ SinceExpired /\ ChosenUnexpired

(* Listings and selections. *)

LEMMA Placeholders ==
    /\ None \in Listing /\ ~None.current /\ None.ids = {}
    /\ Idle \in State /\ Idle.pc = "idle" /\ Idle.entry = None /\ Idle.since = {}
BY DEF None, Listing, Idle, State

LEMMA Copies ==
    ASSUME TypeOK
    PROVE  /\ LatestCopy \in Listing /\ (latest = {} => ~LatestCopy.current)
           /\ \A listing \in Listing : Stale(listing) \in Listing /\ ~Stale(listing).current
BY DEF TypeOK, LatestCopy, Stale, Listing

\* A build selects articles of the last 24 hours, if there are any.
LEMMA SelectedAreFresh ==
    /\ \A s \in Selections : s \subseteq Article
    /\ \A s \in Selections : s \cap Expired = {} \/ Fresh = {}
<1> SUFFICES ASSUME NEW s \in Selections
             PROVE  s \subseteq Article /\ (s \cap Expired = {} \/ Fresh = {})
    OBVIOUS
<1>1. PICK found \in Candidates : s \subseteq found
    BY DEF Selections
<1>2. Fresh \subseteq Article /\ Aged \subseteq Article /\ Published \subseteq Article
      /\ Fresh \cap Expired = {}
    BY DEF Fresh, Aged, Published, Expired, InLife
<1>3. CASE Fresh = {}
    <2>1. found \subseteq Article
        BY <1>1, <1>2, <1>3 DEF Candidates
    <2> QED BY <1>1, <1>3, <2>1
<1>4. CASE Fresh # {}
    <2>1. found = Fresh
        BY <1>1, <1>4 DEF Candidates
    <2> QED BY <1>1, <1>2, <2>1
<1> QED BY <1>3, <1>4

-----------------------------------------------------------------------------
(* Steps of a process.                                                     *)

Fits(r) == /\ r \in State /\ r.since \subseteq Expired
           /\ r.pc \in Chosen => r.ids \cap r.since = {} \/ r.bare
           /\ latest = {} => ~r.entry.current

\* A process that goes on: with a copy that is not wrongly current, nothing in
\* "since" that was not expired, and a choice that is checked.
LEMMA Goes ==
    ASSUME IInv, NEW p \in Process, NEW r, Goto(p, r), Fits(r), UNCHANGED <<life, latest>>,
           ranking' \in Listing, latest = {} => ~ranking'.current, faults' \in 0..MaxFaults
    PROVE  IInv'
<1>1. /\ proc' \in [Process -> State] /\ proc'[p] = r
      /\ \A q \in Process \ {p} : proc'[q] = proc[q]
    BY DEF IInv, TypeOK, Goto, Fits
<1>2. TypeOK'
    BY <1>1 DEF IInv, TypeOK, Fits
<1>3. Expired' = Expired
    BY DEF Expired, InLife
<1>4. SinceExpired'
    BY <1>1, <1>3 DEF IInv, SinceExpired, Fits
<1>5. ChosenUnexpired'
    BY <1>1 DEF IInv, ChosenUnexpired, Fits
<1> QED BY <1>2, <1>4, <1>5 DEF IInv

\* Nothing of the ranking changes, or it is emptied.
LEMMA GoesQuietly ==
    ASSUME IInv, NEW p \in Process, NEW r, Goto(p, r), Fits(r), UNCHANGED <<life, latest>>,
           ranking' = ranking \/ ranking' = None, faults' \in 0..MaxFaults
    PROVE  IInv'
<1>1. ranking' \in Listing /\ (latest = {} => ~ranking'.current)
    BY Placeholders DEF IInv, TypeOK
<1> QED BY <1>1, Goes

LEMMA Inductiveness ==
    ASSUME IInv, [Next]_vars
    PROVE  IInv'
<1> USE BoundAssumption
<1>0. /\ \A p \in Process : proc[p] \in State /\ Fits(proc[p])
      /\ Expired \subseteq Article /\ latest \subseteq Article /\ faults \in 0..MaxFaults
      /\ ranking \in Listing /\ (latest = {} => ~ranking.current)
      /\ LatestCopy \in Listing /\ (latest = {} => ~LatestCopy.current)
      /\ Reader \subseteq Process /\ Refresher \subseteq Process
    BY Copies DEF IInv, TypeOK, SinceExpired, ChosenUnexpired, Fits, Expired, InLife, Process
\* A reader's steps.
<1>1. ASSUME NEW p \in Process, BeginRequest(p) PROVE IInv'
    <2> DEFINE r == [Idle EXCEPT !.pc = "ranking", !.since = Expired]
    <2>1. /\ r \in State /\ r.pc = "ranking" /\ r.since = Expired /\ r.entry = None
        BY <1>0, Placeholders DEF State
    <2>2. Goto(p, r) /\ UNCHANGED <<life, latest, ranking, faults>>
        BY <1>1 DEF BeginRequest
    <2> HIDE DEF r
    <2>3. Fits(r)
        BY <2>1, Placeholders DEF Fits, Chosen
    <2> QED BY <1>0, <2>2, <2>3, GoesQuietly
<1>2. ASSUME NEW p \in Process, ReadRanking(p) PROVE IInv'
    <2> DEFINE pc == IF ranking.ids = {} THEN "projection" ELSE "identity"
               r == [proc[p] EXCEPT !.entry = ranking, !.pc = pc]
    <2>1. pc \in {"projection", "identity"}
        OBVIOUS
    <2>2. Goto(p, r) /\ UNCHANGED <<life, latest, ranking, faults>>
        BY <1>2 DEF ReadRanking
    <2> HIDE DEF pc
    <2>3. r \in State /\ r.pc = pc /\ r.since = proc[p].since /\ r.entry = ranking
        BY <1>0, <2>1 DEF State
    <2> HIDE DEF r
    <2>4. Fits(r)
        BY <1>0, <2>1, <2>3 DEF Fits, Chosen
    <2> QED BY <1>0, <2>2, <2>4, GoesQuietly
\* A step that only moves on, or moves on without what it had read.
<1>3. ASSUME NEW p \in Process,
             NEW pc \in {"idle", "identity", "checkRanking", "projection", "checkStories", "store",
                         "invalidate", "expire", "select", "compare", "insert", "clear", "meta",
                         "served"},
             pc \in Chosen => proc[p].pc \in Chosen,
             \/ Goto(p, [proc[p] EXCEPT !.pc = pc])
             \/ Goto(p, [proc[p] EXCEPT !.pc = pc, !.entry = None]),
             ranking' = ranking \/ ranking' = None,
             UNCHANGED <<life, latest>>, faults' \in 0..MaxFaults
      PROVE  IInv'
    <2> DEFINE q == [proc[p] EXCEPT !.pc = pc]
               r == [proc[p] EXCEPT !.pc = pc, !.entry = None]
    <2>1. /\ q \in State /\ q.pc = pc /\ q.since = proc[p].since /\ q.ids = proc[p].ids
          /\ q.entry = proc[p].entry /\ q.bare = proc[p].bare
        BY <1>0 DEF State
    <2>2. /\ r \in State /\ r.pc = pc /\ r.since = proc[p].since /\ r.ids = proc[p].ids
          /\ r.entry = None /\ r.bare = proc[p].bare
        BY <1>0, Placeholders DEF State
    <2>3. Goto(p, q) \/ Goto(p, r)
        BY <1>3
    <2> HIDE DEF q, r
    <2>4. Fits(q) /\ Fits(r)
        BY <1>0, <1>3, <2>1, <2>2, Placeholders DEF Fits
    <2> QED BY <1>3, <2>3, <2>4, GoesQuietly
<1>4. ASSUME NEW p \in Process, CheckIdentity(p) PROVE IInv'
    BY <1>0, <1>3, <1>4 DEF CheckIdentity, GotoRebuild, GotoPc, Chosen
<1>5. ASSUME NEW p \in Process, CheckRanking(p) PROVE IInv'
    <2> DEFINE r == [proc[p] EXCEPT !.pc = "served", !.ids = proc[p].entry.ids, !.entry = None]
    <2>1. UNCHANGED <<life, latest, ranking, faults>>
        BY <1>5 DEF CheckRanking
    <2>2. CASE GotoRebuild(p)
        BY <1>0, <1>3, <2>1, <2>2 DEF GotoRebuild, Chosen
    <2>3. CASE ~AnyExpired(proc[p].entry.ids) /\ Goto(p, r)
        <3>1. /\ r \in State /\ r.since = proc[p].since /\ r.ids = proc[p].entry.ids
              /\ r.entry = None
            BY <1>0, Placeholders DEF State, Listing
        <3>2. r.ids \cap r.since = {}
            BY <1>0, <2>3, <3>1 DEF AnyExpired, Fits
        <3> HIDE DEF r
        <3>3. Fits(r)
            BY <1>0, <3>1, <3>2, Placeholders DEF Fits
        <3> QED BY <1>0, <2>1, <2>3, <3>3, GoesQuietly
    <2> QED BY <1>5, <2>2, <2>3 DEF CheckRanking
<1>6. ASSUME NEW p \in Process, ReadProjection(p) PROVE IInv'
    <2> DEFINE r == [proc[p] EXCEPT !.pc = "checkStories", !.entry = LatestCopy]
    <2>1. UNCHANGED <<life, latest, ranking, faults>>
        BY <1>6 DEF ReadProjection
    <2>2. CASE GotoRebuild(p)
        BY <1>0, <1>3, <2>1, <2>2 DEF GotoRebuild, Chosen
    <2>3. CASE Goto(p, r)
        <3>1. r \in State /\ r.pc = "checkStories" /\ r.since = proc[p].since
              /\ r.entry = LatestCopy
            BY <1>0 DEF State
        <3> HIDE DEF r
        <3>2. Fits(r)
            BY <1>0, <3>1 DEF Fits, Chosen
        <3> QED BY <1>0, <2>1, <2>3, <3>2, GoesQuietly
    <2> QED BY <1>6, <2>2, <2>3 DEF ReadProjection
<1>7. ASSUME NEW p \in Process, CheckStories(p) PROVE IInv'
    <2> DEFINE r == [proc[p] EXCEPT !.pc = "store", !.ids = proc[p].entry.ids]
    <2>1. UNCHANGED <<life, latest, ranking, faults>>
        BY <1>7 DEF CheckStories
    <2>2. CASE GotoRebuild(p)
        BY <1>0, <1>3, <2>1, <2>2 DEF GotoRebuild, Chosen
    <2>3. CASE ~AnyExpired(proc[p].entry.ids) /\ Goto(p, r)
        <3>1. /\ r \in State /\ r.since = proc[p].since /\ r.ids = proc[p].entry.ids
              /\ r.entry = proc[p].entry
            BY <1>0 DEF State, Listing
        <3>2. r.ids \cap r.since = {}
            BY <1>0, <2>3, <3>1 DEF AnyExpired, Fits
        <3> HIDE DEF r
        <3>3. Fits(r)
            BY <1>0, <3>1, <3>2 DEF Fits
        <3> QED BY <1>0, <2>1, <2>3, <3>3, GoesQuietly
    <2> QED BY <1>7, <2>2, <2>3 DEF CheckStories
<1>8. ASSUME NEW p \in Process, StoreRanking(p) PROVE IInv'
    <2> DEFINE r == [proc[p] EXCEPT !.pc = "served", !.entry = None]
    <2>1. /\ proc[p].pc = "store" /\ Goto(p, r) /\ UNCHANGED <<life, latest, faults>>
          /\ ranking' = [ids |-> proc[p].ids, current |-> proc[p].entry.current]
        BY <1>8 DEF StoreRanking
    <2>2. /\ r \in State /\ r.since = proc[p].since /\ r.ids = proc[p].ids /\ r.entry = None
          /\ r.bare = proc[p].bare
        BY <1>0, Placeholders DEF State
    <2> HIDE DEF r
    <2>3. Fits(r)
        BY <1>0, <2>1, <2>2, Placeholders DEF Fits, Chosen
    <2>4. ranking' \in Listing /\ (latest = {} => ~ranking'.current)
        BY <1>0, <2>1 DEF Fits, State, Listing
    <2> QED BY <1>0, <2>1, <2>3, <2>4, Goes
<1>9. ASSUME NEW p \in Process, ReadMeta(p) PROVE IInv'
    <2> DEFINE r == [proc[p] EXCEPT !.pc = "store", !.entry = LatestCopy]
    <2>1. proc[p].pc = "meta" /\ Goto(p, r) /\ UNCHANGED <<life, latest, ranking, faults>>
        BY <1>9 DEF ReadMeta
    <2>2. /\ r \in State /\ r.since = proc[p].since /\ r.ids = proc[p].ids
          /\ r.entry = LatestCopy /\ r.bare = proc[p].bare
        BY <1>0 DEF State
    <2> HIDE DEF r
    <2>3. Fits(r)
        BY <1>0, <2>1, <2>2 DEF Fits, Chosen
    <2> QED BY <1>0, <2>1, <2>3, GoesQuietly
\* A rebuild.
<1>10. ASSUME NEW p \in Process, InvalidateCache(p) PROVE IInv'
    BY <1>0, <1>3, <1>10 DEF InvalidateCache, GotoPc, Chosen
<1>11. ASSUME NEW p \in Process, ExpireArticles(p) PROVE IInv'
    <2>1. PICK grace \in SUBSET InLife({"due"}), pc \in {"select", "idle"} :
             /\ proc[p].pc = "expire" /\ UNCHANGED <<latest, ranking, faults>>
             /\ life' = [a \in Article |-> IF a \in grace THEN "fresh"
                                           ELSE IF a \in InLife({"due", "aged"}) THEN "expired"
                                           ELSE life[a]]
             /\ proc' = [q \in Process |-> [proc[q] EXCEPT
                            !.since = @ \ grace, !.pc = IF q = p THEN pc ELSE @]]
        <3>1. PICK young \in SUBSET (InLife({"due"}) \cap ShortLived) :
                 LET expiring == InLife({"due", "aged"})
                     left == Cardinality(Fresh \cup young) - Cardinality(expiring)
                     grace == IF left < Floor THEN young ELSE {}
                     spared == p \in Refresher /\ expiring \subseteq grace
                 IN  /\ life' = [a \in Article |-> IF a \in grace THEN "fresh"
                                                   ELSE IF a \in expiring THEN "expired"
                                                   ELSE life[a]]
                     /\ \E pc \in {"select"} \cup (IF spared THEN {"idle"} ELSE {}) :
                            proc' = [q \in Process |-> [proc[q] EXCEPT
                                         !.since = @ \ grace, !.pc = IF q = p THEN pc ELSE @]]
            BY <1>11 DEF ExpireArticles
        <3> DEFINE left == Cardinality(Fresh \cup young) - Cardinality(InLife({"due", "aged"}))
                   grace == IF left < Floor THEN young ELSE {}
        <3>2. grace \in SUBSET InLife({"due"})
            OBVIOUS
        <3>3. PICK pc \in {"select", "idle"} :
                 proc' = [q \in Process |-> [proc[q] EXCEPT
                              !.since = @ \ grace, !.pc = IF q = p THEN pc ELSE @]]
            BY <3>1
        <3>4. life' = [a \in Article |-> IF a \in grace THEN "fresh"
                                         ELSE IF a \in InLife({"due", "aged"}) THEN "expired"
                                         ELSE life[a]]
            BY <3>1
        <3>5. proc[p].pc = "expire" /\ UNCHANGED <<latest, ranking, faults>>
            BY <1>11 DEF ExpireArticles
        <3> HIDE DEF grace
        <3> QED BY <3>2, <3>3, <3>4, <3>5
    <2>2. ASSUME NEW q \in Process
          PROVE  /\ proc'[q] \in State /\ proc'[q].entry = proc[q].entry
                 /\ proc'[q].since = proc[q].since \ grace
                 /\ proc'[q].ids = proc[q].ids /\ proc'[q].bare = proc[q].bare
                 /\ proc'[q].pc \in Chosen => proc[q].pc \in Chosen
        <3> DEFINE x == IF q = p THEN pc ELSE proc[q].pc
        <3>1. proc'[q] = [proc[q] EXCEPT !.since = @ \ grace, !.pc = x]
            BY <2>1
        <3>2. x = proc[q].pc \/ x \in {"select", "idle"}
            OBVIOUS
        <3> HIDE DEF x
        <3>3. /\ proc'[q] \in State /\ proc'[q].entry = proc[q].entry /\ proc'[q].pc = x
              /\ proc'[q].since = proc[q].since \ grace
              /\ proc'[q].ids = proc[q].ids /\ proc'[q].bare = proc[q].bare
            BY <1>0, <3>1, <3>2 DEF State
        <3> QED BY <3>2, <3>3 DEF Chosen
    <2>3. life' \in [Article -> {"unpublished", "fresh", "aged", "due", "expired"}]
          /\ Expired \ grace \subseteq Expired'
        BY <2>1 DEF IInv, TypeOK, Expired, InLife
    <2>4. proc' \in [Process -> State]
        BY <2>1, <2>2
    <2>5. TypeOK'
        BY <2>1, <2>2, <2>3, <2>4 DEF IInv, TypeOK
    <2>6. SinceExpired' /\ ChosenUnexpired'
        BY <2>2, <2>3 DEF IInv, SinceExpired, ChosenUnexpired
    <2> QED BY <2>5, <2>6 DEF IInv
<1>12. ASSUME NEW p \in Process, NEW s \in Selections, NEW pc \in {"meta", "compare", "served"},
              Goto(p, [proc[p] EXCEPT !.ids = s, !.bare = (Fresh = {}), !.pc = pc]),
              UNCHANGED <<life, latest, ranking>>, faults' \in 0..MaxFaults
       PROVE  IInv'
    <2> DEFINE bare == Fresh = {}
               r == [proc[p] EXCEPT !.ids = s, !.bare = bare, !.pc = pc]
    <2>1. s \subseteq Article /\ (s \cap Expired = {} \/ bare) /\ bare \in BOOLEAN
        BY SelectedAreFresh
    <2>2. Goto(p, r)
        BY <1>12
    <2> HIDE DEF bare
    <2>3. /\ r \in State /\ r.since = proc[p].since /\ r.ids = s /\ r.bare = bare
          /\ r.entry = proc[p].entry
        BY <1>0, <2>1 DEF State
    <2> HIDE DEF r
    <2>4. Fits(r)
        BY <1>0, <2>1, <2>3 DEF Fits
    <2> QED BY <1>12, <2>2, <2>4, GoesQuietly
<1>13. ASSUME NEW p \in Process, SelectStories(p) PROVE IInv'
    <2>1. PICK s \in Selections :
             Goto(p, [proc[p] EXCEPT !.ids = s, !.bare = (Fresh = {}),
                                     !.pc = IF s = {} THEN "meta" ELSE "compare"])
        BY <1>13 DEF SelectStories
    <2> DEFINE pc == IF s = {} THEN "meta" ELSE "compare"
    <2>2. pc \in {"meta", "compare", "served"}
        OBVIOUS
    <2>3. Goto(p, [proc[p] EXCEPT !.ids = s, !.bare = (Fresh = {}), !.pc = pc])
          /\ UNCHANGED <<life, latest, ranking, faults>>
        BY <1>13, <2>1 DEF SelectStories
    <2> HIDE DEF pc
    <2> QED BY <1>0, <1>12, <2>2, <2>3
<1>14. ASSUME NEW p \in Process, CompareLatest(p) PROVE IInv'
    <2> DEFINE r == [proc[p] EXCEPT !.pc = "insert", !.entry = LatestCopy]
    <2>1. proc[p].pc = "compare" /\ UNCHANGED <<life, latest, ranking, faults>>
        BY <1>14 DEF CompareLatest
    <2>2. CASE GotoPc(p, "meta")
        BY <1>0, <1>3, <2>1, <2>2 DEF GotoPc, Chosen
    <2>3. CASE Goto(p, r)
        <3>1. /\ r \in State /\ r.since = proc[p].since /\ r.ids = proc[p].ids
              /\ r.entry = LatestCopy /\ r.bare = proc[p].bare
            BY <1>0 DEF State
        <3> HIDE DEF r
        <3>2. Fits(r)
            BY <1>0, <2>1, <3>1 DEF Fits, Chosen
        <3> QED BY <1>0, <2>1, <2>3, <3>2, GoesQuietly
    <2> QED BY <1>14, <2>2, <2>3 DEF CompareLatest
\* The latest projection is another one, or none.
<1>15. ASSUME NEW p \in Process, NEW r, proc' = Outdated([proc EXCEPT ![p] = r]),
              r \in State, r.since = proc[p].since, r.ids = proc[p].ids, r.bare = proc[p].bare,
              r.pc \in Chosen => proc[p].pc \in Chosen,
              latest' \subseteq Article, ranking' \in Listing, ~ranking'.current,
              UNCHANGED <<life, faults>>
       PROVE  IInv'
    <2>1. ASSUME NEW q \in Process
          PROVE  /\ proc'[q] \in State /\ ~proc'[q].entry.current
                 /\ proc'[q].since = proc[q].since
                 /\ proc'[q].ids = proc[q].ids /\ proc'[q].bare = proc[q].bare
                 /\ proc'[q].pc \in Chosen => proc[q].pc \in Chosen
        <3> DEFINE x == IF q = p THEN r ELSE proc[q]
        <3>1. /\ x \in State /\ x.since = proc[q].since /\ x.ids = proc[q].ids
              /\ x.bare = proc[q].bare /\ (x.pc \in Chosen => proc[q].pc \in Chosen)
            BY <1>0, <1>15
        <3>2. [proc EXCEPT ![p] = r][q] = x
            BY DEF IInv, TypeOK
        <3> HIDE DEF x
        <3>3. proc'[q] = [x EXCEPT !.entry = Stale(x.entry)]
            BY <1>15, <3>2 DEF Outdated
        <3>4. Stale(x.entry) \in Listing /\ ~Stale(x.entry).current
            BY <3>1, Copies DEF IInv, State
        <3>5. /\ proc'[q] \in State /\ proc'[q].entry = Stale(x.entry) /\ proc'[q].pc = x.pc
              /\ proc'[q].since = x.since /\ proc'[q].ids = x.ids /\ proc'[q].bare = x.bare
            BY <3>1, <3>3, <3>4 DEF State
        <3> QED BY <3>1, <3>4, <3>5
    <2>2. proc' \in [Process -> State]
        BY <1>15, <2>1 DEF Outdated
    <2>3. Expired' = Expired
        BY <1>15 DEF Expired, InLife
    <2>4. TypeOK'
        BY <1>15, <2>1, <2>2 DEF IInv, TypeOK
    <2>5. SinceExpired' /\ ChosenUnexpired'
        BY <2>1, <2>3 DEF IInv, SinceExpired, ChosenUnexpired
    <2> QED BY <2>4, <2>5 DEF IInv
<1>16. ASSUME NEW p \in Process, InsertProjection(p) PROVE IInv'
    <2> DEFINE r == [proc[p] EXCEPT !.pc = "clear", !.entry = None]
    <2>1. /\ r \in State /\ r.since = proc[p].since /\ r.ids = proc[p].ids
          /\ r.bare = proc[p].bare
        BY <1>0, Placeholders DEF State
    <2>2. CASE ReplaceLatest(proc[p].ids) /\ proc' = Outdated([proc EXCEPT ![p] = r])
        <3>1. proc[p].pc = "insert" /\ UNCHANGED <<life, faults>>
            BY <1>16 DEF InsertProjection
        <3>2. /\ latest' \subseteq Article /\ ranking' \in Listing /\ ~ranking'.current
            BY <1>0, <2>2, Copies DEF ReplaceLatest, IInv, State
        <3> HIDE DEF r
        <3> QED BY <1>15, <2>1, <2>2, <3>1, <3>2 DEF Chosen
    <2>3. CASE Goto(p, r) /\ UNCHANGED <<latest, ranking>>
        BY <1>0, <1>3, <1>16, <2>3 DEF InsertProjection, Chosen
    <2>4. proc' = Outdated([proc EXCEPT ![p] = [@ EXCEPT !.pc = "clear", !.entry = None]])
             => proc' = Outdated([proc EXCEPT ![p] = r])
        BY DEF IInv, TypeOK
    <2> QED BY <1>16, <2>2, <2>3, <2>4 DEF InsertProjection
<1>17. ASSUME NEW p \in Process, ClearRanking(p) PROVE IInv'
    BY <1>0, <1>3, <1>17 DEF ClearRanking, GotoPc, Chosen
\* A refresher's steps.
<1>18. ASSUME NEW p \in Process, NEW pc \in {"idle", "select", "expire"},
              Goto(p, [Idle EXCEPT !.pc = pc]) \/ (pc = "idle" /\ Goto(p, Idle)),
              UNCHANGED <<life, latest>>,
              ranking' = ranking \/ ranking' = None, faults' \in 0..MaxFaults
       PROVE  IInv'
    <2> DEFINE r == [Idle EXCEPT !.pc = pc]
    <2>1. r \in State /\ r.pc = pc /\ r.since = {} /\ r.entry = None
        BY Placeholders DEF State
    <2>2. Goto(p, r) \/ Goto(p, Idle)
        BY <1>18
    <2> HIDE DEF r
    <2>3. Fits(r) /\ Fits(Idle)
        BY <2>1, Placeholders DEF Fits, Chosen
    <2> QED BY <1>18, <2>2, <2>3, GoesQuietly
<1>19. ASSUME NEW p \in Process, BeginRefresh(p) \/ EndRefresh(p) PROVE IInv'
    <2>1. CASE BeginRefresh(p)
        BY <1>0, <1>18, <2>1 DEF BeginRefresh
    <2>2. CASE EndRefresh(p)
        BY <1>0, <1>18, <2>2 DEF EndRefresh
    <2> QED BY <1>19, <2>1, <2>2
<1>20. ASSUME NEW p \in Process, PurgeCache(p) PROVE IInv'
    <2> DEFINE r == [proc[p] EXCEPT !.pc = "select"]
    <2>1. /\ r \in State /\ r.since = proc[p].since /\ r.ids = proc[p].ids
          /\ r.bare = proc[p].bare /\ r.pc = "select"
        BY <1>0 DEF State
    <2>2. proc' = Outdated([proc EXCEPT ![p] = r])
        BY <1>20 DEF PurgeCache, IInv, TypeOK
    <2>3. latest' \subseteq Article /\ ranking' \in Listing /\ ~ranking'.current
          /\ UNCHANGED <<life, faults>>
        BY <1>0, <1>20, Copies, Placeholders DEF PurgeCache, ReplaceLatest, IInv
    <2> HIDE DEF r
    <2> QED BY <1>15, <2>1, <2>2, <2>3 DEF Chosen
\* Faults.
<1>21. ASSUME NEW p \in Process, StepFails(p) \/ BuildFails(p) PROVE IInv'
    <2>1. faults' \in 0..MaxFaults /\ UNCHANGED <<life, latest, ranking>>
        BY <1>0, <1>21 DEF StepFails, BuildFails
    <2>2. PICK pc \in {"projection", "served", "expire", "meta", "select"} :
             /\ pc \in Chosen => proc[p].pc \in Chosen
             /\ Goto(p, [proc[p] EXCEPT !.pc = pc, !.entry = None])
        <3>1. CASE BuildFails(p)
            BY <3>1 DEF BuildFails, Chosen
        <3>2. CASE StepFails(p)
            <4>1. PICK step \in {<<"ranking", "projection">>, <<"store", "served">>,
                        <<"invalidate", "expire">>, <<"clear", "meta">>, <<"expire", "select">>} :
                     /\ proc[p].pc = step[1]
                     /\ Goto(p, [proc[p] EXCEPT !.pc = step[2], !.entry = None])
                BY <3>2 DEF StepFails
            <4>2. step[2] \in {"projection", "served", "expire", "meta", "select"}
                  /\ (step[2] \in Chosen => step[1] \in Chosen)
                BY DEF Chosen
            <4> QED BY <4>1, <4>2
        <3> QED BY <1>21, <3>1, <3>2
    <2> QED BY <1>3, <2>1, <2>2
<1>22. ASSUME NEW p \in Process, RebuildFails(p) PROVE IInv'
    <2>1. PICK s \in Selections :
             Goto(p, [proc[p] EXCEPT !.pc = "served", !.ids = s, !.bare = (Fresh = {})])
        BY <1>22 DEF RebuildFails
    <2>2. [proc[p] EXCEPT !.pc = "served", !.ids = s, !.bare = (Fresh = {})]
             = [proc[p] EXCEPT !.ids = s, !.bare = (Fresh = {}), !.pc = "served"]
        BY <1>0 DEF State
    <2>3. faults' \in 0..MaxFaults /\ UNCHANGED <<life, latest, ranking>>
        BY <1>0, <1>22 DEF RebuildFails
    <2> QED BY <1>12, <2>1, <2>2, <2>3
<1>23. ASSUME NEW p \in Process, Die(p) PROVE IInv'
    <2>1. faults' \in 0..MaxFaults /\ UNCHANGED <<life, latest, ranking>> /\ Goto(p, Idle)
        BY <1>0, <1>23 DEF Die
    <2> QED BY <1>18, <2>1
\* Time.
<1>24. ASSUME UNCHANGED <<latest, proc, faults>>, ranking' = ranking \/ ranking' = None,
              life' \in [Article -> {"unpublished", "fresh", "aged", "due", "expired"}],
              \A a \in Article : life[a] \in {"due", "expired"} => life'[a] \in {"due", "expired"}
       PROVE  IInv'
    <2>1. TypeOK'
        BY <1>24, Placeholders DEF IInv, TypeOK
    <2>2. Expired \subseteq Expired'
        BY <1>24 DEF Expired, InLife
    <2>3. SinceExpired' /\ ChosenUnexpired'
        BY <1>24, <2>2 DEF IInv, SinceExpired, ChosenUnexpired
    <2> QED BY <2>1, <2>3 DEF IInv
<1>25. ASSUME NEW a \in Article, Publish(a) \/ DayPasses(a) \/ ExpiryPasses(a) PROVE IInv'
    <2>1. /\ life[a] \notin {"due", "expired"} /\ UNCHANGED <<latest, ranking, proc, faults>>
          /\ \E l \in {"fresh", "aged", "due"} : life' = [life EXCEPT ![a] = l]
        BY <1>25 DEF Publish, DayPasses, ExpiryPasses
    <2> QED BY <1>24, <2>1 DEF IInv, TypeOK
<1>26. CASE RankingExpires \/ UNCHANGED vars
    BY <1>24, <1>26 DEF RankingExpires, vars, IInv, TypeOK
<1>27. ASSUME NEW p \in Process, Rebuild(p) PROVE IInv'
    BY <1>10, <1>11, <1>13, <1>14, <1>16, <1>17, <1>27 DEF Rebuild
<1>28. CASE \E p \in Reader : ReaderStep(p)
    BY <1>0, <1>1, <1>2, <1>4, <1>5, <1>6, <1>7, <1>8, <1>9, <1>27, <1>28 DEF ReaderStep
<1>29. CASE \E p \in Refresher : BeginRefresh(p) \/ PurgeCache(p) \/ RefresherStep(p)
    BY <1>0, <1>19, <1>20, <1>27, <1>29 DEF RefresherStep
<1>30. CASE \E p \in Process : StepFails(p) \/ BuildFails(p) \/ RebuildFails(p) \/ Die(p)
    BY <1>21, <1>22, <1>23, <1>30
<1> QED BY <1>25, <1>26, <1>28, <1>29, <1>30 DEF Next

-----------------------------------------------------------------------------
(* The theorems.                                                           *)

LEMMA Inductive == Spec => []IInv
<1>1. Init => IInv
    <2> SUFFICES ASSUME Init PROVE IInv
        OBVIOUS
    <2>1. \A p \in Process : proc[p] = Idle
        BY DEF Init
    <2>2. TypeOK
        BY BoundAssumption, Placeholders DEF Init, TypeOK
    <2>3. SinceExpired /\ ChosenUnexpired
        BY <2>1, Placeholders DEF SinceExpired, ChosenUnexpired, Chosen
    <2> QED BY <2>2, <2>3 DEF IInv
<1> QED BY <1>1, Inductiveness, PTL DEF Spec

\* Every variable has its type, and no copy or cached ranking passes for the
\* latest projection's when there is none.
THEOREM TypeCorrect == Spec => []TypeOK
<1>1. IInv => TypeOK
    BY DEF IInv
<1> QED BY <1>1, Inductive, PTL

\* Whatever others cache, expire, purge or rebuild meanwhile, and whatever
\* fails, no request ranks an article that has been expired since it began,
\* unless no article of the last 24 hours was found (list_articles,
\* build_homepage_projection, run_homepage_expiration).
THEOREM ExpiredNotRanked == Spec => []NoExpiredRanked
<1>1. IInv => NoExpiredRanked
    BY DEF IInv, ChosenUnexpired, NoExpiredRanked, Chosen, Process
<1> QED BY <1>1, Inductive, PTL

=============================================================================
