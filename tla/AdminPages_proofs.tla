-------------------------- MODULE AdminPages_proofs --------------------------
(***************************************************************************)
(* Proofs about the pages of an administrator, users, system, announcements *)
(* and their revisions, for every set of calls, people and answers, and    *)
(* every number of steps.                                                  *)
(***************************************************************************)
EXTENDS AdminUsers, AdminSystem, AnnouncementDesk, AnnouncementRevisions, HttpCalls_proofs

-----------------------------------------------------------------------------
(* Revisions of an announcement *)

\* The page is not behind the last, or the announcement is gone.
HasRevisions(page) == (page - 1) * PerPage < revisionCount \/ revisionCount = 0

\* A total that was counted: versions are only added, and all of them deleted.
IsTotal(total) == total \in Nat /\ (total <= revisionCount \/ revisionCount = 0)

ShownRevisions == [page : Nat, total : Nat, items : SUBSET Nat]

IsShown(body) ==
    body \in ShownRevisions /\ IsTotal(body.total) /\ (body.items # {} \/ revisionCount = 0)

RevisionCallOK(call) ==
    /\ call.op \in {"idle", "revisions"} /\ IsCall(call, {"page", "total", "heard"})
    /\ call.op = "revisions" =>
          /\ call.page \in Nat \ {0} /\ HasRevisions(call.page)
          /\ call.total # None => IsTotal(call.total)
          /\ Succeeds(call) => IsShown(call.answer.body) /\ call.answer.body.page = call.page

IsHeard(call) == call.op = "revisions" /\ call.heard

RevisionsInv ==
    /\ DOMAIN revisionCalls = Slots /\ \A s \in Slots : RevisionCallOK(revisionCalls[s])
    /\ revisionCount \in Nat /\ revisionError \in BOOLEAN
    /\ revisionPage # None => revisionPage \in Nat \ {0} /\ HasRevisions(revisionPage)
    /\ revisionData # None => revisionPage # None /\ IsShown(revisionData)
    /\ revisionError => revisionPage # None
    /\ \A s, t \in Slots : IsHeard(revisionCalls[s]) /\ IsHeard(revisionCalls[t]) => s = t
    /\ \A s \in Slots : IsHeard(revisionCalls[s]) => revisionPage # None /\ revisionCalls[s].page = revisionPage
    /\ revisionPage # None /\ ~revisionError /\ (\A s \in Slots : ~IsHeard(revisionCalls[s])) =>
          revisionData # None /\ revisionData.page = revisionPage

\* The pages before a page begin before it.
LEMMA PageProducts ==
    ASSUME NEW p \in Nat \ {0}
    PROVE  /\ (p - 1) * PerPage \in Nat /\ (p - 1) * PerPage < p * PerPage
           /\ p - 1 # 0 => (p - 2) * PerPage <= (p - 1) * PerPage
BY RevisionAssumption

\* No answer is heard of the requests that are aborted.
LEMMA AbortedRevisions ==
    ASSUME NEW calls, DOMAIN calls = Slots, \A s \in Slots : RevisionCallOK(calls[s])
    PROVE  /\ DOMAIN AbortsOlder(calls) = Slots
           /\ \A s \in Slots : RevisionCallOK(AbortsOlder(calls)[s]) /\ ~IsHeard(AbortsOlder(calls)[s])
<1>1. ASSUME NEW s \in Slots
      PROVE  RevisionCallOK(AbortsOlder(calls)[s]) /\ ~IsHeard(AbortsOlder(calls)[s])
    <2>1. RevisionCallOK(calls[s])
        OBVIOUS
    <2>2. CASE calls[s].op = "idle"
        BY <2>1, <2>2 DEF AbortsOlder, IsHeard
    <2>3. CASE calls[s].op # "idle"
        BY <2>1, <2>3 DEF AbortsOlder, IsHeard, RevisionCallOK, IsCall, Succeeds
    <2> QED BY <2>2, <2>3
<1> QED BY <1>1 DEF AbortsOlder

\* A load that is started is the only one that is heard.
LEMMA ReadKeeps ==
    ASSUME RevisionsInv, NEW page \in Nat \ {0}, HasRevisions(page), ReadRevisions(page)
    PROVE  /\ DOMAIN revisionCalls' = Slots /\ \A s \in Slots : RevisionCallOK(revisionCalls'[s])
           /\ \E n \in Slots : /\ IsHeard(revisionCalls'[n]) /\ revisionCalls'[n].page = page
                               /\ \A t \in Slots \ {n} : ~IsHeard(revisionCalls'[t])
           /\ revisionPage' = page /\ UNCHANGED revisionCount
<1>1. PICK older : older = AbortsOlder(revisionCalls)
    OBVIOUS
<1>2. /\ DOMAIN older = Slots
      /\ \A s \in Slots : RevisionCallOK(older[s]) /\ ~IsHeard(older[s])
    BY <1>1, AbortedRevisions DEF RevisionsInv
<1>3. PICK call : call = [op |-> "revisions", page |-> page, total |-> None, heard |-> TRUE, answer |-> Unanswered]
    OBVIOUS
<1>4. Free(older) # {} /\ revisionCalls' = Begin(older, call) /\ revisionPage' = page /\ UNCHANGED revisionCount
    BY <1>1, <1>3 DEF ReadRevisions
<1>5. RevisionCallOK(call) /\ IsHeard(call) /\ call.page = page
    BY <1>3 DEF RevisionCallOK, IsCall, IsHeard, Succeeds, Unanswered
<1>6. /\ DOMAIN revisionCalls' = Slots
      /\ NextSlot(older) \in Slots
      /\ \A t \in Slots : revisionCalls'[t] = IF t = NextSlot(older) THEN call ELSE older[t]
    BY <1>2, <1>4, BegunCalls
<1> QED BY <1>2, <1>4, <1>5, <1>6
\* Nothing but the calls, the page and the data changes here.
LEMMA ReadKeepsInv ==
    ASSUME RevisionsInv, NEW page \in Nat \ {0}, HasRevisions(page), ReadRevisions(page),
           \/ UNCHANGED <<revisionData, revisionError>>
           \/ revisionData' = None /\ revisionError' = FALSE
    PROVE  RevisionsInv'
<1>1. PICK n \in Slots : /\ IsHeard(revisionCalls'[n]) /\ revisionCalls'[n].page = page
                         /\ \A t \in Slots \ {n} : ~IsHeard(revisionCalls'[t])
    BY ReadKeeps
<1>2. /\ DOMAIN revisionCalls' = Slots /\ \A s \in Slots : RevisionCallOK(revisionCalls'[s])
      /\ revisionPage' = page /\ UNCHANGED revisionCount
    BY ReadKeeps
<1>3. \A s \in Slots : RevisionCallOK(revisionCalls[s])'
    BY <1>2 DEF RevisionCallOK, HasRevisions, IsTotal, IsShown
<1>4. (revisionData # None => revisionPage # None /\ IsShown(revisionData))'
    BY <1>2, RevisionAssumption DEF RevisionsInv, IsShown, IsTotal
<1>5. HasRevisions(page)' /\ revisionError' \in BOOLEAN /\ page # None
    BY <1>2, RevisionAssumption DEF HasRevisions, RevisionsInv
<1>6. \A s \in Slots : IsHeard(revisionCalls[s])' <=> IsHeard(revisionCalls'[s])
    BY DEF IsHeard
<1> HIDE DEF IsHeard
<1> QED BY <1>1, <1>2, <1>3, <1>4, <1>5, <1>6 DEF RevisionsInv

\* The sheet is closed.
LEMMA RevisionsStart == RevisionsInit => RevisionsInv
<1> SUFFICES ASSUME RevisionsInit PROVE RevisionsInv
    OBVIOUS
<1>1. \A s \in Slots : RevisionCallOK(revisionCalls[s]) /\ ~IsHeard(revisionCalls[s])
    BY DEF RevisionsInit, NoCalls, NoCall, RevisionCallOK, IsCall, IsHeard
<1>2. DOMAIN revisionCalls = Slots
    BY DEF RevisionsInit, NoCalls
<1>3. revisionCount \in Nat
    BY RevisionAssumption DEF RevisionsInit
<1> QED BY <1>1, <1>2, <1>3 DEF RevisionsInit, RevisionsInv

\* The step of the revisions, action by action.
LEMMA RevisionsKept == RevisionsInv /\ [RevisionsNext]_revisionVars => RevisionsInv'
<1> SUFFICES ASSUME RevisionsInv, [RevisionsNext]_revisionVars PROVE RevisionsInv'
    OBVIOUS
<1>0. PerPage \in Nat \ {0} /\ None \notin Nat /\ None \notin ShownRevisions
    BY RevisionAssumption DEF ShownRevisions
<1>1. CASE UNCHANGED revisionVars
    BY <1>1 DEF revisionVars, RevisionsInv, RevisionCallOK, HasRevisions, IsTotal, IsShown, IsHeard
<1>2. CASE MountRevisions
    <2>1. (1 - 1) * PerPage = 0
        BY <1>0
    <2>2. HasRevisions(1)
        BY <2>1 DEF RevisionsInv, HasRevisions
    <2>3. \E page \in Nat \ {0} : HasRevisions(page) /\ ReadRevisions(page)
        BY <1>2, <2>2 DEF MountRevisions
    <2> QED BY <1>2, <2>3, ReadKeepsInv DEF MountRevisions
<1>3. CASE FoldRevisions
    <2>1. /\ DOMAIN revisionCalls' = Slots
          /\ \A s \in Slots : RevisionCallOK(revisionCalls'[s]) /\ ~IsHeard(revisionCalls'[s])
        BY <1>3, AbortedRevisions DEF RevisionsInv, FoldRevisions
    <2>2. UNCHANGED revisionCount /\ revisionPage' = None /\ revisionData' = None /\ revisionError' = FALSE
        BY <1>3 DEF FoldRevisions
    <2>3. \A s \in Slots : RevisionCallOK(revisionCalls[s])'
        BY <2>1, <2>2 DEF RevisionCallOK, HasRevisions, IsTotal, IsShown
    <2> QED BY <2>1, <2>2, <2>3 DEF RevisionsInv, IsHeard
<1>4. CASE NewerRevisions
    <2> DEFINE page == revisionPage - 1
    <2>1. page \in Nat \ {0} /\ HasRevisions(page)
        BY <1>0, <1>4, PageProducts DEF RevisionsInv, HasRevisions, NewerRevisions, OffersNewer
    <2>2. ReadRevisions(page) /\ UNCHANGED <<revisionData, revisionError>>
        BY <1>4 DEF NewerRevisions
    <2> HIDE DEF page
    <2> QED BY <2>1, <2>2, ReadKeepsInv
<1>5. CASE OlderRevisions
    <2>0. revisionPage \in Nat \ {0} /\ revisionPage * PerPage < revisionData.total /\ IsTotal(revisionData.total)
        BY <1>0, <1>5 DEF OlderRevisions, OffersOlder, RevisionsInv, IsShown
    <2> DEFINE page == revisionPage + 1
    <2>1. page \in Nat \ {0} /\ HasRevisions(page)
        <3>1. page \in Nat \ {0} /\ page - 1 = revisionPage
            BY <2>0
        <3>2. revisionPage * PerPage \in Nat
            BY <1>0, <2>0
        <3> QED BY <2>0, <3>1, <3>2 DEF RevisionsInv, HasRevisions, IsTotal
    <2>2. ReadRevisions(page) /\ UNCHANGED <<revisionData, revisionError>>
        BY <1>5 DEF OlderRevisions
    <2> HIDE DEF page
    <2> QED BY <2>1, <2>2, ReadKeepsInv
<1>6. CASE RetryRevisions
    <2>1. revisionPage # None
        BY <1>6 DEF RetryRevisions, RevisionsInv
    <2> QED BY <1>6, <2>1, ReadKeepsInv DEF RetryRevisions, RevisionsInv
<1>7. CASE SaveRevision \/ DeleteDraft
    <2>1. /\ revisionCount' \in Nat /\ (revisionCount' = 0 \/ revisionCount' = revisionCount + 1) /\ revisionCount # 0
          /\ UNCHANGED <<revisionPage, revisionData, revisionError, revisionCalls>>
        BY <1>7 DEF SaveRevision, DeleteDraft, RevisionsInv
    <2>2. \A page \in Nat \ {0} : HasRevisions(page) => HasRevisions(page)'
        BY <2>1, <1>0, PageProducts DEF HasRevisions, RevisionsInv
    <2>3. \A total : IsTotal(total) => IsTotal(total)'
        BY <2>1 DEF IsTotal, RevisionsInv
    <2>4. \A body : IsShown(body) => IsShown(body)'
        BY <2>1, <2>3 DEF IsShown
    <2>5. \A s \in Slots : RevisionCallOK(revisionCalls[s])'
        BY <2>1, <2>2, <2>3, <2>4 DEF RevisionCallOK, RevisionsInv
    <2> QED BY <2>1, <2>2, <2>3, <2>4, <2>5 DEF RevisionsInv, IsHeard
<1>8. ASSUME NEW s \in Slots, CountRevisions(s) \/ QueryRevisions(s) \/ LoseRevisions(s)
      PROVE  RevisionsInv'
    <2>1. PICK call : call = revisionCalls[s]
        OBVIOUS
    <2>2. RevisionCallOK(call) /\ call.op = "revisions"
        BY <1>8, <2>1 DEF RevisionsInv, CountRevisions, QueryRevisions, LoseRevisions, ReadsRevisions
    <2>3. PICK next : /\ revisionCalls' = [revisionCalls EXCEPT ![s] = next]
                      /\ UNCHANGED <<revisionCount, revisionPage, revisionData, revisionError>>
                      /\ \/ next = [call EXCEPT !.total = revisionCount]
                         \/ next = [call EXCEPT !.answer = Lost]
                         \/ /\ next = [call EXCEPT !.answer = Ok([page |-> call.page, total |-> call.total,
                                                                  items |-> RevisionsOn(call.page)])]
                            /\ call.total # None
        BY <1>8, <2>1 DEF CountRevisions, QueryRevisions, LoseRevisions, TellRevisions
    <2>4. call.total # None => IsShown([page |-> call.page, total |-> call.total, items |-> RevisionsOn(call.page)])
        <3> SUFFICES ASSUME call.total # None
                     PROVE  IsShown([page |-> call.page, total |-> call.total, items |-> RevisionsOn(call.page)])
            OBVIOUS
        <3>1. RevisionsOn(call.page) \subseteq Nat
            BY DEF RevisionsOn, RevisionsInv
        <3>2. RevisionsOn(call.page) # {} \/ revisionCount = 0
            <4>1. (call.page - 1) * PerPage \in Nat /\ (call.page - 1) * PerPage < call.page * PerPage
                BY <2>2, PageProducts DEF RevisionCallOK
            <4>2. ASSUME (call.page - 1) * PerPage < revisionCount
                  PROVE  revisionCount - (call.page - 1) * PerPage \in RevisionsOn(call.page)
                BY <4>1, <4>2, <1>0, <2>2 DEF RevisionsOn, RevisionsInv, RevisionCallOK
            <4> QED BY <4>2, <2>2 DEF RevisionCallOK, HasRevisions
        <3> QED BY <2>2, <3>1, <3>2 DEF IsShown, ShownRevisions, RevisionCallOK, IsTotal
    <2>5. /\ RevisionCallOK(next) /\ next.page = call.page /\ (IsHeard(next) <=> IsHeard(call))
        <3>1. CASE next = [call EXCEPT !.total = revisionCount]
            BY <2>2, <3>1 DEF RevisionCallOK, IsCall, IsHeard, IsTotal, Succeeds, RevisionsInv
        <3>2. CASE next = [call EXCEPT !.answer = Lost]
            BY <2>2, <3>2 DEF RevisionCallOK, IsCall, IsHeard, Succeeds, Lost
        <3>3. CASE /\ next = [call EXCEPT !.answer = Ok([page |-> call.page, total |-> call.total,
                                                         items |-> RevisionsOn(call.page)])]
                   /\ call.total # None
            BY <2>2, <2>4, <3>3 DEF RevisionCallOK, IsCall, IsHeard, Succeeds, Ok
        <3> QED BY <2>3, <3>1, <3>2, <3>3
    <2>6. /\ DOMAIN revisionCalls' = Slots
          /\ \A t \in Slots : revisionCalls'[t] = IF t = s THEN next ELSE revisionCalls[t]
        BY <2>3 DEF RevisionsInv
    <2>7. \A t \in Slots : RevisionCallOK(revisionCalls'[t])
        BY <2>5, <2>6 DEF RevisionsInv
    <2>8. \A t \in Slots : (IsHeard(revisionCalls'[t]) <=> IsHeard(revisionCalls[t]))
                           /\ (IsHeard(revisionCalls'[t]) => revisionCalls'[t].page = revisionCalls[t].page)
        BY <2>1, <2>5, <2>6 DEF IsHeard
    <2>9. \A t \in Slots : RevisionCallOK(revisionCalls[t])'
        BY <2>3, <2>7 DEF RevisionCallOK, HasRevisions, IsTotal, IsShown
    <2>10. (revisionData # None => revisionPage # None /\ IsShown(revisionData))' /\ (revisionPage # None => revisionPage \in Nat \ {0} /\ HasRevisions(revisionPage))'
        BY <2>3 DEF RevisionsInv, IsShown, IsTotal, HasRevisions
    <2>11. \A t \in Slots : IsHeard(revisionCalls[t])' <=> IsHeard(revisionCalls'[t])
        BY DEF IsHeard
    <2> HIDE DEF IsHeard
    <2> QED BY <2>3, <2>6, <2>8, <2>9, <2>10, <2>11 DEF RevisionsInv
<1>9. ASSUME NEW s \in Slots, LandRevisions(s)
      PROVE  RevisionsInv'
    <2>1. PICK call : call = revisionCalls[s]
        OBVIOUS
    <2>2. RevisionCallOK(call) /\ call.op = "revisions"
        BY <1>9, <2>1 DEF RevisionsInv, LandRevisions
    <2>3. /\ DOMAIN revisionCalls' = Slots
          /\ \A t \in Slots : revisionCalls'[t] = IF t = s THEN NoCall ELSE revisionCalls[t]
        BY <1>9, EndedCalls DEF RevisionsInv, LandRevisions
    <2>4. RevisionCallOK(NoCall) /\ ~IsHeard(NoCall)
        BY DEF RevisionCallOK, IsCall, NoCall, IsHeard
    <2>5. \A t \in Slots : RevisionCallOK(revisionCalls'[t]) /\ (IsHeard(revisionCalls'[t]) <=> t # s /\ IsHeard(revisionCalls[t]))
        BY <2>3, <2>4 DEF RevisionsInv
    <2>6. UNCHANGED <<revisionCount, revisionPage>>
        BY <1>9 DEF LandRevisions
    <2>7. \A t \in Slots : RevisionCallOK(revisionCalls[t])'
        BY <2>5, <2>6 DEF RevisionCallOK, HasRevisions, IsTotal, IsShown
    <2>8. \A t \in Slots : IsHeard(revisionCalls[t])' <=> IsHeard(revisionCalls'[t])
        BY DEF IsHeard
    <2>9. (revisionPage # None => revisionPage \in Nat \ {0} /\ HasRevisions(revisionPage))'
        BY <2>6 DEF RevisionsInv, HasRevisions
    <2>10. CASE IsHeard(call) /\ Succeeds(call)
        <3>1. revisionError' = FALSE /\ revisionData' = call.answer.body
            BY <1>9, <2>1, <2>10 DEF LandRevisions, IsHeard
        <3>2. IsShown(revisionData') /\ revisionData' # None /\ revisionData'.page = revisionPage
            BY <1>0, <2>1, <2>2, <2>10, <3>1 DEF RevisionCallOK, IsShown, RevisionsInv
        <3>3. IsShown(revisionData)'
            BY <2>6, <3>2 DEF IsShown, IsTotal
        <3> QED BY <2>1, <2>3, <2>5, <2>6, <2>7, <2>8, <2>9, <2>10, <3>1, <3>2, <3>3 DEF RevisionsInv
    <2>11. CASE IsHeard(call) /\ ~Succeeds(call)
        <3>1. revisionError' = TRUE /\ revisionData' = revisionData
            BY <1>9, <2>1, <2>11 DEF LandRevisions, IsHeard
        <3>2. (revisionData # None => revisionPage # None /\ IsShown(revisionData))'
            BY <2>6, <3>1 DEF IsShown, IsTotal, RevisionsInv
        <3> QED BY <2>1, <2>3, <2>5, <2>6, <2>7, <2>8, <2>9, <2>11, <3>1, <3>2 DEF RevisionsInv
    <2>12. CASE ~IsHeard(call)
        <3>1. UNCHANGED <<revisionError, revisionData>>
            BY <1>9, <2>1, <2>2, <2>12 DEF LandRevisions, IsHeard
        <3>2. (revisionData # None => revisionPage # None /\ IsShown(revisionData))'
            BY <2>6, <3>1 DEF IsShown, IsTotal, RevisionsInv
        <3> QED BY <2>1, <2>3, <2>5, <2>6, <2>7, <2>8, <2>9, <2>12, <3>1, <3>2 DEF RevisionsInv
    <2> QED BY <2>10, <2>11, <2>12
<1> QED BY <1>1, <1>2, <1>3, <1>4, <1>5, <1>6, <1>7, <1>8, <1>9 DEF RevisionsNext

\* What the run checks.
LEMMA RevisionsInvImplies == RevisionsInv => RevisionsAreOfPage
<1> SUFFICES ASSUME RevisionsInv PROVE RevisionsAreOfPage
    OBVIOUS
<1>1. HeardRevisions = {s \in Slots : IsHeard(revisionCalls[s])}
    BY DEF HeardRevisions, Waiting, IsHeard
<1>2. Cardinality(HeardRevisions) <= 1
    <2>1. \A s, t \in HeardRevisions : s = t
        BY <1>1 DEF RevisionsInv
    <2> QED BY <2>1, AtMostOne
<1> QED BY <1>1, <1>2 DEF RevisionsInv, RevisionsAreOfPage, IsShown

-----------------------------------------------------------------------------
(* Announcements *)

\* A copy of an announcement, however old: the text of a version never changes.
IsCopy(p, row) ==
    /\ row \in Rows /\ posts[p] # None /\ row.version <= posts[p].version
    /\ row.version = posts[p].version => row.text = posts[p].text

DeskCallOK(call) ==
    /\ call.op \in {"idle"} \cup DeskLoads \cup DeskChanges /\ IsCall(call, {"left"})
    /\ call.op = "list" => "filter" \in DOMAIN call
    /\ call.op = "post" =>
          /\ "id" \in DOMAIN call /\ call.id \in Posts
          /\ Succeeds(call) => IsCopy(call.id, call.answer.body)
    /\ call.op \in DeskChanges =>
          /\ {"id", "text", "version", "saw"} \subseteq DOMAIN call
          /\ call.id \in Posts \cup {"new"} /\ call.text \in Texts
          /\ call.id = "new" => call.saw = None
          /\ call.id # "new" => IsCopy(call.id, call.saw) /\ call.version = call.saw.version
          /\ Succeeds(call) => call.answer.body \in Posts

IsLoading(call) == call.op \in DeskLoads /\ ~call.left

IsChange(call) == call.op \in DeskChanges

\* A load that is heard asks for what the address names.
LoadIsOfAddress(call) ==
    /\ at = None => call.op = "list" /\ call.filter = postFilter
    /\ at # None => call.op = "post" /\ call.id = at

\* It brings what is stored.
LoadIsNew(call) ==
    Succeeds(call) => call.answer.body = IF at = None THEN PostsMatching(postFilter) ELSE posts[at]

DeskTypeInv ==
    /\ posts \in [Posts -> Rows \cup {None}]
    /\ at \in Posts \cup {None, "new"} /\ confirm \in DeskChanges \cup {None}
    /\ deskBusy \in BOOLEAN /\ deskError \in BOOLEAN /\ deskSure \in BOOLEAN
    /\ DOMAIN draft = {"of", "text", "version"} /\ draft.text \in Texts
    /\ DOMAIN deskCalls = Slots /\ \A s \in Slots : DeskCallOK(deskCalls[s])

DeskLoadInv ==
    /\ \A s \in Slots : IsLoading(deskCalls[s]) => LoadIsOfAddress(deskCalls[s])
    /\ \A s, t \in Slots : IsLoading(deskCalls[s]) /\ IsLoading(deskCalls[t]) => s = t

DeskChangeInv ==
    /\ deskBusy <=> \E s \in Slots : IsChange(deskCalls[s])
    /\ \A s, t \in Slots : IsChange(deskCalls[s]) /\ IsChange(deskCalls[t]) => s = t

DeskFormInv ==
    /\ selected # None => at \in Posts /\ IsCopy(at, selected) /\ draft.of = at /\ draft.version = selected.version
    /\ at = "new" => draft.of = "new" /\ draft.version = 0

Quiet == \A s \in Slots : ~IsLoading(deskCalls[s])

DeskSureInv ==
    /\ deskSure => \A s \in Slots : IsLoading(deskCalls[s]) => LoadIsNew(deskCalls[s])
    /\ deskSure /\ selected # None => selected = posts[at]
    /\ deskSure /\ at = None /\ Quiet /\ ~deskError => listedPosts = PostsMatching(postFilter)
    /\ at \in Posts /\ Quiet /\ ~deskError => selected # None

DeskInv == DeskTypeInv /\ DeskLoadInv /\ DeskChangeInv /\ DeskFormInv /\ DeskSureInv

-----------------------------------------------------------------------------

\* The names of rows, actions and operations do not meet.
LEMMA DeskNames ==
    /\ "new" \notin Posts /\ None \notin Posts /\ None # "new" /\ None \notin Rows
    /\ DeskLoads \cap DeskChanges = {} /\ "idle" \notin DeskLoads \cup DeskChanges
BY DeskAssumption DEF DeskLoads, DeskChanges

\* Two ways to say that no change is on its way.
LEMMA QuietIsQuiet == DeskQuiet <=> Quiet
BY DEF DeskQuiet, Quiet, Hears, Waiting, IsLoading

\* Orphans stay calls of the desk, and load nothing any more.
LEMMA OrphanedCalls ==
    ASSUME NEW calls, DOMAIN calls = Slots, \A s \in Slots : DeskCallOK(calls[s])
    PROVE  /\ DOMAIN Orphaned(calls) = Slots
           /\ \A s \in Slots : /\ DeskCallOK(Orphaned(calls)[s]) /\ Orphaned(calls)[s].op = calls[s].op
                               /\ ~IsLoading(Orphaned(calls)[s])
<1>1. ASSUME NEW s \in Slots
      PROVE  /\ DeskCallOK(Orphaned(calls)[s]) /\ Orphaned(calls)[s].op = calls[s].op
             /\ ~IsLoading(Orphaned(calls)[s])
    <2>1. PICK call : call = calls[s]
        OBVIOUS
    <2>2. CASE call.op = "idle"
        BY <2>1, <2>2, DeskNames DEF Orphaned, IsLoading
    <2>3. CASE call.op # "idle"
        <3>1. PICK left : left = [call EXCEPT !.left = TRUE]
            OBVIOUS
        <3>2. Orphaned(calls)[s] = left
            BY <2>1, <2>3, <3>1 DEF Orphaned
        <3>3. DOMAIN left = DOMAIN call /\ left.left = TRUE /\ \A f \in DOMAIN call \ {"left"} : left[f] = call[f]
            BY <2>1, <2>3, <3>1 DEF DeskCallOK, IsCall
        <3>4. left.op = call.op /\ left.answer = call.answer
            BY <2>1, <2>3, <3>3 DEF DeskCallOK, IsCall
        <3>5. DeskCallOK(left)
            BY <2>1, <3>3, <3>4 DEF DeskCallOK, IsCall, Succeeds
        <3> QED BY <2>1, <3>2, <3>3, <3>4, <3>5 DEF IsLoading
    <2> QED BY <2>2, <2>3
<1> QED BY <1>1 DEF Orphaned

\* What an address asks for: its list, or its post.
LEMMA AskingCall ==
    ASSUME NEW where \in Posts \cup {None}, NEW state
    PROVE  LET call == Asking(where, state) IN
           /\ DeskCallOK(call) /\ IsLoading(call) /\ ~IsChange(call) /\ ~Succeeds(call)
           /\ where = None => call.op = "list" /\ call.filter = state
           /\ where # None => call.op = "post" /\ call.id = where
BY DEF Asking, DeskCallOK, IsCall, IsLoading, IsChange, Succeeds, Unanswered, DeskLoads, DeskChanges

\* What the effect leaves: one load, of the new address, and the changes.
LEMMA ShowsDesk ==
    ASSUME NEW calls, DOMAIN calls = Slots, \A s \in Slots : DeskCallOK(calls[s]),
           NEW next \in Posts \cup {None, "new"}, NEW state, ShowDesk(next, state, calls),
           UNCHANGED <<posts, listedPosts>>, DeskTypeInv, deskBusy' \in BOOLEAN,
           deskBusy' <=> \E s \in Slots : IsChange(calls[s]),
           \A s, t \in Slots : IsChange(calls[s]) /\ IsChange(calls[t]) => s = t
    PROVE  DeskInv'
<1>1. PICK old : old = Orphaned(calls)
    OBVIOUS
<1>2. /\ DOMAIN old = Slots
      /\ \A s \in Slots : DeskCallOK(old[s]) /\ old[s].op = calls[s].op /\ ~IsLoading(old[s])
    BY <1>1, OrphanedCalls
<1>3. /\ at' = next /\ postFilter' = state
      /\ selected' = None /\ confirm' = None /\ deskError' = FALSE /\ deskSure' = TRUE
    BY DEF ShowDesk
<1>4. /\ DOMAIN draft' = {"of", "text", "version"} /\ draft'.text \in Texts
      /\ next = "new" => draft'.of = "new" /\ draft'.version = 0
    BY DEF ShowDesk, DeskTypeInv, Blank, Texts
<1>5. /\ DOMAIN deskCalls' = Slots /\ \A s \in Slots : DeskCallOK(deskCalls'[s])
      /\ \A s \in Slots : IsChange(deskCalls'[s]) <=> IsChange(calls[s])
      /\ \A s, t \in Slots : IsLoading(deskCalls'[s]) /\ IsLoading(deskCalls'[t]) => s = t
      /\ \A s \in Slots : IsLoading(deskCalls'[s]) =>
             /\ next = None => deskCalls'[s].op = "list" /\ deskCalls'[s].filter = state
             /\ next # None => deskCalls'[s].op = "post" /\ deskCalls'[s].id = next
             /\ ~Succeeds(deskCalls'[s])
      /\ next # "new" => \E s \in Slots : IsLoading(deskCalls'[s])
    <2>1. CASE next = "new"
        <3>1. deskCalls' = old
            BY <1>1, <2>1 DEF ShowDesk
        <3> QED BY <1>2, <2>1, <3>1 DEF IsChange
    <2>2. CASE next # "new"
        <3>1. PICK call : call = Asking(next, state)
            OBVIOUS
        <3>2. /\ DeskCallOK(call) /\ IsLoading(call) /\ ~IsChange(call) /\ ~Succeeds(call)
              /\ next = None => call.op = "list" /\ call.filter = state
              /\ next # None => call.op = "post" /\ call.id = next
            BY <2>2, <3>1, AskingCall
        <3>3. Free(old) # {} /\ deskCalls' = Begin(old, call)
            BY <1>1, <2>2, <3>1 DEF ShowDesk
        <3>4. /\ DOMAIN deskCalls' = Slots /\ NextSlot(old) \in Slots /\ old[NextSlot(old)].op = "idle"
              /\ \A t \in Slots : deskCalls'[t] = IF t = NextSlot(old) THEN call ELSE old[t]
            BY <1>2, <3>3, BegunCalls
        <3>5. \A s \in Slots : IsChange(deskCalls'[s]) <=> IsChange(calls[s])
            BY <1>2, <3>2, <3>4, DeskNames DEF IsChange
        <3> QED BY <1>2, <2>2, <3>2, <3>4, <3>5
    <2> QED BY <2>1, <2>2
<1>6. posts' = posts
    OBVIOUS
<1>7. \A s \in Slots : DeskCallOK(deskCalls[s])'
    BY <1>5, <1>6 DEF DeskCallOK, IsCopy
<1>8. DeskTypeInv'
    BY <1>3, <1>4, <1>5, <1>6, <1>7 DEF DeskTypeInv
<1>9. DeskLoadInv'
    BY <1>3, <1>5, DeskNames DEF DeskLoadInv, LoadIsOfAddress, IsLoading
<1>10. DeskChangeInv'
    BY <1>5 DEF DeskChangeInv, IsChange
<1>11. DeskFormInv'
    BY <1>3, <1>4 DEF DeskFormInv
<1>12. DeskSureInv'
    BY <1>3, <1>5, DeskNames DEF DeskSureInv, LoadIsNew, Quiet, IsLoading, Succeeds
<1> QED BY <1>8, <1>9, <1>10, <1>11, <1>12 DEF DeskInv

-----------------------------------------------------------------------------
\* What the backend does to the announcements: a version that stays keeps its text.
Grows ==
    /\ posts' \in [Posts -> Rows \cup {None}]
    /\ \A p \in Posts : posts[p] # None =>
          /\ posts'[p] \in Rows /\ posts[p].version <= posts'[p].version
          /\ posts[p].version = posts'[p].version => posts'[p].text = posts[p].text

\* A copy of a row stays one while versions only grow.
LEMMA CopiesStay ==
    ASSUME NEW p \in Posts, NEW row, IsCopy(p, row), Grows, DeskTypeInv
    PROVE  IsCopy(p, row)'
<1>1. PICK present : present = posts[p]
    OBVIOUS
<1>2. PICK next : next = posts'[p]
    OBVIOUS
<1>3. present \in Rows /\ next \in Rows /\ present.version <= next.version
    BY <1>1, <1>2 DEF IsCopy, Grows, DeskTypeInv
<1>4. present.version \in Nat /\ next.version \in Nat /\ row.version \in Nat /\ next # None
    BY <1>3, DeskNames DEF IsCopy, Rows
<1>5. row.version <= present.version
    BY <1>1 DEF IsCopy
<1>6. row.version <= next.version
    BY <1>3, <1>4, <1>5
<1>7. ASSUME row.version = next.version PROVE row.text = next.text
    <2>1. row.version = present.version
        BY <1>3, <1>4, <1>5, <1>7
    <2> QED BY <1>1, <1>2, <1>3, <1>7, <2>1 DEF IsCopy, Grows
<1> QED BY <1>2, <1>4, <1>6, <1>7 DEF IsCopy

\* So does what the calls carry.
LEMMA CallsStay ==
    ASSUME NEW call, DeskCallOK(call), Grows, DeskTypeInv
    PROVE  DeskCallOK(call)'
<1>1. \A p \in Posts : \A row : IsCopy(p, row) => IsCopy(p, row)'
    BY CopiesStay
<1>2. PICK op : op = call.op
    OBVIOUS
<1>3. CASE op = "idle"
    BY <1>2, <1>3, DeskNames DEF DeskCallOK, DeskLoads, DeskChanges
<1>4. CASE op = "list"
    BY <1>2, <1>4, DeskNames DEF DeskCallOK, DeskLoads, DeskChanges
<1>5. CASE op = "post"
    <2>1. call.id \in Posts /\ (Succeeds(call) => IsCopy(call.id, call.answer.body))
        BY <1>2, <1>5 DEF DeskCallOK
    <2>2. Succeeds(call) => IsCopy(call.id, call.answer.body)'
        BY <1>1, <2>1
    <2> QED BY <1>2, <1>5, <2>2 DEF DeskCallOK, DeskLoads, DeskChanges, Succeeds
<1>6. CASE op \in DeskChanges
    <2>1. call.id \in Posts \cup {"new"} /\ (call.id # "new" => IsCopy(call.id, call.saw))
        BY <1>2, <1>6 DEF DeskCallOK
    <2>2. call.id # "new" => IsCopy(call.id, call.saw)'
        BY <1>1, <2>1
    <2> QED BY <1>2, <1>6, <2>2 DEF DeskCallOK, DeskLoads, DeskChanges, Succeeds
<1> QED BY <1>2, <1>3, <1>4, <1>5, <1>6 DEF DeskCallOK, DeskLoads

\* Answers arrive and announcements change: the page stays as it is.
LEMMA DeskAnswers ==
    ASSUME DeskInv, Grows, UNCHANGED DeskPages, deskSure' \in BOOLEAN,
           DOMAIN deskCalls' = Slots, \A t \in Slots : DeskCallOK(deskCalls[t])',
           \A t \in Slots : /\ deskCalls'[t].op = deskCalls[t].op
                            /\ IsLoading(deskCalls[t])' <=> IsLoading(deskCalls[t])
                            /\ IsLoading(deskCalls[t]) => /\ LoadIsOfAddress(deskCalls[t])'
                                                             <=> LoadIsOfAddress(deskCalls[t])
                                                          /\ deskSure' => LoadIsNew(deskCalls[t])',
           deskSure' => deskSure /\ posts' = posts
    PROVE  DeskInv'
<1>1. DeskTypeInv'
    BY DEF DeskInv, DeskTypeInv, DeskPages, Grows
<1>2. DeskLoadInv'
    BY DEF DeskInv, DeskLoadInv, DeskPages
<1>3. DeskChangeInv'
    BY DEF DeskInv, DeskChangeInv, DeskPages, IsChange
<1>4. DeskFormInv'
    <2>1. PICK row : row = selected
        OBVIOUS
    <2>2. PICK where : where = at
        OBVIOUS
    <2>3. row # None => where \in Posts /\ IsCopy(where, row)
        BY <2>1, <2>2 DEF DeskInv, DeskFormInv
    <2>4. row # None => IsCopy(where, row)'
        BY <2>3, CopiesStay DEF DeskInv
    <2>5. at' = where /\ selected' = row
        BY <2>1, <2>2 DEF DeskPages
    <2>6. selected' # None => IsCopy(at, selected)'
        BY <2>4, <2>5 DEF IsCopy
    <2> QED BY <2>6 DEF DeskInv, DeskFormInv, DeskPages
<1>5. Quiet' <=> Quiet
    BY DEF Quiet
<1>6. posts' = posts => PostsMatching(postFilter)' = PostsMatching(postFilter)
    BY DEF PostsMatching, Kept, DeskPages
<1>7. DeskSureInv'
    BY <1>5, <1>6 DEF DeskInv, DeskSureInv, DeskPages
<1> QED BY <1>1, <1>2, <1>3, <1>4, <1>7 DEF DeskInv

\* Another administrator changes an announcement, or it ends.
LEMMA ChangedElsewhere ==
    ASSUME DeskInv, Grows, UNCHANGED <<DeskPages, deskCalls>>, deskSure' = FALSE
    PROVE  DeskInv'
<1>1. ASSUME NEW t \in Slots PROVE DeskCallOK(deskCalls[t])'
    <2>1. PICK call : call = deskCalls[t]
        OBVIOUS
    <2>2. DeskCallOK(call)
        BY <2>1 DEF DeskInv, DeskTypeInv
    <2>3. DeskCallOK(call)'
        BY <2>2, CallsStay DEF DeskInv
    <2>4. deskCalls'[t] = call
        BY <2>1
    <2> QED BY <2>3, <2>4
<1>2. \A t \in Slots : LoadIsOfAddress(deskCalls[t])' <=> LoadIsOfAddress(deskCalls[t])
    BY DEF LoadIsOfAddress, DeskPages
<1>3. \A t \in Slots : IsLoading(deskCalls[t])' <=> IsLoading(deskCalls[t])
    BY DEF IsLoading
<1>4. DOMAIN deskCalls' = Slots
    BY DEF DeskInv, DeskTypeInv
<1> QED BY <1>1, <1>2, <1>3, <1>4, DeskAnswers

\* A change makes one new version.
LEMMA ChangedRow ==
    ASSUME NEW row \in Rows, NEW call, call.op \in DeskChanges \ {"copy"}, call.text \in Texts
    PROVE  Changed(row, call) \in Rows /\ Changed(row, call).version = row.version + 1
<1>1. PICK next : next = [row EXCEPT !.version = @ + 1]
    OBVIOUS
<1>2. next \in Rows /\ next.version = row.version + 1 /\ next.reminder \in Nat
    BY <1>1 DEF Rows
<1>3. PICK more : more = next.reminder + (IF row.status = "published" THEN 1 ELSE 0)
    OBVIOUS
<1>4. more \in Nat
    BY <1>2, <1>3
<1>5. CASE call.op = "publish"
    <2>1. Changed(row, call) = [next EXCEPT !.status = "published"]
        BY <1>1, <1>5 DEF Changed
    <2> QED BY <1>2, <2>1 DEF Rows
<1>6. CASE call.op = "withdraw"
    <2>1. Changed(row, call) = [next EXCEPT !.status = "withdrawn"]
        BY <1>1, <1>6 DEF Changed
    <2> QED BY <1>2, <2>1 DEF Rows
<1>7. CASE call.op = "delete"
    <2>1. Changed(row, call) = [next EXCEPT !.status = "deleted"]
        BY <1>1, <1>7 DEF Changed
    <2> QED BY <1>2, <2>1 DEF Rows
<1>8. CASE call.op = "save"
    <2>1. Changed(row, call) = [next EXCEPT !.text = call.text]
        BY <1>1, <1>8 DEF Changed
    <2> QED BY <1>2, <2>1 DEF Rows
<1>9. CASE call.op = "remind"
    <2>1. Changed(row, call) = [next EXCEPT !.text = call.text, !.reminder = more]
        BY <1>1, <1>3, <1>9 DEF Changed
    <2> QED BY <1>2, <1>4, <2>1 DEF Rows
<1> QED BY <1>5, <1>6, <1>7, <1>8, <1>9 DEF DeskChanges

\* A row takes the place of the one before, or of none.
LEMMA StoredRow ==
    ASSUME DeskTypeInv, NEW p \in Posts, NEW row \in Rows, posts' = [posts EXCEPT ![p] = row],
           posts[p] # None => \/ row.version = posts[p].version + 1
                              \/ row.version = posts[p].version /\ row.text = posts[p].text
    PROVE  Grows
<1>1. \A q \in Posts : posts[q] \in Rows \cup {None}
    BY DEF DeskTypeInv
<1>2. \A q \in Posts : posts[q] # None => posts[q] \in Rows /\ posts[q].version \in Nat
    BY <1>1 DEF Rows
<1>3. \A q \in Posts : posts'[q] = IF q = p THEN row ELSE posts[q]
    BY DEF DeskTypeInv
<1>4. posts' \in [Posts -> Rows \cup {None}]
    BY DEF DeskTypeInv
<1>5. ASSUME NEW q \in Posts, posts[q] # None
      PROVE  /\ posts'[q] \in Rows /\ posts[q].version <= posts'[q].version
             /\ posts[q].version = posts'[q].version => posts'[q].text = posts[q].text
    <2>1. CASE q = p
        BY <1>2, <1>3, <1>5, <2>1
    <2>2. CASE q # p
        BY <1>2, <1>3, <1>5, <2>2
    <2> QED BY <2>1, <2>2
<1> QED BY <1>4, <1>5 DEF Grows

-----------------------------------------------------------------------------
\* A request is answered, and what it asked for may be stored.
LEMMA ToldDesk ==
    ASSUME DeskInv, Grows, UNCHANGED DeskPages, NEW s \in Slots, deskCalls[s].op # "idle", NEW answer,
           deskCalls' = [deskCalls EXCEPT ![s].answer = answer],
           deskSure' \in BOOLEAN, deskSure' => deskSure /\ posts' = posts,
           answer.kind = "ok" =>
               /\ deskCalls[s].op = "list" => answer.body = PostsMatching(deskCalls[s].filter)
               /\ deskCalls[s].op = "post" => answer.body = posts[deskCalls[s].id] /\ answer.body # None
                                              /\ posts' = posts
               /\ deskCalls[s].op \in DeskChanges => answer.body \in Posts
    PROVE  DeskInv'
<1>1. PICK call : call = deskCalls[s]
    OBVIOUS
<1>2. PICK next : next = deskCalls'[s]
    OBVIOUS
<1>3. DOMAIN deskCalls = Slots /\ \A t \in Slots : DeskCallOK(deskCalls[t])
    BY DEF DeskInv, DeskTypeInv
<1>4. DeskCallOK(call)
    BY <1>1, <1>3
<1>5. /\ DOMAIN deskCalls' = Slots /\ \A t \in Slots \ {s} : deskCalls'[t] = deskCalls[t]
      /\ DOMAIN next = DOMAIN call /\ \A f \in DOMAIN call \ {"answer"} : next[f] = call[f]
      /\ "answer" \in DOMAIN call => next.answer = answer
    BY <1>1, <1>2, <1>3, ToldCalls
<1>6. "op" \in DOMAIN call /\ "answer" \in DOMAIN call /\ "left" \in DOMAIN call
    BY <1>1, <1>4 DEF DeskCallOK, IsCall
<1>7. next.op = call.op /\ next.left = call.left /\ next.answer = answer
    BY <1>5, <1>6
<1>8. DeskCallOK(call)'
    BY <1>4, CallsStay DEF DeskInv
<1>9. call.op \in DeskLoads \cup DeskChanges
    BY <1>1, <1>4 DEF DeskCallOK
<1>10. DeskCallOK(next)'
    <2>1. CASE call.op = "list"
        BY <1>5, <1>7, <1>8, <2>1, DeskNames DEF DeskCallOK, IsCall, DeskLoads, DeskChanges
    <2>2. CASE call.op = "post"
        <3>1. call.id \in Posts /\ next.id = call.id
            BY <1>4, <1>5, <2>2 DEF DeskCallOK
        <3>2. PICK p \in Posts : p = call.id
            BY <3>1
        <3>3. answer.kind = "ok" => answer.body = posts[p] /\ answer.body # None /\ posts' = posts
            BY <1>1, <2>2, <3>2
        <3>4. answer.kind = "ok" => posts[p] \in Rows /\ posts[p].version \in Nat
            BY <3>3 DEF DeskInv, DeskTypeInv, Rows
        <3>5. answer.kind = "ok" => IsCopy(p, answer.body)'
            BY <3>3, <3>4 DEF IsCopy
        <3>6. Succeeds(next) <=> answer.kind = "ok"
            BY <1>7 DEF Succeeds
        <3> QED BY <1>5, <1>7, <1>8, <2>2, <3>1, <3>2, <3>5, <3>6, DeskNames
                DEF DeskCallOK, IsCall, DeskLoads, DeskChanges
    <2>3. CASE call.op \in DeskChanges
        <3>1. {"id", "text", "version", "saw"} \subseteq DOMAIN call
            BY <1>4, <2>3 DEF DeskCallOK
        <3>2. next.id = call.id /\ next.text = call.text /\ next.version = call.version /\ next.saw = call.saw
            BY <1>5, <3>1
        <3>3. Succeeds(next) => next.answer.body \in Posts
            BY <1>1, <1>7, <2>3 DEF Succeeds
        <3> QED BY <1>5, <1>7, <1>8, <2>3, <3>1, <3>2, <3>3, DeskNames DEF DeskCallOK, IsCall, DeskLoads
    <2> QED BY <1>9, <2>1, <2>2, <2>3 DEF DeskLoads
<1>11. ASSUME NEW t \in Slots PROVE DeskCallOK(deskCalls[t])'
    <2>1. CASE t = s
        BY <1>2, <1>10, <2>1
    <2>2. CASE t # s
        <3>1. PICK other : other = deskCalls[t]
            OBVIOUS
        <3>2. DeskCallOK(other)'
            BY <1>3, <3>1, CallsStay DEF DeskInv
        <3>3. deskCalls'[t] = other
            BY <1>5, <2>2, <3>1
        <3> QED BY <3>2, <3>3
    <2> QED BY <2>1, <2>2
<1>12. IsLoading(deskCalls[s])' <=> IsLoading(deskCalls[s])
    BY <1>1, <1>2, <1>7 DEF IsLoading
<1>13. ASSUME IsLoading(deskCalls[s])
       PROVE  /\ LoadIsOfAddress(deskCalls[s])' <=> LoadIsOfAddress(deskCalls[s])
              /\ deskSure' => LoadIsNew(deskCalls[s])'
    <2>1. LoadIsOfAddress(call)
        BY <1>1, <1>13 DEF DeskInv, DeskLoadInv
    <2>2. call.op \in DeskLoads
        BY <1>1, <1>13 DEF IsLoading
    <2>3. CASE call.op = "list"
        <3>1. at = None /\ call.filter = postFilter /\ "filter" \in DOMAIN call
            BY <1>4, <2>1, <2>3 DEF LoadIsOfAddress, DeskCallOK
        <3>2. next.filter = call.filter
            BY <1>5, <3>1
        <3>3. answer.kind = "ok" => answer.body = PostsMatching(postFilter)
            BY <1>1, <2>3, <3>1
        <3>4. posts' = posts => PostsMatching(postFilter)' = PostsMatching(postFilter)
            BY DEF PostsMatching, Kept, DeskPages
        <3> QED BY <1>1, <1>2, <1>7, <2>1, <2>3, <3>1, <3>2, <3>3, <3>4
                DEF LoadIsOfAddress, LoadIsNew, Succeeds, DeskPages
    <2>4. CASE call.op = "post"
        <3>1. at # None /\ call.id = at /\ "id" \in DOMAIN call
            BY <1>4, <2>1, <2>4 DEF LoadIsOfAddress, DeskCallOK
        <3>2. next.id = call.id
            BY <1>5, <3>1
        <3>3. answer.kind = "ok" => answer.body = posts[at]
            BY <1>1, <2>4, <3>1
        <3> QED BY <1>1, <1>2, <1>7, <2>1, <2>4, <3>1, <3>2, <3>3
                DEF LoadIsOfAddress, LoadIsNew, Succeeds, DeskPages
    <2> QED BY <2>2, <2>3, <2>4 DEF DeskLoads
<1>14. ASSUME NEW t \in Slots
       PROVE  /\ deskCalls'[t].op = deskCalls[t].op
              /\ IsLoading(deskCalls[t])' <=> IsLoading(deskCalls[t])
              /\ IsLoading(deskCalls[t]) => /\ LoadIsOfAddress(deskCalls[t])'
                                               <=> LoadIsOfAddress(deskCalls[t])
                                            /\ deskSure' => LoadIsNew(deskCalls[t])'
    <2>1. CASE t = s
        BY <1>1, <1>2, <1>7, <1>12, <1>13, <2>1
    <2>2. CASE t # s
        <3>1. deskCalls'[t] = deskCalls[t]
            BY <1>5, <2>2
        <3>2. deskSure' => PostsMatching(postFilter)' = PostsMatching(postFilter)
            BY DEF PostsMatching, Kept, DeskPages
        <3> QED BY <3>1, <3>2 DEF IsLoading, LoadIsOfAddress, LoadIsNew, DeskPages, Succeeds, DeskInv, DeskSureInv
    <2> QED BY <2>1, <2>2
<1> QED BY <1>5, <1>11, <1>14, DeskAnswers

\* Rows that stay have not gone back.
LEMMA PostsStay ==
    ASSUME DeskTypeInv, posts' = posts
    PROVE  Grows
<1>1. \A p \in Posts : posts[p] # None => posts[p] \in Rows /\ posts[p].version \in Nat
    BY DEF DeskTypeInv, Rows
<1> QED BY <1>1 DEF Grows, DeskTypeInv

\* The backend serves a call of the desk.
LEMMA DeskServeKeeps ==
    ASSUME DeskInv, NEW s \in Slots, ServeDesk(s)
    PROVE  DeskInv'
<1>1. PICK call : call = deskCalls[s]
    OBVIOUS
<1>2. call.op # "idle" /\ DeskCallOK(call)
    BY <1>1 DEF ServeDesk, Busy, DeskInv, DeskTypeInv
<1>3. PICK answer : answer = deskCalls'[s].answer
    OBVIOUS
<1>4. \A body : Ok(body).kind = "ok" /\ Ok(body).body = body
    BY DEF Ok
<1>5. CASE call.op = "list" /\ TellDesk(s, Ok(PostsMatching(call.filter))) /\ UNCHANGED <<posts, deskSure>>
    <2>1. PICK told : told = Ok(PostsMatching(call.filter))
        OBVIOUS
    <2>2. Grows
        BY <1>5, PostsStay DEF DeskInv
    <2>3. UNCHANGED DeskPages /\ deskCalls' = [deskCalls EXCEPT ![s].answer = told]
        BY <1>5, <2>1 DEF TellDesk
    <2>4. call.op \notin DeskChanges /\ call.op # "post"
        BY <1>5, DeskNames DEF DeskLoads, DeskChanges
    <2>5. deskSure \in BOOLEAN
        BY DEF DeskInv, DeskTypeInv
    <2> QED BY <1>1, <1>2, <1>4, <1>5, <2>1, <2>2, <2>3, <2>4, <2>5, ToldDesk
<1>6. CASE /\ call.op = "post" /\ Kept(call.id)
           /\ TellDesk(s, Ok(posts[call.id])) /\ UNCHANGED <<posts, deskSure>>
    <2>1. PICK told : told = Ok(posts[call.id])
        OBVIOUS
    <2>2. Grows
        BY <1>6, PostsStay DEF DeskInv
    <2>3. UNCHANGED DeskPages /\ deskCalls' = [deskCalls EXCEPT ![s].answer = told]
        BY <1>6, <2>1 DEF TellDesk
    <2>4. call.op \notin DeskChanges /\ call.op # "list"
        BY <1>6, DeskNames DEF DeskLoads, DeskChanges
    <2>5. deskSure \in BOOLEAN
        BY DEF DeskInv, DeskTypeInv
    <2>6. posts[call.id] # None
        BY <1>6 DEF Kept
    <2> QED BY <1>1, <1>2, <1>4, <1>6, <2>1, <2>2, <2>3, <2>4, <2>5, <2>6, ToldDesk
<1>7. ASSUME call.op \in DeskChanges, NEW p \in Posts, NEW row \in Rows, StorePost(s, p, row),
             posts[p] # None => row.version = posts[p].version + 1
      PROVE  DeskInv'
    <2>1. PICK told : told = Ok(p)
        OBVIOUS
    <2>2. Grows
        BY <1>7, StoredRow DEF StorePost, DeskInv
    <2>3. UNCHANGED DeskPages /\ deskCalls' = [deskCalls EXCEPT ![s].answer = told] /\ deskSure' = FALSE
        BY <1>7, <2>1 DEF TellDesk, StorePost
    <2>4. call.op # "post" /\ call.op # "list"
        BY <1>7, DeskNames DEF DeskLoads, DeskChanges
    <2>5. told.body \in Posts
        BY <1>4, <2>1
    <2> QED BY <1>1, <1>2, <2>2, <2>3, <2>4, <2>5, ToldDesk
<1>8. CASE /\ call.op \in DeskChanges /\ (call.op = "copy" \/ call.id = "new")
           /\ \E p \in Posts : posts[p] = None /\ StorePost(s, p, NewPost(call.text))
    <2>1. NewPost(call.text) \in Rows
        BY <1>2, <1>8 DEF NewPost, Rows, DeskCallOK
    <2> QED BY <1>7, <1>8, <2>1
<1>9. CASE /\ call.op \in DeskChanges \ {"copy"} /\ call.id # "new" /\ posts[call.id] # None
           /\ SameVersionOf(posts[call.id], call.version) /\ Allows(posts[call.id], call.op)
           /\ StorePost(s, call.id, Changed(posts[call.id], call))
    <2>1. call.id \in Posts /\ call.text \in Texts
        BY <1>2, <1>9 DEF DeskCallOK
    <2>2. posts[call.id] \in Rows
        BY <1>9, <2>1 DEF DeskInv, DeskTypeInv
    <2>3. Changed(posts[call.id], call) \in Rows
          /\ Changed(posts[call.id], call).version = posts[call.id].version + 1
        BY <1>9, <2>1, <2>2, ChangedRow
    <2> QED BY <1>7, <1>9, <2>1, <2>3
<1> QED BY <1>1, <1>5, <1>6, <1>8, <1>9 DEF ServeDesk

\* A call is refused, or its answer is lost.
LEMMA DeskRefuseKeeps ==
    ASSUME DeskInv, NEW s \in Slots, RefuseDesk(s) \/ LoseDeskAnswer(s)
    PROVE  DeskInv'
<1>1. PICK told \in {Refused("conflict"), Lost} :
          /\ UNCHANGED DeskPages /\ deskCalls' = [deskCalls EXCEPT ![s].answer = told]
          /\ UNCHANGED <<posts, deskSure>>
    BY DEF RefuseDesk, LoseDeskAnswer, TellDesk, LoseAnswer
<1>2. told.kind # "ok"
    BY <1>1 DEF Refused, Lost
<1>3. deskCalls[s].op # "idle"
    BY DEF RefuseDesk, LoseDeskAnswer, Busy
<1>4. Grows
    BY <1>1, PostsStay DEF DeskInv
<1>5. deskSure \in BOOLEAN
    BY DEF DeskInv, DeskTypeInv
<1> QED BY <1>1, <1>2, <1>3, <1>4, <1>5, ToldDesk

\* Another administrator changes a row, or time ends its publication.
LEMMA ElsewhereKeeps ==
    ASSUME DeskInv, NEW p \in Posts, NEW action \in DeskChanges \ {"copy"}, NEW text \in Texts,
           ChangePostElsewhere(p, action, text) \/ PostEnds(p)
    PROVE  DeskInv'
<1>1. posts[p] # None /\ UNCHANGED <<DeskPages, deskCalls>> /\ deskSure' = FALSE
    BY DEF ChangePostElsewhere, PostEnds
<1>2. posts[p] \in Rows
    BY <1>1 DEF DeskInv, DeskTypeInv
<1>3. CASE ChangePostElsewhere(p, action, text)
    <2>1. PICK call : call = [op |-> action, text |-> text]
        OBVIOUS
    <2>2. Changed(posts[p], call) \in Rows /\ Changed(posts[p], call).version = posts[p].version + 1
        BY <1>2, <2>1, ChangedRow
    <2>3. Grows
        BY <1>3, <2>1, <2>2, StoredRow DEF ChangePostElsewhere, DeskInv
    <2> QED BY <1>1, <2>3, ChangedElsewhere
<1>4. CASE PostEnds(p)
    <2>1. PICK row : row = [posts[p] EXCEPT !.status = "ended"]
        OBVIOUS
    <2>2. row \in Rows /\ row.version = posts[p].version /\ row.text = posts[p].text
        BY <1>2, <2>1 DEF Rows
    <2>3. posts' = [posts EXCEPT ![p] = row]
        BY <1>4, <2>1 DEF PostEnds
    <2>4. Grows
        BY <2>2, <2>3, StoredRow DEF DeskInv
    <2> QED BY <1>1, <2>4, ChangedElsewhere
<1> QED BY <1>3, <1>4

-----------------------------------------------------------------------------

\* The administrator goes to another address.
LEMMA BrowseKeeps ==
    ASSUME DeskInv, NEW next \in Posts \cup {None, "new"}, NEW state,
           Browse(next, state) \/ (LeavePost /\ next = None /\ state = postFilter)
    PROVE  DeskInv'
<1>1. ShowDesk(next, state, deskCalls) /\ UNCHANGED <<posts, listedPosts, deskBusy>>
    BY DEF Browse, LeavePost
<1>2. DOMAIN deskCalls = Slots /\ \A s \in Slots : DeskCallOK(deskCalls[s])
    BY DEF DeskInv, DeskTypeInv
<1>3. deskBusy' \in BOOLEAN /\ (deskBusy' <=> \E s \in Slots : IsChange(deskCalls[s]))
    BY <1>1 DEF DeskInv, DeskTypeInv, DeskChangeInv
<1>4. \A s, t \in Slots : IsChange(deskCalls[s]) /\ IsChange(deskCalls[t]) => s = t
    BY DEF DeskInv, DeskChangeInv
<1> QED BY <1>1, <1>2, <1>3, <1>4, ShowsDesk DEF DeskInv

\* What the form and the dialog do leaves the requests alone.
LEMMA DeskFormKeeps ==
    ASSUME DeskInv, NEW text \in Texts, NEW action \in DeskChanges,
           EditPost(text) \/ AskConfirm(action) \/ CloseConfirm
    PROVE  DeskInv'
<1>1. /\ UNCHANGED <<posts, at, postFilter, listedPosts, selected, deskBusy, deskError, deskCalls, deskSure>>
      /\ confirm' \in DeskChanges \cup {None}
    BY DEF EditPost, AskConfirm, CloseConfirm, DeskInv, DeskTypeInv
<1>2. draft' = draft \/ draft' = [draft EXCEPT !.text = text]
    BY DEF EditPost, AskConfirm, CloseConfirm
<1>3. DOMAIN draft' = DOMAIN draft /\ draft'.of = draft.of /\ draft'.version = draft.version /\ draft'.text \in Texts
    BY <1>2 DEF DeskInv, DeskTypeInv
<1>4. Grows
    BY <1>1, PostsStay DEF DeskInv
<1>5. \A t \in Slots : DeskCallOK(deskCalls[t])'
    BY <1>1 DEF DeskInv, DeskTypeInv, DeskCallOK, IsCopy
<1>6. DeskTypeInv'
    BY <1>1, <1>3, <1>5 DEF DeskInv, DeskTypeInv
<1>7. DeskLoadInv'
    BY <1>1 DEF DeskInv, DeskLoadInv, LoadIsOfAddress
<1>8. DeskChangeInv'
    BY <1>1 DEF DeskInv, DeskChangeInv, IsChange
<1>9. DeskFormInv'
    BY <1>1, <1>3 DEF DeskInv, DeskFormInv, IsCopy
<1>10. DeskSureInv'
    BY <1>1 DEF DeskInv, DeskSureInv, LoadIsNew, Quiet, IsLoading, PostsMatching, Kept
<1> QED BY <1>6, <1>7, <1>8, <1>9, <1>10 DEF DeskInv

\* He sends a change of what he sees.
LEMMA MutateKeeps ==
    ASSUME DeskInv, NEW action \in DeskChanges, MutatePost(action)
    PROVE  DeskInv'
<1>1. /\ HasForm /\ ~deskBusy /\ Free(deskCalls) # {}
      /\ deskBusy' = TRUE /\ deskError' = FALSE
      /\ UNCHANGED <<posts, at, postFilter, listedPosts, selected, draft, confirm, deskSure>>
    BY DEF MutatePost, NoChangeWaits
<1>2. PICK call : call = [op |-> action, id |-> at, text |-> draft.text, version |-> draft.version,
                          saw |-> selected, left |-> FALSE, answer |-> Unanswered]
    OBVIOUS
<1>3. deskCalls' = Begin(deskCalls, call)
    BY <1>2 DEF MutatePost
<1>4. DOMAIN deskCalls = Slots /\ \A s \in Slots : DeskCallOK(deskCalls[s])
    BY DEF DeskInv, DeskTypeInv
<1>5. PICK slot : slot = NextSlot(deskCalls)
    OBVIOUS
<1>6. /\ DOMAIN deskCalls' = Slots /\ slot \in Slots /\ deskCalls[slot].op = "idle"
      /\ \A t \in Slots : deskCalls'[t] = IF t = slot THEN call ELSE deskCalls[t]
    BY <1>1, <1>3, <1>4, <1>5, BegunCalls
<1>7. at # None /\ DeskQuiet /\ (at = "new" \/ selected # None)
    BY <1>1 DEF HasForm
<1>8. at \in Posts \cup {"new"}
    BY <1>7 DEF DeskInv, DeskTypeInv
<1>9. DeskCallOK(call)
    <2>1. ~Succeeds(call)
        BY <1>2 DEF Succeeds, Unanswered
    <2>2. call.op = action /\ call.op \notin DeskLoads
        BY <1>2, DeskNames
    <2>3. call.text \in Texts
        BY <1>2 DEF DeskInv, DeskTypeInv
    <2>4. call.id = "new" => call.saw = None
        BY <1>2, DeskNames DEF DeskInv, DeskFormInv
    <2>5. call.id # "new" => IsCopy(call.id, call.saw) /\ call.version = call.saw.version
        BY <1>2, <1>7 DEF DeskInv, DeskFormInv
    <2> QED BY <1>2, <1>8, <2>1, <2>2, <2>3, <2>4, <2>5 DEF DeskCallOK, IsCall, DeskLoads
<1>10. \A t \in Slots : DeskCallOK(deskCalls'[t])
    BY <1>4, <1>6, <1>9
<1>11. \A t \in Slots : DeskCallOK(deskCalls[t])'
    BY <1>1, <1>10 DEF DeskCallOK, IsCopy
<1>12. IsChange(call) /\ ~IsLoading(call)
    BY <1>2, DeskNames DEF IsChange, IsLoading
<1>13. \A t \in Slots : IsLoading(deskCalls'[t]) <=> IsLoading(deskCalls[t])
    BY <1>6, <1>12, DeskNames DEF IsLoading
<1>14. \A t \in Slots : IsLoading(deskCalls'[t]) => deskCalls'[t] = deskCalls[t]
    BY <1>6, <1>12
<1>15. Quiet /\ \A t \in Slots : ~IsLoading(deskCalls'[t])
    BY <1>7, <1>13, QuietIsQuiet DEF Quiet
<1>16. DeskTypeInv'
    BY <1>1, <1>6, <1>11 DEF DeskInv, DeskTypeInv
<1>17. DeskLoadInv'
    BY <1>15 DEF DeskLoadInv, IsLoading
<1>18. DeskChangeInv'
    <2>1. \A t \in Slots : ~IsChange(deskCalls[t])
        BY <1>1 DEF DeskInv, DeskChangeInv
    <2>2. \A t \in Slots : IsChange(deskCalls'[t]) <=> t = slot
        BY <1>6, <1>12, <2>1
    <2>3. \A t \in Slots : IsChange(deskCalls[t])' <=> IsChange(deskCalls'[t])
        BY DEF IsChange
    <2> QED BY <1>1, <1>6, <2>2, <2>3 DEF DeskChangeInv
<1>19. DeskFormInv'
    BY <1>1 DEF DeskInv, DeskFormInv, IsCopy
<1>20. DeskSureInv'
    <2>1. \A t \in Slots : ~IsLoading(deskCalls[t])'
        BY <1>15 DEF IsLoading
    <2>2. at \in Posts => selected # None
        BY <1>7, DeskNames
    <2> QED BY <1>1, <1>7, <1>15, <2>1, <2>2 DEF DeskInv, DeskSureInv
<1> QED BY <1>16, <1>17, <1>18, <1>19, <1>20 DEF DeskInv

\* A handler is through, and the other ones wait on.
LEMMA EndedDesk ==
    ASSUME DeskInv, NEW s \in Slots
    PROVE  LET calls == End(deskCalls, s) IN
           /\ DOMAIN calls = Slots /\ \A t \in Slots : DeskCallOK(calls[t])
           /\ \A t \in Slots : IsChange(calls[t]) <=> t # s /\ IsChange(deskCalls[t])
           /\ \A t \in Slots : IsLoading(calls[t]) <=> t # s /\ IsLoading(deskCalls[t])
           /\ \A t \in Slots : t # s => calls[t] = deskCalls[t]
<1>1. PICK calls : calls = End(deskCalls, s)
    OBVIOUS
<1>2. DOMAIN calls = Slots /\ \A t \in Slots : calls[t] = IF t = s THEN NoCall ELSE deskCalls[t]
    BY <1>1, EndedCalls DEF DeskInv, DeskTypeInv
<1>3. DeskCallOK(NoCall) /\ ~IsChange(NoCall) /\ ~IsLoading(NoCall)
    BY DeskNames DEF DeskCallOK, IsCall, NoCall, IsChange, IsLoading, DeskLoads, DeskChanges
<1>4. \A t \in Slots : DeskCallOK(deskCalls[t])
    BY DEF DeskInv, DeskTypeInv
<1>5. \A t \in Slots : DeskCallOK(calls[t])
    BY <1>2, <1>3, <1>4
<1>6. \A t \in Slots : IsChange(calls[t]) <=> t # s /\ IsChange(deskCalls[t])
    BY <1>2, <1>3
<1>7. \A t \in Slots : IsLoading(calls[t]) <=> t # s /\ IsLoading(deskCalls[t])
    BY <1>2, <1>3
<1> QED BY <1>1, <1>2, <1>5, <1>6, <1>7

\* A list or a post comes.
LEMMA DeskLandKeeps ==
    ASSUME DeskInv, NEW s \in Slots, LandDesk(s)
    PROVE  DeskInv'
<1>1. PICK call : call = deskCalls[s]
    OBVIOUS
<1>2. PICK row : row = call.answer.body
    OBVIOUS
<1>3. /\ call.op \in DeskLoads /\ deskCalls' = End(deskCalls, s)
      /\ UNCHANGED <<posts, at, postFilter, confirm, deskBusy, deskSure>>
    BY <1>1 DEF LandDesk
<1>4. /\ DOMAIN deskCalls' = Slots /\ \A t \in Slots : DeskCallOK(deskCalls'[t])
      /\ \A t \in Slots : IsChange(deskCalls'[t]) <=> t # s /\ IsChange(deskCalls[t])
      /\ \A t \in Slots : IsLoading(deskCalls'[t]) <=> t # s /\ IsLoading(deskCalls[t])
      /\ \A t \in Slots : t # s => deskCalls'[t] = deskCalls[t]
    BY <1>3, EndedDesk
<1>5. DeskCallOK(call)
    BY <1>1 DEF DeskInv, DeskTypeInv
<1>6. ~IsChange(deskCalls[s])
    BY <1>1, <1>3, DeskNames DEF IsChange
<1>7. \A t \in Slots : DeskCallOK(deskCalls[t])'
    BY <1>3, <1>4 DEF DeskCallOK, IsCopy
<1>8. DeskLoadInv'
    BY <1>3, <1>4 DEF DeskInv, DeskLoadInv, LoadIsOfAddress, IsLoading
<1>9. DeskChangeInv'
    BY <1>3, <1>4, <1>6 DEF DeskInv, DeskChangeInv, IsChange
<1>10. PostsMatching(postFilter)' = PostsMatching(postFilter)
    BY <1>3 DEF PostsMatching, Kept
<1>11. \A t \in Slots : IsLoading(deskCalls[t])' => IsLoading(deskCalls[t]) /\ deskCalls'[t] = deskCalls[t]
    BY <1>4 DEF IsLoading
<1>12. deskSure' => \A t \in Slots : IsLoading(deskCalls[t])' => LoadIsNew(deskCalls[t])'
    BY <1>3, <1>10, <1>11 DEF DeskInv, DeskSureInv, LoadIsNew, Succeeds
<1>13. CASE call.left
    <2>1. UNCHANGED <<listedPosts, selected, draft, deskError>>
        BY <1>1, <1>13 DEF LandDesk, StillShown
    <2>2. Quiet' <=> Quiet
        BY <1>1, <1>4, <1>13 DEF Quiet, IsLoading
    <2>3. DeskTypeInv'
        BY <1>3, <1>4, <1>7, <2>1 DEF DeskInv, DeskTypeInv
    <2>4. DeskFormInv'
        BY <1>3, <2>1 DEF DeskInv, DeskFormInv, IsCopy
    <2>5. DeskSureInv'
        BY <1>3, <1>10, <1>12, <2>1, <2>2 DEF DeskInv, DeskSureInv
    <2> QED BY <1>8, <1>9, <2>3, <2>4, <2>5 DEF DeskInv
<1>14. CASE ~call.left
    <2>1. IsLoading(call) /\ LoadIsOfAddress(call) /\ (deskSure => LoadIsNew(call))
        BY <1>1, <1>3, <1>14 DEF IsLoading, DeskInv, DeskLoadInv, DeskSureInv
    <2>2. CASE ~Succeeds(call)
        <3>1. deskError' = TRUE /\ UNCHANGED <<listedPosts, selected, draft>>
            BY <1>1, <1>14, <2>2 DEF LandDesk, StillShown
        <3>2. DeskTypeInv'
            BY <1>3, <1>4, <1>7, <3>1 DEF DeskInv, DeskTypeInv
        <3>3. DeskFormInv'
            BY <1>3, <3>1 DEF DeskInv, DeskFormInv, IsCopy
        <3>4. DeskSureInv'
            BY <1>3, <1>12, <3>1 DEF DeskInv, DeskSureInv
        <3> QED BY <1>8, <1>9, <3>2, <3>3, <3>4 DEF DeskInv
    <2>3. CASE Succeeds(call) /\ call.op = "list"
        <3>1. listedPosts' = row /\ UNCHANGED <<selected, draft, deskError>>
            BY <1>1, <1>2, <1>14, <2>3 DEF LandDesk, StillShown
        <3>2. at = None
            BY <2>1, <2>3 DEF LoadIsOfAddress
        <3>3. DeskTypeInv'
            BY <1>3, <1>4, <1>7, <3>1 DEF DeskInv, DeskTypeInv
        <3>4. DeskFormInv'
            BY <1>3, <3>1 DEF DeskInv, DeskFormInv, IsCopy
        <3>5. deskSure => row = PostsMatching(postFilter)
            BY <1>2, <2>1, <2>3, <3>2 DEF LoadIsNew
        <3>6. DeskSureInv'
            BY <1>3, <1>10, <1>12, <3>1, <3>2, <3>5, DeskNames DEF DeskInv, DeskSureInv
        <3> QED BY <1>8, <1>9, <3>3, <3>4, <3>6 DEF DeskInv
    <2>4. CASE Succeeds(call) /\ call.op = "post"
        <3>1. /\ selected' = row /\ draft' = [of |-> call.id, text |-> row.text, version |-> row.version]
              /\ UNCHANGED <<listedPosts, deskError>>
            BY <1>1, <1>2, <1>14, <2>4 DEF LandDesk, StillShown
        <3>2. at # None /\ call.id = at /\ call.id \in Posts /\ IsCopy(at, row)
            BY <1>2, <1>5, <2>1, <2>4 DEF LoadIsOfAddress, DeskCallOK
        <3>3. row \in Rows /\ row.text \in Texts /\ row # None
            BY <3>2, DeskNames DEF IsCopy, Rows
        <3>4. DeskTypeInv'
            BY <1>3, <1>4, <1>7, <3>1, <3>3 DEF DeskInv, DeskTypeInv
        <3>5. IsCopy(at, selected)'
            BY <1>3, <3>1, <3>2 DEF IsCopy
        <3>6. DeskFormInv'
            BY <1>3, <3>1, <3>2, <3>5, DeskNames DEF DeskFormInv
        <3>7. deskSure => row = posts[at]
            BY <1>2, <2>1, <2>4, <3>2 DEF LoadIsNew
        <3>8. DeskSureInv'
            BY <1>3, <1>12, <3>1, <3>2, <3>3, <3>7 DEF DeskSureInv
        <3> QED BY <1>8, <1>9, <3>4, <3>6, <3>8 DEF DeskInv
    <2> QED BY <1>3, <2>2, <2>3, <2>4 DEF DeskLoads
<1> QED BY <1>13, <1>14

\* The answer to a change comes.
LEMMA LandMutationKeeps ==
    ASSUME DeskInv, NEW s \in Slots, LandMutation(s)
    PROVE  DeskInv'
<1>1. PICK call : call = deskCalls[s]
    OBVIOUS
<1>2. PICK calls : calls = End(deskCalls, s)
    OBVIOUS
<1>3. call.op \in DeskChanges /\ deskBusy' = FALSE /\ UNCHANGED <<posts, listedPosts>>
    BY <1>1 DEF LandMutation
<1>4. /\ DOMAIN calls = Slots /\ \A t \in Slots : DeskCallOK(calls[t])
      /\ \A t \in Slots : IsChange(calls[t]) <=> t # s /\ IsChange(deskCalls[t])
      /\ \A t \in Slots : IsLoading(calls[t]) <=> t # s /\ IsLoading(deskCalls[t])
      /\ \A t \in Slots : t # s => calls[t] = deskCalls[t]
    BY <1>2, EndedDesk
<1>5. DeskCallOK(call) /\ IsChange(deskCalls[s])
    BY <1>1, <1>3 DEF DeskInv, DeskTypeInv, IsChange
<1>6. \A t \in Slots : ~IsChange(calls[t])
    BY <1>4, <1>5 DEF DeskInv, DeskChangeInv
<1>7. CASE ~call.left /\ Succeeds(call)
    <2>1. PICK next : next = CASE call.op = "delete" -> None
                               [] call.op = "copy" \/ call.id = "new" -> call.answer.body
                               [] OTHER -> at
        OBVIOUS
    <2>2. ShowDesk(next, postFilter, calls)
        BY <1>1, <1>2, <1>7, <2>1 DEF LandMutation, ReadsBack
    <2>3. call.answer.body \in Posts
        BY <1>3, <1>5, <1>7 DEF DeskCallOK
    <2>4. at \in Posts \cup {None, "new"}
        BY DEF DeskInv, DeskTypeInv
    <2>5. next \in Posts \cup {None, "new"}
        BY <2>1, <2>3, <2>4
    <2> QED BY <1>3, <1>4, <1>6, <2>2, <2>5, ShowsDesk DEF DeskInv
<1>8. CASE ~(~call.left /\ Succeeds(call))
    <2>1. /\ deskCalls' = calls /\ deskError' = (deskError \/ (~call.left /\ ~Succeeds(call)))
          /\ confirm' = confirm /\ deskSure' = (deskSure \/ FALSE)
          /\ UNCHANGED <<at, postFilter, selected, draft>>
        BY <1>1, <1>2, <1>8 DEF LandMutation
    <2>2. deskError' \in BOOLEAN /\ (deskError => deskError') /\ deskSure' = deskSure
        BY <2>1 DEF DeskInv, DeskTypeInv
    <2>3. \A t \in Slots : DeskCallOK(deskCalls[t])'
        BY <1>3, <1>4, <2>1 DEF DeskCallOK, IsCopy
    <2>4. DeskTypeInv'
        BY <1>3, <1>4, <2>1, <2>2, <2>3 DEF DeskInv, DeskTypeInv
    <2>5. ~IsLoading(deskCalls[s])
        BY <1>1, <1>3, DeskNames DEF IsLoading
    <2>6. \A t \in Slots : /\ IsLoading(deskCalls[t])' <=> IsLoading(deskCalls[t])
                           /\ IsLoading(deskCalls[t])' => deskCalls'[t] = deskCalls[t]
        BY <1>4, <2>1, <2>5 DEF IsLoading
    <2>7. DeskLoadInv'
        BY <2>1, <2>6 DEF DeskInv, DeskLoadInv, LoadIsOfAddress
    <2>8. DeskChangeInv'
        BY <1>3, <1>6, <2>1 DEF DeskChangeInv, IsChange
    <2>9. DeskFormInv'
        BY <1>3, <2>1 DEF DeskInv, DeskFormInv, IsCopy
    <2>10. PostsMatching(postFilter)' = PostsMatching(postFilter)
        BY <1>3, <2>1 DEF PostsMatching, Kept
    <2>11. deskSure => \A t \in Slots : IsLoading(deskCalls[t])' => LoadIsNew(deskCalls[t])'
        BY <1>3, <2>1, <2>6, <2>10 DEF DeskInv, DeskSureInv, LoadIsNew, Succeeds
    <2>12. Quiet' <=> Quiet
        BY <2>6 DEF Quiet
    <2>13. DeskSureInv'
        BY <1>3, <2>1, <2>2, <2>10, <2>11, <2>12 DEF DeskInv, DeskSureInv
    <2> QED BY <2>4, <2>7, <2>8, <2>9, <2>13 DEF DeskInv
<1> QED BY <1>7, <1>8

-----------------------------------------------------------------------------

\* The desk opens on its list or on a post.
LEMMA DeskStart ==
    ASSUME DeskInit
    PROVE  DeskInv
<1>1. PICK first : first = CHOOSE p \in Posts : TRUE
    OBVIOUS
<1>2. first \in Posts
    BY <1>1, DeskAssumption
<1>3. PICK status \in {"draft", "published", "ended"} :
          posts = [p \in Posts |-> IF p = first THEN [NewPost(1) EXCEPT !.status = status] ELSE None]
    BY <1>1 DEF DeskInit
<1>4. at \in {None, first}
    BY <1>1 DEF DeskInit
<1>5. /\ postFilter = "" /\ listedPosts = None /\ selected = None /\ draft = Blank
      /\ confirm = None /\ deskBusy = FALSE /\ deskError = FALSE
      /\ deskCalls = Begin(NoCalls, Asking(at, "")) /\ deskSure = TRUE
    BY DEF DeskInit
<1>6. [NewPost(1) EXCEPT !.status = status] \in Rows
    BY DEF NewPost, Rows, Texts
<1>7. posts \in [Posts -> Rows \cup {None}]
    BY <1>3, <1>6
<1>8. PICK call : call = Asking(at, "")
    OBVIOUS
<1>9. /\ DeskCallOK(call) /\ IsLoading(call) /\ ~IsChange(call) /\ ~Succeeds(call)
      /\ at = None => call.op = "list" /\ call.filter = ""
      /\ at # None => call.op = "post" /\ call.id = at
    BY <1>2, <1>4, <1>8, AskingCall
<1>10. DOMAIN NoCalls = Slots /\ \A t \in Slots : NoCalls[t] = NoCall /\ NoCalls[t].op = "idle"
    BY DEF NoCalls, NoCall
<1>11. Free(NoCalls) # {}
    BY <1>10, SlotsAssumption DEF Free, Busy
<1>12. PICK slot : slot = NextSlot(NoCalls)
    OBVIOUS
<1>13. /\ DOMAIN deskCalls = Slots /\ slot \in Slots
       /\ \A t \in Slots : deskCalls[t] = IF t = slot THEN call ELSE NoCall
    <2>1. PICK none : none = NoCalls
        OBVIOUS
    <2>2. DOMAIN none = Slots /\ Free(none) # {} /\ slot = NextSlot(none) /\ deskCalls = Begin(none, call)
        BY <1>5, <1>8, <1>10, <1>11, <1>12, <2>1
    <2>3. /\ DOMAIN deskCalls = Slots /\ slot \in Slots
          /\ \A t \in Slots : deskCalls[t] = IF t = slot THEN call ELSE none[t]
        BY <2>2, BegunCalls
    <2> QED BY <1>10, <2>1, <2>3
<1>14. DeskCallOK(NoCall) /\ ~IsChange(NoCall) /\ ~IsLoading(NoCall)
    BY DeskNames DEF DeskCallOK, IsCall, NoCall, IsChange, IsLoading, DeskLoads, DeskChanges
<1>15. \A t \in Slots : DeskCallOK(deskCalls[t]) /\ ~IsChange(deskCalls[t])
    BY <1>9, <1>13, <1>14
<1>16. \A t \in Slots : IsLoading(deskCalls[t]) <=> t = slot
    BY <1>9, <1>13, <1>14
<1>17. deskCalls[slot] = call
    BY <1>13
<1>18. DeskTypeInv
    <2>1. DOMAIN draft = {"of", "text", "version"} /\ draft.text \in Texts
        <3>1. PICK filled : filled = [of |-> "new", text |-> 1, version |-> 0]
            OBVIOUS
        <3>2. draft = filled
            BY <1>5, <3>1 DEF Blank
        <3>3. DOMAIN filled = {"of", "text", "version"} /\ filled.text = 1
            BY <3>1
        <3> QED BY <3>2, <3>3 DEF Texts
    <2>2. at \in Posts \cup {None, "new"} /\ confirm \in DeskChanges \cup {None}
        BY <1>2, <1>4, <1>5
    <2> QED BY <1>5, <1>7, <1>13, <1>15, <2>1, <2>2 DEF DeskTypeInv
<1>19. DeskLoadInv
    BY <1>5, <1>9, <1>16, <1>17 DEF DeskLoadInv, LoadIsOfAddress
<1>20. DeskChangeInv
    BY <1>5, <1>15 DEF DeskChangeInv
<1>21. DeskFormInv
    BY <1>2, <1>4, <1>5, DeskNames DEF DeskFormInv
<1>22. DeskSureInv
    BY <1>5, <1>9, <1>13, <1>16, <1>17 DEF DeskSureInv, LoadIsNew, Quiet
<1> QED BY <1>18, <1>19, <1>20, <1>21, <1>22 DEF DeskInv

\* The step of the desk, action by action.
LEMMA DeskKept ==
    ASSUME DeskInv, [DeskNext]_deskVars
    PROVE  DeskInv'
<1>1. at \in Posts \cup {None, "new"}
    BY DEF DeskInv, DeskTypeInv
<1>2. ASSUME NewAnnouncement PROVE DeskInv'
    BY <1>2, BrowseKeeps DEF NewAnnouncement
<1>3. ASSUME LeavePost PROVE DeskInv'
    <2>1. \E next \in Posts \cup {None, "new"} : \E state : LeavePost /\ next = None /\ state = postFilter
        BY <1>3
    <2> QED BY <2>1, BrowseKeeps
<1>4. ASSUME ReloadDesk PROVE DeskInv'
    BY <1>1, <1>4, BrowseKeeps DEF ReloadDesk
<1>5. ASSUME NEW state, FilterPosts(state) PROVE DeskInv'
    BY <1>5, BrowseKeeps DEF FilterPosts
<1>6. ASSUME NEW p \in Posts, OpenPost(p) PROVE DeskInv'
    BY <1>6, BrowseKeeps DEF OpenPost
<1>7. ASSUME CloseConfirm PROVE DeskInv'
    <2>1. \E text \in Texts, action \in DeskChanges : CloseConfirm
        BY <1>7 DEF Texts, DeskChanges
    <2> QED BY <2>1, DeskFormKeeps
<1>8. ASSUME NEW text \in Texts, EditPost(text) PROVE DeskInv'
    <2>1. \E action \in DeskChanges : EditPost(text)
        BY <1>8 DEF DeskChanges
    <2> QED BY <2>1, DeskFormKeeps
<1>9. ASSUME NEW action \in DeskChanges, AskConfirm(action) PROVE DeskInv'
    <2>1. \E text \in Texts : AskConfirm(action)
        BY <1>9 DEF Texts
    <2> QED BY <2>1, DeskFormKeeps
<1>10. ASSUME SaveDraft \/ Confirmed \/ CopyAsDraft PROVE DeskInv'
    <2>1. confirm # None => confirm \in DeskChanges
        BY DEF DeskInv, DeskTypeInv
    <2>2. \E action \in DeskChanges : MutatePost(action)
        BY <1>10, <2>1 DEF SaveDraft, Confirmed, CopyAsDraft, DeskChanges
    <2> QED BY <2>2, MutateKeeps
<1>11. ASSUME NEW p \in Posts, NEW action \in DeskChanges \ {"copy"}, NEW text \in Texts,
              ChangePostElsewhere(p, action, text)
       PROVE DeskInv'
    BY <1>11, ElsewhereKeeps
<1>12. ASSUME NEW p \in Posts, PostEnds(p) PROVE DeskInv'
    <2>1. \E action \in DeskChanges \ {"copy"}, text \in Texts : PostEnds(p)
        BY <1>12 DEF DeskChanges, Texts
    <2> QED BY <2>1, ElsewhereKeeps
<1>13. ASSUME NEW s \in Slots, LandDesk(s) \/ LandMutation(s) PROVE DeskInv'
    BY <1>13, DeskLandKeeps, LandMutationKeeps
<1>14. ASSUME NEW s \in Slots, ServeDesk(s) \/ RefuseDesk(s) \/ LoseDeskAnswer(s) PROVE DeskInv'
    BY <1>14, DeskServeKeeps, DeskRefuseKeeps
<1>15. ASSUME UNCHANGED deskVars PROVE DeskInv'
    <2>1. UNCHANGED <<posts, at, postFilter, listedPosts, selected, draft, confirm, deskBusy, deskError,
                      deskCalls, deskSure>>
        BY <1>15 DEF deskVars
    <2>2. \A t \in Slots : DeskCallOK(deskCalls[t])'
        BY <2>1 DEF DeskInv, DeskTypeInv, DeskCallOK, IsCopy
    <2>3. DeskTypeInv'
        BY <2>1, <2>2 DEF DeskInv, DeskTypeInv
    <2>4. DeskLoadInv'
        BY <2>1 DEF DeskInv, DeskLoadInv, LoadIsOfAddress
    <2>5. DeskChangeInv'
        BY <2>1 DEF DeskInv, DeskChangeInv, IsChange
    <2>6. DeskFormInv'
        BY <2>1 DEF DeskInv, DeskFormInv, IsCopy
    <2>7. DeskSureInv'
        BY <2>1 DEF DeskInv, DeskSureInv, LoadIsNew, Quiet, IsLoading, PostsMatching, Kept
    <2> QED BY <2>3, <2>4, <2>5, <2>6, <2>7 DEF DeskInv
<1> QED BY <1>2, <1>3, <1>4, <1>5, <1>6, <1>7, <1>8, <1>9, <1>10, <1>11, <1>12, <1>13, <1>14, <1>15 DEF DeskNext

-----------------------------------------------------------------------------

\* What the runs check.
LEMMA DeskInvImplies ==
    ASSUME DeskInv
    PROVE  OneDeskChange /\ FormIsOfAddress /\ DeskIsCurrent
<1>1. OneDeskChange
    <2>1. \A s \in Slots : IsChange(deskCalls[s]) <=> s \in Waiting(deskCalls, DeskChanges)
        BY DEF IsChange, Waiting
    <2>2. deskBusy \in BOOLEAN
        BY DEF DeskInv, DeskTypeInv
    <2>3. Waiting(deskCalls, DeskChanges) \subseteq Slots
        BY DEF Waiting
    <2>4. deskBusy <=> Waiting(deskCalls, DeskChanges) # {}
        BY <2>1, <2>3 DEF DeskInv, DeskChangeInv
    <2>5. \A s, t \in Waiting(deskCalls, DeskChanges) : s = t
        BY <2>1, <2>3 DEF DeskInv, DeskChangeInv
    <2> QED BY <2>2, <2>4, <2>5, OneIfFlag DEF OneDeskChange
<1>2. FormIsOfAddress
    BY DeskNames DEF DeskInv, DeskFormInv, DeskTypeInv, FormIsOfAddress, HasForm
<1>3. DeskIsCurrent
    <2>1. SUFFICES ASSUME deskSure, ~deskError, Hears(DeskLoads \cup DeskChanges) = {}
                   PROVE  /\ at = None => listedPosts = PostsMatching(postFilter)
                          /\ at \in Posts => selected = posts[at]
        BY DeskNames DEF DeskIsCurrent
    <2>2. Quiet
        BY <2>1 DEF Quiet, IsLoading, Hears, Waiting
    <2> QED BY <2>1, <2>2 DEF DeskInv, DeskSureInv
<1> QED BY <1>1, <1>2, <1>3

\* The effect lets every answer be.
LEMMA ShownAnswers ==
    ASSUME NEW calls, DOMAIN calls = Slots, \A t \in Slots : DeskCallOK(calls[t]),
           NEW next, NEW state, ShowDesk(next, state, calls), NEW s \in Slots, calls[s].op # "idle"
    PROVE  deskCalls'[s].answer = calls[s].answer
<1>1. PICK old : old = Orphaned(calls)
    OBVIOUS
<1>2. DOMAIN old = Slots /\ \A t \in Slots : old[t].op = calls[t].op
    BY <1>1, OrphanedCalls
<1>3. PICK call : call = calls[s]
    OBVIOUS
<1>4. "answer" \in DOMAIN call
    BY <1>3 DEF DeskCallOK, IsCall
<1>5. old[s].answer = calls[s].answer
    BY <1>1, <1>3, <1>4 DEF Orphaned
<1>6. CASE next = "new"
    BY <1>1, <1>5, <1>6 DEF ShowDesk
<1>7. CASE next # "new"
    <2>1. PICK asked : asked = Asking(next, state)
        OBVIOUS
    <2>2. Free(old) # {} /\ deskCalls' = Begin(old, asked)
        BY <1>1, <1>7, <2>1 DEF ShowDesk
    <2>3. /\ old[NextSlot(old)].op = "idle"
          /\ \A t \in Slots : deskCalls'[t] = IF t = NextSlot(old) THEN asked ELSE old[t]
        BY <1>2, <2>2, BegunCalls
    <2>4. s # NextSlot(old)
        BY <1>2, <2>3
    <2> QED BY <1>5, <2>3, <2>4
<1> QED BY <1>6, <1>7

\* Only the backend answers that a change succeeded.
LEMMA ServedChange ==
    ASSUME DeskInv, [DeskNext]_deskVars, NEW s \in Slots, deskCalls[s].op \in DeskChanges \ {"copy"},
           deskCalls[s].answer = Unanswered, deskCalls'[s].op = deskCalls[s].op,
           deskCalls'[s].answer.kind = "ok"
    PROVE  ServeDesk(s)
<1>1. deskCalls[s].answer.kind # "ok" /\ deskCalls[s].op # "idle"
    BY DeskNames DEF Unanswered
<1>2. deskCalls'[s].answer # deskCalls[s].answer
    BY <1>1
<1>3. DOMAIN deskCalls = Slots /\ \A t \in Slots : DeskCallOK(deskCalls[t])
    BY DEF DeskInv, DeskTypeInv
<1>4. \A next, state : ~ShowDesk(next, state, deskCalls)
    BY <1>1, <1>2, <1>3, ShownAnswers
<1>5. ~NewAnnouncement /\ ~LeavePost /\ ~ReloadDesk
    BY <1>4 DEF NewAnnouncement, LeavePost, ReloadDesk, Browse
<1>6. \A state : ~FilterPosts(state)
    BY <1>4 DEF FilterPosts, Browse
<1>7. \A p \in Posts : ~OpenPost(p)
    BY <1>4 DEF OpenPost, Browse
<1>8. deskCalls' # deskCalls
    BY <1>2
<1>9. \A action : ~MutatePost(action)
    <2>1. SUFFICES ASSUME NEW action, MutatePost(action) PROVE FALSE
        OBVIOUS
    <2>2. Free(deskCalls) # {} /\ \E call : deskCalls' = Begin(deskCalls, call)
        BY <2>1 DEF MutatePost
    <2>3. PICK call : deskCalls' = Begin(deskCalls, call)
        BY <2>2
    <2>4. /\ deskCalls[NextSlot(deskCalls)].op = "idle"
          /\ \A t \in Slots : deskCalls'[t] = IF t = NextSlot(deskCalls) THEN call ELSE deskCalls[t]
        BY <1>3, <2>2, <2>3, BegunCalls
    <2> QED BY <1>1, <1>2, <2>4
<1>10. ~SaveDraft /\ ~Confirmed /\ ~CopyAsDraft
    BY <1>9 DEF SaveDraft, Confirmed, CopyAsDraft
<1>11. ASSUME NEW t \in Slots, NEW calls, calls = End(deskCalls, t)
       PROVE  /\ DOMAIN calls = Slots /\ \A u \in Slots : DeskCallOK(calls[u])
              /\ calls[s] = IF s = t THEN NoCall ELSE deskCalls[s]
    BY <1>11, <1>3, EndedDesk, EndedCalls
<1>12. \A t \in Slots : ~LandDesk(t)
    <2>1. SUFFICES ASSUME NEW t \in Slots, LandDesk(t) PROVE FALSE
        OBVIOUS
    <2>2. deskCalls' = End(deskCalls, t)
        BY <2>1 DEF LandDesk
    <2>3. deskCalls'[s] = IF s = t THEN NoCall ELSE deskCalls[s]
        BY <1>11, <2>2
    <2> QED BY <1>1, <1>2, <2>3 DEF NoCall
<1>13. \A t \in Slots : ~LandMutation(t)
    <2>1. SUFFICES ASSUME NEW t \in Slots, LandMutation(t) PROVE FALSE
        OBVIOUS
    <2>2. PICK calls : calls = End(deskCalls, t)
        OBVIOUS
    <2>3. /\ DOMAIN calls = Slots /\ \A u \in Slots : DeskCallOK(calls[u])
          /\ calls[s] = IF s = t THEN NoCall ELSE deskCalls[s]
        BY <1>11, <2>2
    <2>4. \/ deskCalls' = calls
          \/ \E next, state : ShowDesk(next, state, calls)
        BY <2>1, <2>2 DEF LandMutation
    <2>5. CASE deskCalls' = calls
        BY <1>1, <1>2, <2>3, <2>5 DEF NoCall
    <2>6. CASE \E next, state : ShowDesk(next, state, calls)
        <3>1. PICK next : \E state : ShowDesk(next, state, calls)
            BY <2>6
        <3>2. PICK state : ShowDesk(next, state, calls)
            BY <3>1
        <3>3. CASE s # t
            <4>1. deskCalls'[s].answer = calls[s].answer
                BY <1>1, <2>3, <3>2, <3>3, ShownAnswers
            <4> QED BY <1>2, <2>3, <3>3, <4>1
        <3>4. CASE s = t
            <4>1. PICK old : old = Orphaned(calls)
                OBVIOUS
            <4>2. DOMAIN old = Slots /\ old[s].op = "idle"
                BY <2>3, <3>4, <4>1, OrphanedCalls DEF NoCall
            <4>3. deskCalls' = old \/ (Free(old) # {} /\ deskCalls' = Begin(old, Asking(next, state)))
                BY <3>2, <4>1 DEF ShowDesk
            <4>4. PICK asked : asked = Asking(next, state)
                OBVIOUS
            <4>5. asked.op \in DeskLoads
                BY <4>4 DEF Asking, DeskLoads
            <4>6. deskCalls'[s] = old[s] \/ deskCalls'[s] = asked
                BY <4>2, <4>3, <4>4, BegunCalls
            <4> QED BY <1>1, <4>2, <4>5, <4>6, DeskNames
        <3> QED BY <3>3, <3>4
    <2> QED BY <2>4, <2>5, <2>6
<1>14. ASSUME NEW t \in Slots, RefuseDesk(t) \/ LoseDeskAnswer(t) PROVE FALSE
    <2>1. PICK told \in {Refused("conflict"), Lost} : deskCalls' = [deskCalls EXCEPT ![t].answer = told]
        BY <1>14 DEF RefuseDesk, LoseDeskAnswer, TellDesk, LoseAnswer
    <2>2. told.kind # "ok"
        BY <2>1 DEF Refused, Lost
    <2>3. PICK call : call = deskCalls[s]
        OBVIOUS
    <2>4. "answer" \in DOMAIN call
        BY <1>1, <1>3, <2>3 DEF DeskCallOK, IsCall
    <2>5. deskCalls'[s].answer = told \/ deskCalls'[s] = deskCalls[s]
        BY <1>3, <2>1, <2>3, <2>4, ToldCalls
    <2> QED BY <1>2, <2>2, <2>5
<1>15. ASSUME NEW t \in Slots, ServeDesk(t) PROVE t = s
    <2>1. \E told : deskCalls' = [deskCalls EXCEPT ![t].answer = told]
        BY <1>15 DEF ServeDesk, StorePost, TellDesk
    <2>2. PICK told : deskCalls' = [deskCalls EXCEPT ![t].answer = told]
        BY <2>1
    <2>3. s # t => deskCalls'[s] = deskCalls[s]
        BY <1>3, <2>2, ToldCalls
    <2> QED BY <1>2, <2>3
<1>16. DeskNext
    BY <1>8 DEF deskVars
<1>17. ~CloseConfirm /\ \A x : ~EditPost(x) /\ ~AskConfirm(x) /\ ~PostEnds(x)
    BY <1>8 DEF CloseConfirm, EditPost, AskConfirm, PostEnds
<1>18. \A p, action, text : ~ChangePostElsewhere(p, action, text)
    BY <1>8 DEF ChangePostElsewhere
<1> QED BY <1>5, <1>6, <1>7, <1>10, <1>12, <1>13, <1>14, <1>15, <1>16, <1>17, <1>18 DEF DeskNext

\* The step of ChangesWhatWasShown: only the serving of a change accepts it.
LEMMA ChangesWhatWasShownStep ==
    ASSUME DeskInv, [DeskNext]_deskVars, NEW s \in Slots, NEW call, call = deskCalls[s],
           call.op \in DeskChanges \ {"copy"}, call.answer = Unanswered,
           deskCalls'[s].op = call.op, deskCalls'[s].answer.kind = "ok"
    PROVE  \/ call.saw = None /\ call.id = "new"
           \/ call.saw # None /\ posts[call.id].text = call.saw.text
                              /\ posts[call.id].version = call.saw.version
<1>1. ServeDesk(s)
    BY ServedChange
<1>2. DeskCallOK(call)
    BY DEF DeskInv, DeskTypeInv
<1>3. call.op # "list" /\ call.op # "post"
    BY DeskNames DEF DeskLoads
<1>4. CASE call.id = "new"
    BY <1>2, <1>4 DEF DeskCallOK
<1>5. CASE call.id # "new"
    <2>1. posts[call.id].version = call.version
        BY <1>1, <1>3, <1>5 DEF ServeDesk, SameVersionOf
    <2>2. IsCopy(call.id, call.saw) /\ call.version = call.saw.version
        BY <1>2, <1>5 DEF DeskCallOK
    <2> QED BY <2>1, <2>2, DeskNames DEF IsCopy
<1> QED BY <1>4, <1>5

-----------------------------------------------------------------------------
(* Users *)

AccountFields == {"there", "role", "enabled", "refresh", "limit", "password"}

UserOps == {"list", "detail", "patch", "reset", "refresh", "delete", "create"}

UserCallOK(call) ==
    /\ call.op \in {"idle"} \cup UserOps /\ IsCall(call, {"left", "alone"})
    /\ call.op = "list" => {"page", "filter"} \subseteq DOMAIN call
    /\ call.op \in RecordWriters => "user" \in DOMAIN call /\ call.user \in Users
    /\ call.op = "detail" =>
          /\ {"first", "after"} \subseteq DOMAIN call
          /\ Succeeds(call) /\ call.user = Self => call.answer.body.role = "admin"
    /\ call.op = "patch" =>
          /\ "values" \in DOMAIN call /\ DOMAIN call.values \subseteq {"enabled", "refresh", "limit", "role"}
          /\ call.user = Self => /\ "enabled" \notin DOMAIN call.values
                                 /\ "role" \in DOMAIN call.values => call.values.role = "admin"
    /\ call.op = "delete" => call.user # Self
    /\ call.op = "create" => /\ "role" \in DOMAIN call /\ ~call.left
                             /\ Succeeds(call) => call.answer.body \in Users

IsWriter(call) == call.op \in RecordWriters

IsListed(call) == call.op = "list" /\ ~call.left

\* What keeps the page of a user pending.
IsUserChange(call) ==
    /\ call.op \in {"patch", "reset", "delete", "refresh"} \/ (call.op = "detail" /\ call.after)
    /\ ~call.left

UsersTypeInv ==
    /\ DOMAIN accounts = Users /\ \A u \in Users : DOMAIN accounts[u] = AccountFields
    /\ DOMAIN place = {"page", "filter", "user"} /\ place.user \in Users \cup {None}
    /\ DOMAIN record = {"shown", "failed", "limit", "role"}
    /\ pending \in BOOLEAN /\ listFailed \in BOOLEAN /\ listSure \in BOOLEAN /\ recordSure \in BOOLEAN
    /\ DOMAIN userCalls = Slots /\ \A s \in Slots : UserCallOK(userCalls[s])

\* Nothing on the page of the administrator himself can take his rights away.
UsersSelfInv ==
    /\ accounts[Self].there = TRUE /\ accounts[Self].enabled = TRUE /\ accounts[Self].role = "admin"
    /\ place.user = Self => userModal # "delete"
    /\ place.user = Self /\ record.shown # None => record.role = "admin"

UsersListInv ==
    /\ \A s \in Slots : IsListed(userCalls[s]) =>
          /\ place.user = None /\ userCalls[s].page = place.page /\ userCalls[s].filter = place.filter
          /\ listSure /\ Succeeds(userCalls[s]) =>
                userCalls[s].answer.body = UsersPage(place.page, place.filter)
    /\ place.user = None /\ listSure /\ ~listFailed /\ (\A s \in Slots : ~IsListed(userCalls[s])) =>
          listing = UsersPage(place.page, place.filter)

UsersChangeInv ==
    /\ pending <=> \E s \in Slots : IsUserChange(userCalls[s])
    /\ \A s, t \in Slots : IsUserChange(userCalls[s]) /\ IsUserChange(userCalls[t]) => s = t
    /\ \A s \in Slots : IsWriter(userCalls[s]) /\ ~userCalls[s].left => place.user = userCalls[s].user

\* A request that is alone is the only one of its kind, and what it brings stays.
AloneIsNew(call) ==
    IsWriter(call) /\ call.alone /\ Succeeds(call) =>
        /\ call.op = "detail" => accounts[call.user].there /\ call.answer.body = accounts[call.user]
        /\ call.op = "reset" => accounts[call.user].there /\ call.answer.body = accounts[call.user].password

UsersRecordInv ==
    /\ \A s, t \in Slots : IsWriter(userCalls[s]) /\ IsWriter(userCalls[t]) /\ userCalls[s].alone => s = t
    /\ \A s \in Slots : AloneIsNew(userCalls[s])
    /\ recordSure => /\ place.user \in Users
                     /\ \A s \in Slots : IsWriter(userCalls[s]) => ~userCalls[s].left
    /\ recordSure /\ (\A s \in Slots : ~IsWriter(userCalls[s])) =>
          accounts[place.user].there /\ record.shown = accounts[place.user]

UsersTemporaryInv ==
    /\ \A s \in Slots : userCalls[s].op = "reset" /\ ~userCalls[s].left => userModal = "password"
    /\ temporary # None =>
          /\ userModal = "password"
          /\ temporary.alone =>
                /\ place.user \in Users
                /\ accounts[place.user].there /\ temporary.word = accounts[place.user].password
                /\ \A s \in Slots : userCalls[s].op \notin {"reset", "delete"}

UsersInv == UsersTypeInv /\ UsersSelfInv /\ UsersListInv /\ UsersChangeInv /\ UsersRecordInv /\ UsersTemporaryInv

-----------------------------------------------------------------------------

\* The names of operations, users and dialogs do not meet.
LEMMA UserNames ==
    /\ "idle" \notin UserOps /\ RecordWriters \subseteq UserOps \ {"list", "create"}
    /\ Self \in Users /\ UserCount \in Users /\ UserCount # Self /\ None # "delete" /\ None # "password"
BY UsersAssumption DEF UserOps, RecordWriters, Self, Users

\* What the fields but alone say of a call, they say of one that has them too.
LEMMA SameUserCall ==
    ASSUME NEW old, NEW next, UserCallOK(old), DOMAIN next = DOMAIN old,
           \A f \in DOMAIN old \ {"alone"} : next[f] = old[f]
    PROVE  /\ UserCallOK(next) /\ next.op = old.op
           /\ old.op # "idle" => next.left = old.left /\ next.answer = old.answer
           /\ IsListed(next) <=> IsListed(old)
           /\ IsListed(old) => next.page = old.page /\ next.filter = old.filter
           /\ IsWriter(next) <=> IsWriter(old)
           /\ IsWriter(old) => next.user = old.user
           /\ Succeeds(next) /\ old.op # "idle" <=> Succeeds(old) /\ old.op # "idle"
           /\ IsUserChange(next) <=> IsUserChange(old)
<1>1. next.op = old.op
    BY DEF UserCallOK, IsCall
<1>2. CASE old.op = "idle"
    BY <1>1, <1>2, UserNames DEF UserCallOK, IsCall, IsListed, IsWriter, IsUserChange, RecordWriters
<1>3. CASE old.op # "idle"
    <2>1. next.left = old.left /\ next.answer = old.answer
        BY <1>3 DEF UserCallOK, IsCall
    <2>2. /\ old.op = "list" => next.page = old.page /\ next.filter = old.filter
          /\ old.op \in RecordWriters => next.user = old.user
          /\ old.op = "detail" => next.after = old.after
          /\ old.op = "patch" => next.values = old.values
        BY DEF UserCallOK
    <2>3. Succeeds(next) <=> Succeeds(old)
        BY <2>1 DEF Succeeds
    <2>4. UserCallOK(next)
        BY <1>1, <1>3, <2>1, <2>2, <2>3 DEF UserCallOK, IsCall, RecordWriters
    <2> QED BY <1>1, <1>3, <2>1, <2>2, <2>3, <2>4 DEF IsListed, IsWriter, IsUserChange, RecordWriters
<1> QED BY <1>2, <1>3

\* What is left behind is listened to no more, and is still known to write.
LEMMA DroppedCalls ==
    ASSUME NEW calls, DOMAIN calls = Slots, \A s \in Slots : UserCallOK(calls[s]), NEW old, old = Dropped(calls)
    PROVE  /\ DOMAIN old = Slots
           /\ \A s \in Slots :
                /\ UserCallOK(old[s]) /\ old[s].op = calls[s].op
                /\ ~IsListed(old[s]) /\ ~IsUserChange(old[s])
                /\ IsWriter(calls[s]) =>
                      old[s].left /\ old[s].user = calls[s].user /\ old[s].alone = calls[s].alone
                      /\ old[s].answer = calls[s].answer
<1>1. DOMAIN old = Slots
    BY DEF Dropped
<1>2. ASSUME NEW s \in Slots
      PROVE  /\ UserCallOK(old[s]) /\ old[s].op = calls[s].op
             /\ ~IsListed(old[s]) /\ ~IsUserChange(old[s])
             /\ IsWriter(calls[s]) =>
                   old[s].left /\ old[s].user = calls[s].user /\ old[s].alone = calls[s].alone
                   /\ old[s].answer = calls[s].answer
    <2>1. PICK call : call = calls[s]
        OBVIOUS
    <2>2. UserCallOK(call)
        BY <2>1
    <2>3. CASE call.op \in {"idle", "create"}
        <3>1. old[s] = call
            BY <2>1, <2>3 DEF Dropped
        <3> QED BY <2>1, <2>2, <2>3, <3>1, UserNames DEF IsListed, IsUserChange, IsWriter, RecordWriters
    <2>4. CASE call.op \notin {"idle", "create"}
        <3>1. PICK left : left = [call EXCEPT !.left = TRUE]
            OBVIOUS
        <3>2. old[s] = left
            BY <2>1, <2>4, <3>1 DEF Dropped
        <3>3. /\ {"op", "left", "alone", "answer"} \subseteq DOMAIN call /\ DOMAIN left = DOMAIN call
              /\ left.left = TRUE
              /\ \A f \in DOMAIN call \ {"left"} : left[f] = call[f]
            BY <2>2, <2>4, <3>1 DEF UserCallOK, IsCall
        <3>4. left.op = call.op /\ left.answer = call.answer /\ left.alone = call.alone
            BY <3>3
        <3>5. /\ call.op = "list" => left.page = call.page /\ left.filter = call.filter
              /\ call.op \in RecordWriters => left.user = call.user
              /\ call.op = "detail" => left.after = call.after
              /\ call.op = "patch" => left.values = call.values
            BY <2>2, <3>3 DEF UserCallOK
        <3>6. Succeeds(left) <=> Succeeds(call)
            BY <3>4 DEF Succeeds
        <3>7. UserCallOK(left)
            BY <2>2, <2>4, <3>3, <3>4, <3>5, <3>6 DEF UserCallOK, IsCall, RecordWriters
        <3> QED BY <2>1, <3>2, <3>3, <3>4, <3>5, <3>7 DEF IsListed, IsUserChange, IsWriter
    <2> QED BY <2>3, <2>4
<1> QED BY <1>1, <1>2

\* No two that are alone.
Apart(calls) == \A s, t \in Slots : IsWriter(calls[s]) /\ IsWriter(calls[t]) /\ calls[s].alone => s = t

\* A request that starts.
IsFresh(call) ==
    /\ {"op", "left"} \subseteq DOMAIN call /\ {"answer", "alone"} \cap DOMAIN call = {}
    /\ \A next : /\ DOMAIN next = DOMAIN call \cup {"answer", "alone"} /\ next.answer = Unanswered
                 /\ \A f \in DOMAIN call : next[f] = call[f]
                 => UserCallOK(next)

\* It is one of the requests, and the others are as they were.
Follows(calls, call, after) ==
    /\ DOMAIN after = Slots /\ \A s \in Slots : UserCallOK(after[s])
    /\ Apart(after)
    /\ \E slot \in Slots :
          /\ calls[slot].op = "idle"
          /\ DOMAIN after[slot] = DOMAIN call \cup {"answer", "alone"}
          /\ \A f \in DOMAIN call : after[slot][f] = call[f]
          /\ ~Succeeds(after[slot])
          /\ \A t \in Slots \ {slot} :
                /\ DOMAIN after[t] = DOMAIN calls[t]
                /\ \A f \in DOMAIN calls[t] \ {"alone"} : after[t][f] = calls[t][f]
                /\ after[t].op # "idle" => after[t].left = calls[t].left /\ after[t].answer = calls[t].answer
                /\ after[t].op = calls[t].op
                /\ IsListed(after[t]) <=> IsListed(calls[t])
                /\ IsListed(calls[t]) => after[t].page = calls[t].page /\ after[t].filter = calls[t].filter
                /\ IsWriter(after[t]) <=> IsWriter(calls[t])
                /\ IsWriter(calls[t]) => after[t].user = calls[t].user
                /\ IsWriter(calls[t]) /\ after[t].alone => after[t] = calls[t]
                /\ IsUserChange(after[t]) <=> IsUserChange(calls[t])

\* A request of the page takes a slot and leaves the other calls as they were.
LEMMA PostedUsers ==
    ASSUME NEW calls, DOMAIN calls = Slots, \A s \in Slots : UserCallOK(calls[s]), Apart(calls),
           Free(calls) # {}, NEW call, IsFresh(call), NEW writers,
           writers = RecordWriters \/ (writers = {} /\ call.op \notin RecordWriters)
    PROVE  Follows(calls, call, Post(calls, call, writers))
<1>0. PICK after : after = Post(calls, call, writers)
    OBVIOUS
<1>1. \A t \in Slots : "op" \in DOMAIN calls[t] /\ (IsWriter(calls[t]) => "alone" \in DOMAIN calls[t])
    BY UserNames DEF UserCallOK, IsCall, IsWriter
<1>2. IsPosted(calls, call, writers, after)
    <2>1. \A t \in Slots : "op" \in DOMAIN calls[t]
        BY <1>1
    <2>2. {"answer", "alone"} \cap DOMAIN call = {}
        BY DEF IsFresh
    <2> QED BY <1>0, <2>1, <2>2, PostedCalls
<1>3. PICK slot \in Slots :
          /\ calls[slot].op = "idle"
          /\ DOMAIN after[slot] = DOMAIN call \cup {"answer", "alone"}
          /\ \A f \in DOMAIN call : after[slot][f] = call[f]
          /\ after[slot].answer = Unanswered
          /\ after[slot].alone <=> \A t \in Slots : calls[t].op \notin writers
          /\ \A t \in Slots \ {slot} :
                /\ DOMAIN after[t] = DOMAIN calls[t]
                /\ \A f \in DOMAIN calls[t] \ {"alone"} : after[t][f] = calls[t][f]
                /\ call.op \notin writers \/ calls[t].op \notin writers => after[t] = calls[t]
                /\ "alone" \in DOMAIN calls[t] /\ call.op \in writers /\ calls[t].op \in writers =>
                      after[t].alone = FALSE
    BY <1>2 DEF IsPosted
<1>4. UserCallOK(after[slot])
    BY <1>3 DEF IsFresh
<1>5. ASSUME NEW t \in Slots \ {slot}
      PROVE  /\ UserCallOK(after[t])
             /\ after[t].op # "idle" => after[t].left = calls[t].left /\ after[t].answer = calls[t].answer
             /\ after[t].op = calls[t].op
             /\ IsListed(after[t]) <=> IsListed(calls[t])
             /\ IsListed(calls[t]) => after[t].page = calls[t].page /\ after[t].filter = calls[t].filter
             /\ IsWriter(after[t]) <=> IsWriter(calls[t])
             /\ IsWriter(calls[t]) => after[t].user = calls[t].user
             /\ IsUserChange(after[t]) <=> IsUserChange(calls[t])
    <2>1. UserCallOK(calls[t]) /\ DOMAIN after[t] = DOMAIN calls[t]
          /\ \A f \in DOMAIN calls[t] \ {"alone"} : after[t][f] = calls[t][f]
        BY <1>3
    <2> QED BY <2>1, SameUserCall
<1>6. ASSUME NEW t \in Slots \ {slot}, IsWriter(calls[t]), after[t].alone
      PROVE  after[t] = calls[t] /\ call.op \notin RecordWriters
    BY <1>1, <1>3, <1>6 DEF IsWriter
<1>7. ~Succeeds(after[slot])
    BY <1>3 DEF Succeeds, Unanswered
<1>8. Apart(after)
    <2>1. SUFFICES ASSUME NEW s \in Slots, NEW t \in Slots, IsWriter(after[s]), IsWriter(after[t]), after[s].alone
                   PROVE  s = t
        BY DEF Apart
    <2>2. after[slot].op = call.op
        BY <1>3 DEF IsFresh
    <2>3. CASE s = slot
        <3>1. \A u \in Slots : calls[u].op \notin RecordWriters
            BY <1>3, <2>1, <2>2, <2>3 DEF IsWriter
        <3> QED BY <1>5, <2>1, <2>3, <3>1 DEF IsWriter
    <2>4. CASE s # slot
        <3>1. after[s] = calls[s] /\ call.op \notin RecordWriters
            BY <1>5, <1>6, <2>1, <2>4
        <3>2. t # slot
            BY <2>1, <2>2, <3>1 DEF IsWriter
        <3> QED BY <1>5, <2>1, <2>4, <3>1, <3>2 DEF Apart
    <2> QED BY <2>3, <2>4
<1>9. \A s \in Slots : UserCallOK(after[s])
    BY <1>4, <1>5
<1>10. DOMAIN after = Slots
    BY <1>2 DEF IsPosted
<1>11. Follows(calls, call, after)
    BY <1>3, <1>5, <1>6, <1>7, <1>8, <1>9, <1>10 DEF Follows
<1> QED BY <1>0, <1>11

-----------------------------------------------------------------------------

\* A request for a list is a call that writes nothing.
LEMMA FreshList ==
    ASSUME NEW page, NEW filter, NEW call, call = [op |-> "list", page |-> page, filter |-> filter, left |-> FALSE]
    PROVE  /\ IsFresh(call) /\ call.op \notin RecordWriters /\ "op" \in DOMAIN call
           /\ DOMAIN call = {"op", "page", "filter", "left"}
           /\ call.op = "list" /\ call.page = page /\ call.filter = filter /\ call.left = FALSE
<1>1. /\ DOMAIN call = {"op", "page", "filter", "left"}
      /\ call.op = "list" /\ call.page = page /\ call.filter = filter /\ call.left = FALSE
    OBVIOUS
<1>2. ASSUME NEW next, DOMAIN next = DOMAIN call \cup {"answer", "alone"}, next.answer = Unanswered,
             \A f \in DOMAIN call : next[f] = call[f]
      PROVE  UserCallOK(next)
    <2>1. next.op = "list"
        BY <1>1, <1>2
    <2> QED BY <1>1, <1>2, <2>1 DEF UserCallOK, IsCall, UserOps, RecordWriters
<1>3. IsFresh(call)
    BY <1>1, <1>2 DEF IsFresh
<1> QED BY <1>1, <1>3 DEF RecordWriters

\* A request for a record is a call that may answer over a write.
LEMMA FreshDetail ==
    ASSUME NEW user \in Users, NEW first \in BOOLEAN, NEW after \in BOOLEAN, NEW left, NEW call,
           call = [op |-> "detail", user |-> user, first |-> first, after |-> after, left |-> left]
    PROVE  /\ IsFresh(call) /\ call.op \in RecordWriters
           /\ DOMAIN call = {"op", "user", "first", "after", "left"}
           /\ call.op = "detail" /\ call.user = user /\ call.after = after /\ call.left = left
<1>1. /\ DOMAIN call = {"op", "user", "first", "after", "left"}
      /\ call.op = "detail" /\ call.user = user /\ call.after = after /\ call.left = left
    OBVIOUS
<1>2. ASSUME NEW next, DOMAIN next = DOMAIN call \cup {"answer", "alone"}, next.answer = Unanswered,
             \A f \in DOMAIN call : next[f] = call[f]
      PROVE  UserCallOK(next)
    <2>1. next.op = "detail" /\ next.user = user /\ ~Succeeds(next)
        BY <1>1, <1>2 DEF Succeeds, Unanswered
    <2> QED BY <1>1, <1>2, <2>1 DEF UserCallOK, IsCall, UserOps, RecordWriters
<1>3. IsFresh(call)
    BY <1>1, <1>2 DEF IsFresh
<1> QED BY <1>1, <1>3 DEF RecordWriters

\* Another page is visited: it starts with a request of its own, and nobody listens to the
\* others.
LEMMA VisitsUsers ==
    ASSUME NEW calls, DOMAIN calls = Slots, \A s \in Slots : UserCallOK(calls[s]), Apart(calls),
           \A s \in Slots : AloneIsNew(calls[s]),
           NEW next, DOMAIN next = {"page", "filter", "user"}, next.user \in Users \cup {None},
           Visit(next, calls), UNCHANGED <<accounts, listing, listFailed>>, UsersTypeInv, UsersSelfInv
    PROVE  UsersInv'
<1>1. PICK old : old = Dropped(calls)
    OBVIOUS
<1>2. /\ DOMAIN old = Slots
      /\ \A s \in Slots :
           /\ UserCallOK(old[s]) /\ old[s].op = calls[s].op
           /\ ~IsListed(old[s]) /\ ~IsUserChange(old[s])
           /\ IsWriter(calls[s]) =>
                 old[s].left /\ old[s].user = calls[s].user /\ old[s].alone = calls[s].alone
                 /\ old[s].answer = calls[s].answer
    BY <1>1, DroppedCalls
<1>3. Free(old) # {}
    BY <1>2 DEF Visit, Free, Busy
<1>4. Apart(old)
    BY <1>2 DEF Apart, IsWriter
<1>5. \A s \in Slots : AloneIsNew(old[s])
    BY <1>2 DEF AloneIsNew, IsWriter, Succeeds
<1>6. /\ place' = next
      /\ record' = FreshRecord /\ pending' = FALSE /\ userModal' = None /\ temporary' = None
      /\ listSure' = TRUE /\ recordSure' = FALSE
    BY DEF Visit
<1>7. PICK call : \/ /\ next.user = None
                     /\ call = [op |-> "list", page |-> next.page, filter |-> next.filter, left |-> FALSE]
                  \/ /\ next.user # None
                     /\ call = [op |-> "detail", user |-> next.user, first |-> TRUE, after |-> FALSE, left |-> FALSE]
    OBVIOUS
<1>8. /\ IsFresh(call) /\ call.left = FALSE /\ {"op", "left"} \subseteq DOMAIN call
      /\ next.user = None => /\ call.op = "list" /\ call.page = next.page /\ call.filter = next.filter
                             /\ call.op \notin RecordWriters /\ {"page", "filter"} \subseteq DOMAIN call
      /\ next.user # None => /\ call.op = "detail" /\ call.user = next.user /\ call.after = FALSE
                             /\ {"user", "after"} \subseteq DOMAIN call
    <2>1. CASE next.user = None
        <3>1. call = [op |-> "list", page |-> next.page, filter |-> next.filter, left |-> FALSE]
            BY <1>7, <2>1
        <3> QED BY <2>1, <3>1, FreshList
    <2>2. CASE next.user # None
        <3>1. call = [op |-> "detail", user |-> next.user, first |-> TRUE, after |-> FALSE, left |-> FALSE]
            BY <1>7, <2>2
        <3>2. \E user \in Users, first \in BOOLEAN, after \in BOOLEAN : \E left :
                 /\ call = [op |-> "detail", user |-> user, first |-> first, after |-> after, left |-> left]
                 /\ user = next.user /\ after = FALSE /\ left = FALSE
            BY <2>2, <3>1
        <3>3. /\ IsFresh(call) /\ DOMAIN call = {"op", "user", "first", "after", "left"}
              /\ call.op = "detail" /\ call.user = next.user /\ call.after = FALSE /\ call.left = FALSE
            BY <3>2, FreshDetail
        <3> QED BY <2>2, <3>3
    <2> QED BY <2>1, <2>2
<1>9. Follows(old, call, userCalls')
    <2>1. CASE next.user = None
        <3>1. userCalls' = Post(old, call, {})
            BY <1>1, <1>7, <2>1 DEF Visit
        <3> QED BY <1>2, <1>3, <1>4, <1>8, <2>1, <3>1, PostedUsers
    <2>2. CASE next.user # None
        <3>1. userCalls' = Post(old, call, RecordWriters)
            BY <1>1, <1>7, <2>2 DEF Visit
        <3> QED BY <1>2, <1>3, <1>4, <1>8, <3>1, PostedUsers
    <2> QED BY <2>1, <2>2
<1>10. DOMAIN userCalls' = Slots /\ (\A s \in Slots : UserCallOK(userCalls'[s])) /\ Apart(userCalls')
    BY <1>9 DEF Follows
<1>11. PICK slot \in Slots :
          /\ \A f \in DOMAIN call : userCalls'[slot][f] = call[f]
          /\ ~Succeeds(userCalls'[slot])
          /\ \A t \in Slots \ {slot} :
                /\ userCalls'[t].op = old[t].op
                /\ userCalls'[t].op # "idle" => userCalls'[t].left = old[t].left /\ userCalls'[t].answer = old[t].answer
                /\ ~IsListed(userCalls'[t]) /\ ~IsUserChange(userCalls'[t])
                /\ IsWriter(userCalls'[t]) <=> IsWriter(old[t])
                /\ IsWriter(old[t]) /\ userCalls'[t].alone => userCalls'[t] = old[t]
    BY <1>2, <1>9 DEF Follows
<1>12. PICK made : made = userCalls'[slot]
    OBVIOUS
<1>13. /\ made.op = call.op /\ made.left = FALSE /\ ~Succeeds(made)
       /\ next.user = None => made.op = "list" /\ made.page = next.page /\ made.filter = next.filter
       /\ next.user # None => made.op = "detail" /\ made.user = next.user /\ made.after = FALSE
    BY <1>8, <1>11, <1>12
<1>14. ~IsUserChange(made) /\ (IsListed(made) <=> next.user = None) /\ (IsWriter(made) <=> next.user # None)
    BY <1>13 DEF IsUserChange, IsListed, IsWriter, RecordWriters
<1>15. \A s \in Slots \ {slot} : IsWriter(userCalls'[s]) => userCalls'[s].left
    <2>1. \A s \in Slots \ {slot} : IsWriter(userCalls'[s]) => IsWriter(old[s]) /\ userCalls'[s].left = old[s].left
        BY <1>11, UserNames DEF IsWriter
    <2> QED BY <1>2, <2>1 DEF IsWriter
<1>16. UsersTypeInv'
    BY <1>6, <1>10 DEF UsersTypeInv, FreshRecord
<1>17. UsersSelfInv'
    BY <1>6, UserNames DEF UsersSelfInv, FreshRecord
<1>18. UsersListInv'
    <2>1. \A s \in Slots : IsListed(userCalls'[s]) <=> s = slot /\ next.user = None
        BY <1>11, <1>12, <1>14
    <2>2. \A s \in Slots : IsListed(userCalls[s])' <=> IsListed(userCalls'[s])
        BY DEF IsListed
    <2>3. \A s \in Slots : Succeeds(userCalls[s])' <=> Succeeds(userCalls'[s])
        BY DEF Succeeds
    <2> QED BY <1>6, <1>12, <1>13, <2>1, <2>2, <2>3 DEF UsersListInv
<1>19. UsersChangeInv'
    <2>1. \A s \in Slots : ~IsUserChange(userCalls[s])'
        BY <1>11, <1>12, <1>14 DEF IsUserChange
    <2>2. \A s \in Slots : IsWriter(userCalls[s])' <=> IsWriter(userCalls'[s])
        BY DEF IsWriter
    <2> QED BY <1>6, <1>12, <1>13, <1>14, <1>15, <2>1, <2>2 DEF UsersChangeInv
<1>20. UsersRecordInv'
    <2>1. \A s \in Slots : AloneIsNew(userCalls[s])'
        <3>1. AloneIsNew(userCalls[slot])'
            BY <1>12, <1>13 DEF AloneIsNew, Succeeds
        <3>2. ASSUME NEW t \in Slots \ {slot} PROVE AloneIsNew(userCalls[t])'
            <4>1. PICK present : present = userCalls'[t]
                OBVIOUS
            <4>2. CASE IsWriter(present) /\ present.alone
                <5>1. IsWriter(old[t]) /\ present = old[t]
                    BY <1>11, <4>1, <4>2
                <5> QED BY <1>5, <4>1, <5>1 DEF AloneIsNew, Succeeds
            <4>3. CASE ~(IsWriter(present) /\ present.alone)
                BY <4>1, <4>3 DEF AloneIsNew, IsWriter
            <4> QED BY <4>2, <4>3
        <3> QED BY <3>1, <3>2
    <2>2. Apart(userCalls)'
        BY <1>10 DEF Apart, IsWriter
    <2> QED BY <1>6, <2>1, <2>2 DEF UsersRecordInv, Apart
<1>21. UsersTemporaryInv'
    <2>1. \A s \in Slots : ~(userCalls'[s].op = "reset" /\ ~userCalls'[s].left)
        BY <1>12, <1>13, <1>15 DEF IsWriter, RecordWriters
    <2> QED BY <1>6, <2>1 DEF UsersTemporaryInv
<1> QED BY <1>16, <1>17, <1>18, <1>19, <1>20, <1>21 DEF UsersInv

\* A handler that ended is none of the others.
LEMMA EndedUsers ==
    ASSUME UsersInv, NEW s \in Slots, NEW calls, calls = End(userCalls, s)
    PROVE  /\ DOMAIN calls = Slots /\ \A t \in Slots : UserCallOK(calls[t])
           /\ Apart(calls) /\ \A t \in Slots : AloneIsNew(calls[t])
           /\ calls[s].op = "idle" /\ ~IsListed(calls[s]) /\ ~IsWriter(calls[s]) /\ ~IsUserChange(calls[s])
           /\ \A t \in Slots : t # s => calls[t] = userCalls[t]
<1>1. DOMAIN calls = Slots /\ \A t \in Slots : calls[t] = IF t = s THEN NoCall ELSE userCalls[t]
    BY EndedCalls DEF UsersInv, UsersTypeInv
<1>2. /\ UserCallOK(NoCall) /\ ~IsListed(NoCall) /\ ~IsWriter(NoCall) /\ ~IsUserChange(NoCall)
      /\ NoCall.op = "idle" /\ AloneIsNew(NoCall)
    BY UserNames DEF UserCallOK, IsCall, NoCall, IsListed, IsWriter, IsUserChange, RecordWriters, AloneIsNew
<1>3. \A t \in Slots : UserCallOK(userCalls[t]) /\ AloneIsNew(userCalls[t])
    BY DEF UsersInv, UsersTypeInv, UsersRecordInv
<1>4. Apart(userCalls)
    BY DEF UsersInv, UsersRecordInv, Apart
<1>5. \A t \in Slots : UserCallOK(calls[t]) /\ AloneIsNew(calls[t])
    BY <1>1, <1>2, <1>3
<1>6. Apart(calls)
    BY <1>1, <1>2, <1>4 DEF Apart
<1> QED BY <1>1, <1>2, <1>5, <1>6

\* Another address: what belonged to the last one is dropped.
LEMMA VisitKeeps ==
    ASSUME UsersInv, NEW next, DOMAIN next = {"page", "filter", "user"}, next.user \in Users \cup {None},
           Visiting(next)
    PROVE  UsersInv'
<1>1. DOMAIN userCalls = Slots /\ \A s \in Slots : UserCallOK(userCalls[s]) /\ AloneIsNew(userCalls[s])
    BY DEF UsersInv, UsersTypeInv, UsersRecordInv
<1>2. Apart(userCalls)
    BY DEF UsersInv, UsersRecordInv, Apart
<1>3. Visit(next, userCalls) /\ UNCHANGED <<accounts, listing, listFailed>>
    BY DEF Visiting, shownList
<1> QED BY <1>1, <1>2, <1>3, VisitsUsers DEF UsersInv

\* The form and the dialogs of the page.
LEMMA LocalKeeps ==
    ASSUME UsersInv, NEW limit, NEW role, NEW dialog \in {"password", "delete", "role"},
           EditForm(limit, role) \/ OpenUserModal(dialog) \/ CloseUserModal \/ OpenNewUser \/ CloseNewUser
    PROVE  UsersInv'
<1>1. UNCHANGED <<accounts, place, listing, listFailed, pending, userCalls, listSure, recordSure>>
    BY DEF EditForm, OpenUserModal, CloseUserModal, OpenNewUser, CloseNewUser, ListAround, shownList, card
<1>2. /\ DOMAIN record' = DOMAIN record /\ record'.shown = record.shown
      /\ place.user = Self /\ record.shown # None => record'.role = "admin"
    <2>1. CASE EditForm(limit, role)
        <3>1. record' = [record EXCEPT !.limit = limit, !.role = role]
            BY <2>1 DEF EditForm
        <3>2. place.user = Self => role = record.role
            BY <2>1 DEF EditForm, IsSelf
        <3> QED BY <3>1, <3>2 DEF UsersInv, UsersTypeInv, UsersSelfInv
    <2>2. CASE ~EditForm(limit, role)
        <3>1. record' = record
            BY <2>2 DEF OpenUserModal, CloseUserModal, OpenNewUser, CloseNewUser, card
        <3> QED BY <3>1 DEF UsersInv, UsersSelfInv
    <2> QED BY <2>1, <2>2
<1>3. /\ place.user = Self => userModal' # "delete"
      /\ \/ UNCHANGED <<userModal, temporary>>
         \/ temporary' = None /\ userModal = None
         \/ temporary' = None /\ ~pending
    BY UserNames DEF EditForm, OpenUserModal, CloseUserModal, MayClose, IsSelf, OpenNewUser, CloseNewUser, card,
                     UsersInv, UsersSelfInv
<1>4. \A s \in Slots : UserCallOK(userCalls[s])'
    BY <1>1 DEF UsersInv, UsersTypeInv, UserCallOK, IsCall, Succeeds
<1>5. UsersTypeInv'
    BY <1>1, <1>2, <1>4 DEF UsersInv, UsersTypeInv
<1>6. UsersSelfInv'
    BY <1>1, <1>2, <1>3 DEF UsersInv, UsersSelfInv
<1>7. UsersListInv'
    <2>1. UsersPage(place.page, place.filter)' = UsersPage(place.page, place.filter)
        BY <1>1 DEF UsersPage, Matching
    <2> QED BY <1>1, <2>1 DEF UsersInv, UsersListInv, IsListed, Succeeds
<1>8. UsersChangeInv'
    BY <1>1 DEF UsersInv, UsersChangeInv, IsUserChange, IsWriter
<1>9. UsersRecordInv'
    BY <1>1, <1>2 DEF UsersInv, UsersRecordInv, AloneIsNew, IsWriter, Succeeds
<1>10. UsersTemporaryInv'
    <2>1. \A s \in Slots : userCalls[s].op = "reset" /\ ~userCalls[s].left => pending /\ userModal # None
        BY UserNames DEF UsersInv, UsersTemporaryInv, UsersChangeInv, IsUserChange
    <2> QED BY <1>1, <1>3, <2>1 DEF UsersInv, UsersTemporaryInv
<1> QED BY <1>5, <1>6, <1>7, <1>8, <1>9, <1>10 DEF UsersInv

\* A list comes.
LEMMA LandListKeeps ==
    ASSUME UsersInv, NEW s \in Slots, LandList(s)
    PROVE  UsersInv'
<1>1. PICK call : call = userCalls[s]
    OBVIOUS
<1>2. /\ call.op = "list" /\ userCalls' = End(userCalls, s)
      /\ UNCHANGED <<accounts, place, record, pending, userModal, temporary, listSure, recordSure>>
    BY <1>1 DEF LandList, card
<1>3. UserCallOK(call) /\ ~IsWriter(call) /\ ~IsUserChange(call)
    BY <1>1, <1>2, UserNames DEF UsersInv, UsersTypeInv, IsWriter, IsUserChange, RecordWriters
<1>4. /\ DOMAIN userCalls' = Slots /\ \A t \in Slots : UserCallOK(userCalls'[t])
      /\ Apart(userCalls') /\ \A t \in Slots : AloneIsNew(userCalls'[t])
      /\ userCalls'[s].op = "idle"
      /\ ~IsListed(userCalls'[s]) /\ ~IsWriter(userCalls'[s]) /\ ~IsUserChange(userCalls'[s])
      /\ \A t \in Slots : t # s => userCalls'[t] = userCalls[t]
    BY <1>2, EndedUsers
<1>5. /\ call.left => UNCHANGED <<listing, listFailed>>
      /\ ~call.left => /\ listing' = IF Succeeds(call) THEN call.answer.body ELSE listing
                       /\ listFailed' = ~Succeeds(call)
    BY <1>1 DEF LandList, StillAsked, shownList
<1>6. listFailed' \in BOOLEAN
    BY <1>5 DEF UsersInv, UsersTypeInv
<1>7. \A t \in Slots : /\ IsListed(userCalls[t])' <=> t # s /\ IsListed(userCalls[t])
                       /\ IsWriter(userCalls[t])' <=> IsWriter(userCalls[t])
                       /\ IsUserChange(userCalls[t])' <=> IsUserChange(userCalls[t])
    BY <1>1, <1>3, <1>4 DEF IsListed, IsWriter, IsUserChange
<1>8. \A t \in Slots : IsListed(userCalls[t])' \/ IsWriter(userCalls[t])' => t # s
    BY <1>1, <1>3, <1>7
<1>9. UsersTypeInv'
    BY <1>2, <1>4, <1>6 DEF UsersInv, UsersTypeInv
<1>10. UsersSelfInv'
    BY <1>2 DEF UsersInv, UsersSelfInv
<1>11. UsersListInv'
    <2>1. UsersPage(place.page, place.filter)' = UsersPage(place.page, place.filter)
        BY <1>2 DEF UsersPage, Matching
    <2>2. \A t \in Slots : IsListed(userCalls[t])' => IsListed(userCalls[t]) /\ userCalls'[t] = userCalls[t]
        BY <1>4, <1>7
    <2>3. \A t \in Slots : IsListed(userCalls[t])' =>
              /\ (place.user = None /\ userCalls[t].page = place.page /\ userCalls[t].filter = place.filter)'
              /\ (listSure /\ Succeeds(userCalls[t]))' =>
                    userCalls'[t].answer.body = UsersPage(place.page, place.filter)'
        BY <1>2, <2>1, <2>2 DEF UsersInv, UsersListInv, Succeeds
    <2>4. ASSUME place.user = None, listSure, ~listFailed', \A t \in Slots : ~IsListed(userCalls[t])'
          PROVE  listing' = UsersPage(place.page, place.filter)
        <3>1. CASE call.left
            <4>1. \A t \in Slots : ~IsListed(userCalls[t])
                BY <1>1, <1>7, <2>4, <3>1 DEF IsListed
            <4> QED BY <1>5, <2>4, <3>1, <4>1 DEF UsersInv, UsersListInv
        <3>2. CASE ~call.left
            <4>1. Succeeds(call) /\ listing' = call.answer.body
                BY <1>5, <2>4, <3>2
            <4>2. IsListed(userCalls[s])
                BY <1>1, <1>2, <3>2 DEF IsListed
            <4> QED BY <1>1, <2>4, <4>1, <4>2 DEF UsersInv, UsersListInv
        <3> QED BY <3>1, <3>2
    <2> QED BY <1>2, <2>1, <2>3, <2>4 DEF UsersListInv
<1>12. UsersChangeInv'
    BY <1>2, <1>4, <1>7, <1>8 DEF UsersInv, UsersChangeInv
<1>13. UsersRecordInv'
    <2>1. \A t \in Slots : AloneIsNew(userCalls[t])'
        BY <1>2, <1>4 DEF AloneIsNew, IsWriter, Succeeds
    <2> QED BY <1>2, <1>4, <1>7, <1>8, <2>1 DEF UsersInv, UsersRecordInv
<1>14. UsersTemporaryInv'
    <2>1. \A t \in Slots : userCalls'[t].op \in {"reset", "delete"} => userCalls'[t] = userCalls[t]
        BY <1>4
    <2> QED BY <1>2, <2>1 DEF UsersInv, UsersTemporaryInv
<1> QED BY <1>9, <1>10, <1>11, <1>12, <1>13, <1>14 DEF UsersInv

-----------------------------------------------------------------------------
\* Whether a request that starts keeps the page pending.
Locks(call) ==
    /\ call.op \in {"patch", "reset", "delete", "refresh"} \/ (call.op = "detail" /\ call.after)
    /\ ~call.left

\* A request that starts on the page that is shown.
LEMMA BegunUsers ==
    ASSUME UsersInv, NEW calls, DOMAIN calls = Slots, \A t \in Slots : UserCallOK(calls[t]),
           \A t \in Slots : AloneIsNew(calls[t]),
           NEW call, IsFresh(call), call.op \in {"detail", "patch", "reset", "delete", "refresh", "create"},
           Follows(calls, call, userCalls'),
           UNCHANGED <<accounts, place, listing, listFailed, listSure>>,
           \A t \in Slots : /\ IsListed(calls[t]) <=> IsListed(userCalls[t])
                            /\ IsListed(calls[t]) \/ IsWriter(calls[t]) => calls[t] = userCalls[t],
           pending' \in BOOLEAN,
           \/ /\ Locks(call) /\ pending' = TRUE /\ \A t \in Slots : ~IsUserChange(calls[t])
           \/ /\ ~Locks(call) /\ pending' = pending
              /\ \A t \in Slots : IsUserChange(calls[t]) <=> IsUserChange(userCalls[t]),
           call.op # "create" =>
              /\ {"user"} \subseteq DOMAIN call /\ (~call.left => call.user = place.user)
              /\ recordSure' => recordSure /\ ~call.left,
           call.op = "detail" => "after" \in DOMAIN call,
           call.op = "create" =>
              /\ UNCHANGED recordSure /\ record'.shown = record.shown
              /\ \A t \in Slots : IsWriter(calls[t]) <=> IsWriter(userCalls[t])
    PROVE  /\ UsersListInv' /\ UsersChangeInv' /\ UsersRecordInv'
           /\ DOMAIN userCalls' = Slots /\ \A t \in Slots : UserCallOK(userCalls'[t])
<1>1. DOMAIN userCalls' = Slots /\ (\A s \in Slots : UserCallOK(userCalls'[s])) /\ Apart(userCalls')
    BY DEF Follows
<1>2. PICK slot \in Slots :
          /\ calls[slot].op = "idle"
          /\ \A f \in DOMAIN call : userCalls'[slot][f] = call[f]
          /\ ~Succeeds(userCalls'[slot])
          /\ \A t \in Slots \ {slot} :
                /\ userCalls'[t].op # "idle" => userCalls'[t].left = calls[t].left /\ userCalls'[t].answer = calls[t].answer
                /\ userCalls'[t].op = calls[t].op
                /\ IsListed(userCalls'[t]) <=> IsListed(calls[t])
                /\ IsListed(calls[t]) => userCalls'[t].page = calls[t].page /\ userCalls'[t].filter = calls[t].filter
                /\ IsWriter(userCalls'[t]) <=> IsWriter(calls[t])
                /\ IsWriter(calls[t]) => userCalls'[t].user = calls[t].user
                /\ IsWriter(calls[t]) /\ userCalls'[t].alone => userCalls'[t] = calls[t]
                /\ IsUserChange(userCalls'[t]) <=> IsUserChange(calls[t])
    BY DEF Follows
<1>3. PICK made : made = userCalls'[slot]
    OBVIOUS
<1>4. /\ made.op = call.op /\ made.left = call.left /\ ~Succeeds(made)
      /\ call.op # "create" => made.user = call.user
      /\ call.op = "detail" => made.after = call.after
    BY <1>2, <1>3 DEF IsFresh
<1>5. /\ IsUserChange(made) <=> Locks(call)
      /\ ~IsListed(made) /\ (IsWriter(made) <=> call.op # "create")
    BY <1>4 DEF IsUserChange, Locks, IsListed, IsWriter, RecordWriters
<1>6. ~IsListed(calls[slot]) /\ ~IsWriter(calls[slot]) /\ ~IsUserChange(calls[slot])
    BY <1>2, UserNames DEF IsListed, IsWriter, IsUserChange
<1>7. \A t \in Slots : /\ IsListed(userCalls[t])' <=> IsListed(userCalls'[t])
                       /\ IsWriter(userCalls[t])' <=> IsWriter(userCalls'[t])
                       /\ IsUserChange(userCalls[t])' <=> IsUserChange(userCalls'[t])
                       /\ Succeeds(userCalls[t])' <=> Succeeds(userCalls'[t])
    BY DEF IsListed, IsWriter, IsUserChange, Succeeds
<1>8. UsersListInv'
    <2>1. UsersPage(place.page, place.filter)' = UsersPage(place.page, place.filter)
        BY DEF UsersPage, Matching
    <2>2. \A t \in Slots : IsListed(userCalls'[t]) <=> IsListed(userCalls[t])
        BY <1>2, <1>3, <1>5, <1>6
    <2>3. ASSUME NEW t \in Slots, IsListed(userCalls'[t])
          PROVE  /\ userCalls'[t].page = userCalls[t].page /\ userCalls'[t].filter = userCalls[t].filter
                 /\ userCalls'[t].answer = userCalls[t].answer
        <3>1. t # slot /\ calls[t] = userCalls[t] /\ IsListed(calls[t])
            BY <1>3, <1>5, <2>2, <2>3
        <3> QED BY <1>2, <2>3, <3>1, UserNames DEF IsListed
    <2>4. \A t \in Slots : IsListed(userCalls'[t]) => (Succeeds(userCalls'[t]) <=> Succeeds(userCalls[t]))
        BY <2>3 DEF Succeeds
    <2> QED BY <1>7, <2>1, <2>2, <2>3, <2>4 DEF UsersInv, UsersListInv
<1>9. UsersChangeInv'
    <2>1. pending' <=> \E t \in Slots : IsUserChange(userCalls'[t])
        BY <1>2, <1>3, <1>5, <1>6 DEF UsersInv, UsersChangeInv
    <2>2. \A s, t \in Slots : IsUserChange(userCalls'[s]) /\ IsUserChange(userCalls'[t]) => s = t
        BY <1>2, <1>3, <1>5, <1>6 DEF UsersInv, UsersChangeInv
    <2>3. ASSUME NEW t \in Slots, IsWriter(userCalls'[t]), ~userCalls'[t].left
          PROVE  place.user = userCalls'[t].user
        <3>1. CASE t = slot
            BY <1>3, <1>4, <1>5, <2>3, <3>1
        <3>2. CASE t # slot
            <4>1. IsWriter(calls[t]) /\ calls[t] = userCalls[t]
                BY <1>2, <2>3, <3>2
            <4>2. userCalls'[t].op # "idle"
                BY <2>3, UserNames DEF IsWriter
            <4>3. ~userCalls[t].left /\ userCalls'[t].user = userCalls[t].user
                BY <1>2, <2>3, <3>2, <4>1, <4>2
            <4> QED BY <4>1, <4>3 DEF UsersInv, UsersChangeInv
        <3> QED BY <3>1, <3>2
    <2> QED BY <1>7, <2>1, <2>2, <2>3 DEF UsersChangeInv
<1>10. UsersRecordInv'
    <2>1. \A s \in Slots : AloneIsNew(userCalls[s])'
        <3>1. AloneIsNew(userCalls[slot])'
            BY <1>3, <1>4 DEF AloneIsNew, Succeeds
        <3>2. ASSUME NEW t \in Slots \ {slot} PROVE AloneIsNew(userCalls[t])'
            <4>1. PICK present : present = userCalls'[t]
                OBVIOUS
            <4>2. CASE IsWriter(present) /\ present.alone
                <5>1. IsWriter(calls[t]) /\ present = calls[t]
                    BY <1>2, <4>1, <4>2
                <5> QED BY <4>1, <5>1 DEF AloneIsNew, Succeeds
            <4>3. CASE ~(IsWriter(present) /\ present.alone)
                BY <4>1, <4>3 DEF AloneIsNew, IsWriter
            <4> QED BY <4>2, <4>3
        <3> QED BY <3>1, <3>2
    <2>2. \A s, t \in Slots : IsWriter(userCalls'[s]) /\ IsWriter(userCalls'[t]) /\ userCalls'[s].alone => s = t
        BY <1>1 DEF Apart
    <2>3. ASSUME recordSure', NEW s \in Slots, IsWriter(userCalls'[s])
          PROVE  ~userCalls'[s].left
        <3>1. CASE s = slot
            BY <1>3, <1>4, <1>5, <2>3, <3>1
        <3>2. CASE s # slot
            <4>1. IsWriter(calls[s]) /\ calls[s] = userCalls[s]
                BY <1>2, <2>3, <3>2
            <4>2. userCalls'[s].op # "idle"
                BY <2>3, UserNames DEF IsWriter
            <4>3. userCalls'[s].left = userCalls[s].left
                BY <1>2, <3>2, <4>1, <4>2
            <4>4. recordSure
                BY <2>3
            <4> QED BY <4>1, <4>3, <4>4 DEF UsersInv, UsersRecordInv
        <3> QED BY <3>1, <3>2
    <2>4. ASSUME recordSure', \A s \in Slots : ~IsWriter(userCalls'[s])
          PROVE  accounts[place.user].there /\ record'.shown = accounts[place.user]
        <3>1. call.op = "create" /\ recordSure /\ record'.shown = record.shown
            BY <1>3, <1>5, <2>4
        <3>2. \A t \in Slots : ~IsWriter(userCalls[t])
            BY <1>2, <1>6, <2>4, <3>1
        <3> QED BY <3>1, <3>2 DEF UsersInv, UsersRecordInv
    <2>5. recordSure' => place.user \in Users
        BY DEF UsersInv, UsersRecordInv
    <2> QED BY <1>7, <2>1, <2>2, <2>3, <2>4, <2>5 DEF UsersRecordInv
<1> QED BY <1>1, <1>8, <1>9, <1>10

\* What the request leaves of the two conjuncts that look at single operations.
LEMMA BegunOps ==
    ASSUME NEW calls, NEW call, NEW after, IsFresh(call), Follows(calls, call, after),
           NEW t \in Slots, after[t].op \in {"reset", "delete"}
    PROVE  \/ after[t].op = call.op /\ after[t].left = call.left
           \/ calls[t].op = after[t].op /\ calls[t].left = after[t].left
BY DEF Follows, IsFresh

\* One change at a time is sent for the user at the address.
LEMMA SendKeeps ==
    ASSUME UsersInv, NEW call, SendUserChange(call), place.user # None,
           \/ /\ DOMAIN call = {"op", "values"} /\ call.op = "patch"
              /\ DOMAIN call.values \subseteq {"enabled", "refresh", "limit", "role"}
              /\ place.user = Self => /\ "enabled" \notin DOMAIN call.values
                                      /\ "role" \in DOMAIN call.values => call.values.role = "admin"
           \/ DOMAIN call = {"op"} /\ call.op = "refresh"
           \/ DOMAIN call = {"op"} /\ call.op = "reset" /\ userModal = "password" /\ temporary = None
           \/ DOMAIN call = {"op"} /\ call.op = "delete" /\ userModal = "delete"
    PROVE  UsersInv'
<1>1. PICK own : own = [user |-> place.user, left |-> FALSE]
    OBVIOUS
<1>2. PICK sent : sent = With(own, call)
    OBVIOUS
<1>3. /\ DOMAIN sent = {"user", "left"} \cup DOMAIN call
      /\ sent.user = place.user /\ sent.left = FALSE /\ sent.op = call.op
      /\ call.op = "patch" => sent.values = call.values
    <2>1. DOMAIN own = {"user", "left"} /\ own.user = place.user /\ own.left = FALSE
        BY <1>1
    <2>2. /\ DOMAIN sent = DOMAIN own \cup DOMAIN call /\ \A f \in DOMAIN own : sent[f] = own[f]
          /\ \A f \in DOMAIN call \ DOMAIN own : sent[f] = call[f]
        BY <1>2 DEF With
    <2> QED BY <2>1, <2>2
<1>4. /\ userCalls' = Post(userCalls, sent, RecordWriters) /\ Free(userCalls) # {}
      /\ ~pending /\ pending' = TRUE /\ record' = [record EXCEPT !.failed = @ /\ call.op # "patch"]
      /\ UNCHANGED <<accounts, place, listing, listFailed, listSure, userModal, temporary, recordSure>>
    BY <1>1, <1>2 DEF SendUserChange, Unpressed, ListAround, shownList
<1>5. place.user \in Users /\ (call.op = "delete" => place.user # Self)
    BY DEF UsersInv, UsersTypeInv, UsersSelfInv
<1>6. ASSUME NEW next, DOMAIN next = DOMAIN sent \cup {"answer", "alone"}, next.answer = Unanswered,
             \A f \in DOMAIN sent : next[f] = sent[f]
      PROVE  UserCallOK(next)
    <2>1. /\ next.op = call.op /\ next.user = place.user /\ next.left = FALSE /\ ~Succeeds(next)
          /\ call.op = "patch" => next.values = call.values
        BY <1>3, <1>6 DEF Succeeds, Unanswered
    <2> QED BY <1>3, <1>5, <1>6, <2>1 DEF UserCallOK, IsCall, UserOps, RecordWriters
<1>7. IsFresh(sent)
    BY <1>3, <1>6 DEF IsFresh
<1>8. /\ DOMAIN userCalls = Slots /\ \A t \in Slots : UserCallOK(userCalls[t]) /\ AloneIsNew(userCalls[t])
      /\ Apart(userCalls)
    BY DEF UsersInv, UsersTypeInv, UsersRecordInv, Apart
<1>9. Follows(userCalls, sent, userCalls')
    BY <1>4, <1>7, <1>8, PostedUsers
<1>10. Locks(sent) /\ \A t \in Slots : ~IsUserChange(userCalls[t])
    BY <1>3, <1>4 DEF Locks, UsersInv, UsersChangeInv
<1>11. DOMAIN record' = DOMAIN record /\ record'.shown = record.shown /\ record'.role = record.role
    BY <1>4 DEF UsersInv, UsersTypeInv
<1>12. /\ UsersListInv' /\ UsersChangeInv' /\ UsersRecordInv'
       /\ DOMAIN userCalls' = Slots /\ \A t \in Slots : UserCallOK(userCalls'[t])
    <2>1. sent.op \in {"detail", "patch", "reset", "delete", "refresh", "create"} /\ sent.op # "create"
          /\ sent.op # "detail"
        BY <1>3
    <2>2. {"user"} \subseteq DOMAIN sent /\ (~sent.left => sent.user = place.user)
          /\ (recordSure' => recordSure /\ ~sent.left)
        BY <1>3, <1>4
    <2>3. pending' \in BOOLEAN
        BY <1>4
    <2> QED BY <1>4, <1>7, <1>8, <1>9, <1>10, <2>1, <2>2, <2>3, BegunUsers
<1>13. UsersTypeInv'
    BY <1>4, <1>11, <1>12 DEF UsersInv, UsersTypeInv
<1>14. UsersSelfInv'
    BY <1>4, <1>11 DEF UsersInv, UsersSelfInv
<1>15. UsersTemporaryInv'
    <2>1. call.op \in {"reset", "delete"} => temporary = None
        BY DEF UsersInv, UsersTemporaryInv
    <2>2. \A t \in Slots : userCalls'[t].op \in {"reset", "delete"} =>
              \/ userCalls'[t].op = call.op
              \/ userCalls[t].op = userCalls'[t].op /\ userCalls[t].left = userCalls'[t].left
        BY <1>3, <1>7, <1>9, BegunOps
    <2>3. call.op = "reset" => userModal = "password"
        OBVIOUS
    <2> QED BY <1>4, <2>1, <2>2, <2>3 DEF UsersInv, UsersTemporaryInv
<1> QED BY <1>12, <1>13, <1>14, <1>15 DEF UsersInv

\* The record of the address is asked for.
LEMMA LoadDetailKeeps ==
    ASSUME UsersInv, LoadDetail
    PROVE  UsersInv'
<1>1. PICK call : call = [op |-> "detail", user |-> place.user, first |-> FALSE, after |-> FALSE, left |-> FALSE]
    OBVIOUS
<1>2. /\ userCalls' = Post(userCalls, call, RecordWriters) /\ Free(userCalls) # {} /\ place.user # None
      /\ UNCHANGED <<accounts, place, listing, listFailed, listSure, record, pending, userModal, temporary, recordSure>>
    BY <1>1 DEF LoadDetail, ListAround, shownList, card
<1>3. /\ IsFresh(call) /\ DOMAIN call = {"op", "user", "first", "after", "left"}
      /\ call.op = "detail" /\ call.user = place.user /\ call.after = FALSE /\ call.left = FALSE
    <2>1. place.user \in Users
        BY <1>2 DEF UsersInv, UsersTypeInv
    <2>2. \E user \in Users, first \in BOOLEAN, after \in BOOLEAN : \E left :
             /\ call = [op |-> "detail", user |-> user, first |-> first, after |-> after, left |-> left]
             /\ user = place.user /\ after = FALSE /\ left = FALSE
        BY <1>1, <2>1
    <2> QED BY <2>2, FreshDetail
<1>4. /\ DOMAIN userCalls = Slots /\ \A t \in Slots : UserCallOK(userCalls[t]) /\ AloneIsNew(userCalls[t])
      /\ Apart(userCalls)
    BY DEF UsersInv, UsersTypeInv, UsersRecordInv, Apart
<1>5. Follows(userCalls, call, userCalls')
    BY <1>2, <1>3, <1>4, PostedUsers
<1>6. /\ UsersListInv' /\ UsersChangeInv' /\ UsersRecordInv'
      /\ DOMAIN userCalls' = Slots /\ \A t \in Slots : UserCallOK(userCalls'[t])
    <2>1. ~Locks(call)
        BY <1>3 DEF Locks
    <2>2. call.op \in {"detail", "patch", "reset", "delete", "refresh", "create"} /\ call.op # "create"
          /\ {"user"} \subseteq DOMAIN call /\ "after" \in DOMAIN call /\ (recordSure' => recordSure /\ ~call.left)
        BY <1>2, <1>3
    <2>3. pending \in BOOLEAN
        BY DEF UsersInv, UsersTypeInv
    <2> QED BY <1>2, <1>3, <1>4, <1>5, <2>1, <2>2, <2>3, BegunUsers
<1>7. UsersTypeInv'
    BY <1>2, <1>6 DEF UsersInv, UsersTypeInv
<1>8. UsersSelfInv'
    BY <1>2 DEF UsersInv, UsersSelfInv
<1>9. UsersTemporaryInv'
    <2>1. \A t \in Slots : userCalls'[t].op \in {"reset", "delete"} =>
              userCalls[t].op = userCalls'[t].op /\ userCalls[t].left = userCalls'[t].left
        BY <1>3, <1>5, BegunOps
    <2> QED BY <1>2, <2>1 DEF UsersInv, UsersTemporaryInv
<1> QED BY <1>6, <1>7, <1>8, <1>9 DEF UsersInv

\* An account is asked for.
LEMMA CreateKeeps ==
    ASSUME UsersInv, CreateUser
    PROVE  UsersInv'
<1>1. PICK role \in {"user", "admin"} :
          userCalls' = Post(userCalls, [op |-> "create", role |-> role, left |-> FALSE], {})
    BY DEF CreateUser
<1>2. PICK call : call = [op |-> "create", role |-> role, left |-> FALSE]
    OBVIOUS
<1>3. /\ userCalls' = Post(userCalls, call, {}) /\ Free(userCalls) # {}
      /\ UNCHANGED <<accounts, place, listing, listFailed, listSure, record, pending, userModal, temporary, recordSure>>
    BY <1>1, <1>2 DEF CreateUser, shownList, card
<1>4. DOMAIN call = {"op", "role", "left"} /\ call.op = "create" /\ call.left = FALSE
    BY <1>2
<1>5. IsFresh(call)
    <2>1. ASSUME NEW next, DOMAIN next = DOMAIN call \cup {"answer", "alone"}, next.answer = Unanswered,
                 \A f \in DOMAIN call : next[f] = call[f]
          PROVE  UserCallOK(next)
        <3>1. next.op = "create" /\ next.left = FALSE /\ ~Succeeds(next)
            BY <1>4, <2>1 DEF Succeeds, Unanswered
        <3> QED BY <1>4, <2>1, <3>1 DEF UserCallOK, IsCall, UserOps, RecordWriters
    <2> QED BY <1>4, <2>1 DEF IsFresh
<1>6. /\ DOMAIN userCalls = Slots /\ \A t \in Slots : UserCallOK(userCalls[t]) /\ AloneIsNew(userCalls[t])
      /\ Apart(userCalls)
    BY DEF UsersInv, UsersTypeInv, UsersRecordInv, Apart
<1>7. Follows(userCalls, call, userCalls')
    <2>1. call.op \notin RecordWriters
        BY <1>4 DEF RecordWriters
    <2>2. \E writers : writers = {} /\ userCalls' = Post(userCalls, call, writers)
        BY <1>3
    <2> QED BY <1>3, <1>5, <1>6, <2>1, <2>2, PostedUsers
<1>8. /\ UsersListInv' /\ UsersChangeInv' /\ UsersRecordInv'
      /\ DOMAIN userCalls' = Slots /\ \A t \in Slots : UserCallOK(userCalls'[t])
    <2>1. ~Locks(call)
        BY <1>4 DEF Locks
    <2>2. call.op \in {"detail", "patch", "reset", "delete", "refresh", "create"} /\ call.op = "create"
          /\ call.op # "detail" /\ record'.shown = record.shown
        BY <1>3, <1>4
    <2>3. pending \in BOOLEAN
        BY DEF UsersInv, UsersTypeInv
    <2> QED BY <1>3, <1>5, <1>6, <1>7, <2>1, <2>2, <2>3, BegunUsers
<1>9. UsersTypeInv'
    BY <1>3, <1>8 DEF UsersInv, UsersTypeInv
<1>10. UsersSelfInv'
    BY <1>3 DEF UsersInv, UsersSelfInv
<1>11. UsersTemporaryInv'
    <2>1. \A t \in Slots : userCalls'[t].op \in {"reset", "delete"} =>
              userCalls[t].op = userCalls'[t].op /\ userCalls[t].left = userCalls'[t].left
        BY <1>4, <1>5, <1>7, BegunOps
    <2> QED BY <1>3, <2>1 DEF UsersInv, UsersTemporaryInv
<1> QED BY <1>8, <1>9, <1>10, <1>11 DEF UsersInv

\* A handler ends that is no load of the list.
LEMMA EndedChange ==
    ASSUME UsersInv, NEW s \in Slots, userCalls[s].op # "list", NEW calls, calls = End(userCalls, s)
    PROVE  /\ \A t \in Slots : /\ IsListed(calls[t]) <=> IsListed(userCalls[t])
                               /\ IsListed(calls[t]) \/ IsWriter(calls[t]) => calls[t] = userCalls[t]
           /\ IsUserChange(userCalls[s]) => \A t \in Slots : ~IsUserChange(calls[t])
           /\ ~IsUserChange(userCalls[s]) =>
                 \A t \in Slots : IsUserChange(calls[t]) <=> IsUserChange(userCalls[t])
<1>1. /\ DOMAIN calls = Slots
      /\ calls[s].op = "idle" /\ ~IsListed(calls[s]) /\ ~IsWriter(calls[s]) /\ ~IsUserChange(calls[s])
      /\ \A t \in Slots : t # s => calls[t] = userCalls[t]
    BY EndedUsers
<1>2. ~IsListed(userCalls[s])
    BY DEF IsListed
<1> QED BY <1>1, <1>2 DEF UsersInv, UsersChangeInv

\* A record comes.
LEMMA LandDetailKeeps ==
    ASSUME UsersInv, NEW s \in Slots, LandDetail(s)
    PROVE  UsersInv'
<1>1. PICK call : call = userCalls[s]
    OBVIOUS
<1>2. PICK told : told = call.answer.body
    OBVIOUS
<1>3. /\ call.op = "detail" /\ userCalls' = End(userCalls, s)
      /\ UNCHANGED <<accounts, place, listing, listFailed, listSure>>
    BY <1>1 DEF LandDetail, ListAround, shownList
<1>4. UserCallOK(call) /\ IsWriter(call)
    BY <1>1, <1>3 DEF UsersInv, UsersTypeInv, IsWriter, RecordWriters
<1>5. /\ DOMAIN userCalls' = Slots /\ \A t \in Slots : UserCallOK(userCalls'[t])
      /\ Apart(userCalls') /\ \A t \in Slots : AloneIsNew(userCalls'[t])
      /\ userCalls'[s].op = "idle"
      /\ ~IsListed(userCalls'[s]) /\ ~IsWriter(userCalls'[s]) /\ ~IsUserChange(userCalls'[s])
      /\ \A t \in Slots : t # s => userCalls'[t] = userCalls[t]
    BY <1>3, EndedUsers
<1>6. /\ \A t \in Slots : IsListed(userCalls'[t]) <=> IsListed(userCalls[t])
      /\ \A t \in Slots : IsListed(userCalls'[t]) \/ IsWriter(userCalls'[t]) => userCalls'[t] = userCalls[t] /\ t # s
    BY <1>1, <1>3, <1>5, EndedChange
<1>7. \A t \in Slots : /\ IsListed(userCalls[t])' <=> IsListed(userCalls'[t])
                       /\ IsWriter(userCalls[t])' <=> IsWriter(userCalls'[t])
                       /\ IsUserChange(userCalls[t])' <=> IsUserChange(userCalls'[t])
                       /\ Succeeds(userCalls[t])' <=> Succeeds(userCalls'[t])
    BY DEF IsListed, IsWriter, IsUserChange, Succeeds
<1>8. \A t \in Slots : AloneIsNew(userCalls[t])'
    BY <1>3, <1>5 DEF AloneIsNew, IsWriter, Succeeds
<1>9. \A t, u \in Slots : IsWriter(userCalls'[t]) /\ IsWriter(userCalls'[u]) /\ userCalls'[t].alone => t = u
    BY <1>5 DEF Apart
<1>10. UsersListInv'
    <2>1. UsersPage(place.page, place.filter)' = UsersPage(place.page, place.filter)
        BY <1>3 DEF UsersPage, Matching
    <2>2. \A t \in Slots : IsListed(userCalls'[t]) => (Succeeds(userCalls'[t]) <=> Succeeds(userCalls[t]))
        BY <1>6
    <2> QED BY <1>3, <1>6, <1>7, <2>1, <2>2 DEF UsersInv, UsersListInv
<1>11. \A t \in Slots : IsWriter(userCalls'[t]) /\ ~userCalls'[t].left => place.user = userCalls'[t].user
    BY <1>6 DEF UsersInv, UsersChangeInv
<1>12. \A t \in Slots : userCalls'[t].op \in {"reset", "delete"} => userCalls'[t] = userCalls[t]
    BY <1>5
<1>13. CASE call.left
    <2>1. UNCHANGED <<record, pending, userModal, temporary, recordSure>>
        BY <1>1, <1>13 DEF LandDetail, card
    <2>2. ~recordSure
        BY <1>1, <1>4, <1>13 DEF UsersInv, UsersRecordInv
    <2>3. ~IsUserChange(call)
        BY <1>13 DEF IsUserChange
    <2>4. \A t \in Slots : IsUserChange(userCalls'[t]) <=> IsUserChange(userCalls[t])
        BY <1>1, <1>3, <2>3, EndedChange
    <2>5. UsersTypeInv'
        BY <1>3, <1>5, <2>1 DEF UsersInv, UsersTypeInv
    <2>6. UsersSelfInv'
        BY <1>3, <2>1 DEF UsersInv, UsersSelfInv
    <2>7. UsersChangeInv'
        BY <1>3, <1>7, <1>11, <2>1, <2>4 DEF UsersInv, UsersChangeInv
    <2>8. UsersRecordInv'
        BY <1>7, <1>8, <1>9, <2>1, <2>2 DEF UsersRecordInv
    <2>9. UsersTemporaryInv'
        BY <1>3, <1>12, <2>1 DEF UsersInv, UsersTemporaryInv
    <2> QED BY <1>10, <2>5, <2>6, <2>7, <2>8, <2>9 DEF UsersInv
<1>14. CASE ~call.left
    <2>1. /\ record' = IF Succeeds(call)
                       THEN [shown |-> told, failed |-> record.failed /\ call.first,
                             limit |-> told.limit, role |-> told.role]
                       ELSE [record EXCEPT !.failed = TRUE]
          /\ pending' = (pending /\ ~call.after)
          /\ userModal' = IF call.after /\ userModal = "role" THEN None ELSE userModal
          /\ recordSure' = SureAfter(call, recordSure, {"detail"})
          /\ UNCHANGED temporary
        BY <1>1, <1>2, <1>14 DEF LandDetail
    <2>2. place.user = call.user /\ call.user \in Users
        BY <1>1, <1>4, <1>14 DEF UsersInv, UsersChangeInv, UserCallOK, IsWriter
    <2>3. pending' \in BOOLEAN /\ recordSure' \in BOOLEAN
        BY <2>1 DEF SureAfter
    <2>4. recordSure' => Succeeds(call) /\ call.alone
        BY <2>1 DEF SureAfter
    <2>5. DOMAIN record' = {"shown", "failed", "limit", "role"}
        <3>1. CASE Succeeds(call)
            <4>1. PICK filled : filled = [shown |-> told, failed |-> record.failed /\ call.first,
                                      limit |-> told.limit, role |-> told.role]
                OBVIOUS
            <4>2. record' = filled
                BY <2>1, <3>1, <4>1
            <4> QED BY <4>1, <4>2
        <3>2. CASE ~Succeeds(call)
            <4>1. record' = [record EXCEPT !.failed = TRUE]
                BY <2>1, <3>2
            <4> QED BY <4>1 DEF UsersInv, UsersTypeInv
        <3> QED BY <3>1, <3>2
    <2>6. UsersTypeInv'
        BY <1>3, <1>5, <2>3, <2>5 DEF UsersInv, UsersTypeInv
    <2>7. UsersSelfInv'
        <3>1. place.user = Self /\ record'.shown # None => record'.role = "admin"
            <4>1. CASE Succeeds(call)
                <5>1. record'.role = told.role
                    BY <2>1, <4>1
                <5>2. place.user = Self => told.role = "admin"
                    BY <1>2, <1>3, <1>4, <2>2, <4>1 DEF UserCallOK
                <5> QED BY <5>1, <5>2
            <4>2. CASE ~Succeeds(call)
                <5>1. record'.role = record.role /\ record'.shown = record.shown
                    BY <2>1, <4>2 DEF UsersInv, UsersTypeInv
                <5> QED BY <5>1 DEF UsersInv, UsersSelfInv
            <4> QED BY <4>1, <4>2
        <3> QED BY <1>3, <2>1, <3>1, UserNames DEF UsersInv, UsersSelfInv
    <2>8. UsersChangeInv'
        <3>1. CASE call.after
            <4>1. IsUserChange(call)
                BY <1>3, <1>14, <3>1 DEF IsUserChange
            <4>2. \A t \in Slots : ~IsUserChange(userCalls'[t])
                BY <1>1, <1>3, <4>1, EndedChange
            <4>3. pending' = FALSE
                BY <2>1, <3>1
            <4> QED BY <1>3, <1>7, <1>11, <4>2, <4>3 DEF UsersChangeInv
        <3>2. CASE ~call.after
            <4>1. ~IsUserChange(call)
                BY <1>3, <3>2 DEF IsUserChange
            <4>2. \A t \in Slots : IsUserChange(userCalls'[t]) <=> IsUserChange(userCalls[t])
                BY <1>1, <1>3, <4>1, EndedChange
            <4>3. pending' = pending
                BY <2>1, <3>2 DEF UsersInv, UsersTypeInv
            <4> QED BY <1>3, <1>7, <1>11, <4>2, <4>3 DEF UsersInv, UsersChangeInv
        <3> QED BY <3>1, <3>2
    <2>9. UsersRecordInv'
        <3>1. ASSUME recordSure'
              PROVE  /\ \A t \in Slots : ~IsWriter(userCalls'[t])
                     /\ accounts[place.user].there /\ record'.shown = accounts[place.user]
                     /\ place.user \in Users
            <4>1. Succeeds(call) /\ call.alone
                BY <2>4, <3>1
            <4>2. \A t \in Slots : ~IsWriter(userCalls'[t])
                BY <1>1, <1>4, <1>6, <4>1 DEF UsersInv, UsersRecordInv
            <4>3. accounts[call.user].there /\ told = accounts[call.user]
                BY <1>1, <1>2, <1>3, <1>4, <4>1 DEF UsersInv, UsersRecordInv, AloneIsNew
            <4>4. record'.shown = told
                BY <2>1, <4>1
            <4> QED BY <2>2, <4>2, <4>3, <4>4
        <3> QED BY <1>3, <1>7, <1>8, <1>9, <3>1 DEF UsersRecordInv
    <2>10. UsersTemporaryInv'
        <3>1. userModal = "password" => userModal' = "password"
            BY <2>1
        <3> QED BY <1>3, <1>12, <2>1, <3>1 DEF UsersInv, UsersTemporaryInv
    <2> QED BY <1>10, <2>6, <2>7, <2>8, <2>9, <2>10 DEF UsersInv
<1> QED BY <1>13, <1>14

\* The answer to a change comes, and what it returned is shown.
LEMMA LandUserChangeKeeps ==
    ASSUME UsersInv, NEW s \in Slots, LandUserChange(s)
    PROVE  UsersInv'
<1>1. PICK call : call = userCalls[s]
    OBVIOUS
<1>2. PICK calls : calls = End(userCalls, s)
    OBVIOUS
<1>3. PICK sent : sent = [op |-> "detail", user |-> call.user, first |-> FALSE, after |-> TRUE, left |-> call.left]
    OBVIOUS
<1>4. /\ call.op \in {"patch", "reset", "refresh"}
      /\ UNCHANGED <<accounts, place, listing, listFailed, listSure>>
      /\ Succeeds(call) => userCalls' = Post(calls, sent, RecordWriters)
      /\ ~Succeeds(call) => userCalls' = calls
    BY <1>1, <1>2, <1>3 DEF LandUserChange, ReadsAgain, ListAround, shownList
<1>5. UserCallOK(call) /\ IsWriter(call) /\ call.user \in Users /\ (IsUserChange(call) <=> ~call.left)
    BY <1>1, <1>4 DEF UsersInv, UsersTypeInv, UserCallOK, IsWriter, RecordWriters, IsUserChange
<1>6. /\ DOMAIN calls = Slots /\ \A t \in Slots : UserCallOK(calls[t])
      /\ Apart(calls) /\ \A t \in Slots : AloneIsNew(calls[t])
      /\ calls[s].op = "idle"
      /\ ~IsListed(calls[s]) /\ ~IsWriter(calls[s]) /\ ~IsUserChange(calls[s])
      /\ \A t \in Slots : t # s => calls[t] = userCalls[t]
    BY <1>2, EndedUsers
<1>7. /\ \A t \in Slots : /\ IsListed(calls[t]) <=> IsListed(userCalls[t])
                          /\ IsListed(calls[t]) \/ IsWriter(calls[t]) => calls[t] = userCalls[t]
      /\ ~call.left => \A t \in Slots : ~IsUserChange(calls[t])
      /\ call.left => \A t \in Slots : IsUserChange(calls[t]) <=> IsUserChange(userCalls[t])
    <2>1. userCalls[s].op # "list"
        BY <1>1, <1>4
    <2> QED BY <1>1, <1>2, <1>5, <2>1, EndedChange
<1>8. /\ call.left => UNCHANGED <<record, pending, userModal, temporary, recordSure>>
      /\ ~call.left =>
            /\ temporary' = IF Succeeds(call) /\ call.op = "reset"
                            THEN [word |-> call.answer.body, alone |-> call.alone] ELSE temporary
            /\ pending' = (Succeeds(call) /\ TRUE)
            /\ record' = [record EXCEPT !.failed = @ \/ (call.op = "patch" /\ ~Succeeds(call))]
            /\ recordSure' = SureAfter(call, recordSure, {})
            /\ UNCHANGED userModal
    BY <1>1 DEF LandUserChange, ReadsAgain, card
<1>9. /\ DOMAIN record' = DOMAIN record /\ record'.shown = record.shown /\ record'.role = record.role
      /\ userModal' = userModal
    BY <1>8 DEF UsersInv, UsersTypeInv
<1>10. pending' \in BOOLEAN /\ recordSure' \in BOOLEAN
    BY <1>8 DEF UsersInv, UsersTypeInv, SureAfter, Succeeds
<1>11. call.left => ~recordSure
    BY <1>1, <1>5 DEF UsersInv, UsersRecordInv
<1>12. recordSure' => recordSure /\ ~call.left /\ Succeeds(call)
    BY <1>8, <1>11 DEF SureAfter
<1>13. ~call.left => call.user = place.user
    BY <1>1, <1>5 DEF UsersInv, UsersChangeInv
<1>14. /\ IsFresh(sent) /\ DOMAIN sent = {"op", "user", "first", "after", "left"}
       /\ sent.op = "detail" /\ sent.user = call.user /\ sent.after = TRUE /\ sent.left = call.left
    <2>1. PICK user \in Users : user = call.user
        BY <1>5
    <2>2. PICK first \in BOOLEAN : first = FALSE
        OBVIOUS
    <2>3. PICK after \in BOOLEAN : after = TRUE
        OBVIOUS
    <2>4. PICK left : left = call.left
        OBVIOUS
    <2>5. sent = [op |-> "detail", user |-> user, first |-> first, after |-> after, left |-> left]
        BY <1>3, <2>1, <2>2, <2>3, <2>4
    <2>6. /\ IsFresh(sent) /\ DOMAIN sent = {"op", "user", "first", "after", "left"}
          /\ sent.op = "detail" /\ sent.user = user /\ sent.after = after /\ sent.left = left
        BY <2>5, FreshDetail
    <2> QED BY <2>1, <2>3, <2>4, <2>6
<1>15. Succeeds(call) => Follows(calls, sent, userCalls')
    <2>1. Free(calls) # {}
        BY <1>6 DEF Free, Busy
    <2> QED BY <1>4, <1>6, <1>14, <2>1, PostedUsers
<1>16. /\ UsersListInv' /\ UsersChangeInv' /\ UsersRecordInv'
       /\ DOMAIN userCalls' = Slots /\ \A t \in Slots : UserCallOK(userCalls'[t])
    <2>1. CASE Succeeds(call)
        <3>1. /\ Locks(sent) <=> ~call.left
              /\ ~call.left => pending' = TRUE
              /\ call.left => pending' = pending
            BY <1>8, <1>14, <2>1 DEF Locks
        <3>2. sent.op \in {"detail", "patch", "reset", "delete", "refresh", "create"} /\ sent.op # "create"
              /\ {"user"} \subseteq DOMAIN sent /\ "after" \in DOMAIN sent
              /\ (~sent.left => sent.user = place.user) /\ (recordSure' => recordSure /\ ~sent.left)
            BY <1>12, <1>13, <1>14
        <3>3. \/ /\ Locks(sent) /\ pending' = TRUE /\ \A t \in Slots : ~IsUserChange(calls[t])
              \/ /\ ~Locks(sent) /\ pending' = pending
                 /\ \A t \in Slots : IsUserChange(calls[t]) <=> IsUserChange(userCalls[t])
            BY <1>7, <3>1
        <3>4. Follows(calls, sent, userCalls')
            BY <1>15, <2>1
        <3>5. \A t \in Slots : /\ IsListed(calls[t]) <=> IsListed(userCalls[t])
                               /\ IsListed(calls[t]) \/ IsWriter(calls[t]) => calls[t] = userCalls[t]
            BY <1>7
        <3> QED BY <1>4, <1>6, <1>10, <1>14, <3>2, <3>3, <3>4, <3>5, BegunUsers
    <2>2. CASE ~Succeeds(call)
        <3>1. userCalls' = calls /\ ~recordSure'
            BY <1>4, <1>12, <2>2
        <3>2. \A t \in Slots : /\ IsListed(userCalls[t])' <=> IsListed(calls[t])
                               /\ IsWriter(userCalls[t])' <=> IsWriter(calls[t])
                               /\ IsUserChange(userCalls[t])' <=> IsUserChange(calls[t])
                               /\ Succeeds(userCalls[t])' <=> Succeeds(calls[t])
            BY <3>1 DEF IsListed, IsWriter, IsUserChange, Succeeds
        <3>3. UsersListInv'
            <4>1. UsersPage(place.page, place.filter)' = UsersPage(place.page, place.filter)
                BY <1>4 DEF UsersPage, Matching
            <4>2. \A t \in Slots : IsListed(calls[t]) => calls[t] = userCalls[t]
                BY <1>7
            <4> QED BY <1>4, <1>7, <3>1, <3>2, <4>1, <4>2 DEF UsersInv, UsersListInv
        <3>4. UsersChangeInv'
            <4>1. \A t \in Slots : IsWriter(calls[t]) /\ ~calls[t].left => place.user = calls[t].user
                BY <1>7 DEF UsersInv, UsersChangeInv
            <4>2. CASE call.left
                BY <1>4, <1>7, <1>8, <3>1, <3>2, <4>1, <4>2 DEF UsersInv, UsersChangeInv
            <4>3. CASE ~call.left
                BY <1>4, <1>7, <1>8, <2>2, <3>1, <3>2, <4>1, <4>3 DEF UsersChangeInv
            <4> QED BY <4>2, <4>3
        <3>5. UsersRecordInv'
            <4>1. \A t \in Slots : AloneIsNew(userCalls[t])'
                BY <1>4, <1>6, <3>1 DEF AloneIsNew, IsWriter, Succeeds
            <4> QED BY <1>6, <3>1, <3>2, <4>1 DEF UsersRecordInv, Apart
        <3> QED BY <1>6, <3>1, <3>3, <3>4, <3>5
    <2> QED BY <2>1, <2>2
<1>17. UsersTypeInv'
    BY <1>4, <1>9, <1>10, <1>16 DEF UsersInv, UsersTypeInv
<1>18. UsersSelfInv'
    BY <1>4, <1>9 DEF UsersInv, UsersSelfInv
<1>19. UsersTemporaryInv'
    <2>1. ASSUME NEW t \in Slots, userCalls'[t].op \in {"reset", "delete"}
          PROVE  t # s /\ userCalls[t].op = userCalls'[t].op /\ userCalls[t].left = userCalls'[t].left
        <3>1. calls[t].op = userCalls'[t].op /\ calls[t].left = userCalls'[t].left
            <4>1. CASE Succeeds(call)
                BY <1>14, <1>15, <2>1, <4>1, BegunOps
            <4>2. CASE ~Succeeds(call)
                BY <1>4, <4>2
            <4> QED BY <4>1, <4>2
        <3> QED BY <1>6, <2>1, <3>1
    <2>2. CASE ~call.left /\ Succeeds(call) /\ call.op = "reset"
        <3>1. userModal = "password"
            BY <1>1, <2>2 DEF UsersInv, UsersTemporaryInv
        <3>2. PICK seen : seen = [word |-> call.answer.body, alone |-> call.alone]
            OBVIOUS
        <3>3. temporary' = seen /\ seen.word = call.answer.body /\ (seen.alone <=> call.alone)
            BY <1>8, <2>2, <3>2
        <3>4. ASSUME call.alone
              PROVE  /\ accounts[place.user].there /\ call.answer.body = accounts[place.user].password
                     /\ place.user \in Users
                     /\ \A t \in Slots : userCalls'[t].op \notin {"reset", "delete"}
            <4>1. accounts[call.user].there /\ call.answer.body = accounts[call.user].password
                BY <1>1, <1>5, <2>2, <3>4 DEF UsersInv, UsersRecordInv, AloneIsNew
            <4>2. \A t \in Slots : t # s => ~IsWriter(userCalls[t])
                BY <1>1, <1>5, <3>4 DEF UsersInv, UsersRecordInv
            <4>3. \A t \in Slots : userCalls'[t].op \notin {"reset", "delete"}
                BY <2>1, <4>2 DEF IsWriter, RecordWriters
            <4> QED BY <1>5, <1>13, <2>2, <4>1, <4>3
        <3> QED BY <1>4, <1>9, <2>1, <3>1, <3>3, <3>4 DEF UsersInv, UsersTemporaryInv
    <2>3. CASE ~(~call.left /\ Succeeds(call) /\ call.op = "reset")
        <3>1. temporary' = temporary
            BY <1>8, <2>3
        <3> QED BY <1>4, <1>9, <2>1, <3>1 DEF UsersInv, UsersTemporaryInv
    <2> QED BY <2>2, <2>3
<1> QED BY <1>16, <1>17, <1>18, <1>19 DEF UsersInv

\* The answer to a removal comes.
LEMMA LandRemovalKeeps ==
    ASSUME UsersInv, NEW s \in Slots, LandRemoval(s)
    PROVE  UsersInv'
<1>1. PICK call : call = userCalls[s]
    OBVIOUS
<1>2. PICK calls : calls = End(userCalls, s)
    OBVIOUS
<1>3. PICK home : home = [page |-> 1, filter |-> "all", user |-> None]
    OBVIOUS
<1>4. call.op = "delete" /\ UNCHANGED <<accounts, listing, listFailed>>
    BY <1>1 DEF LandRemoval, shownList
<1>5. UserCallOK(call) /\ IsWriter(call) /\ (IsUserChange(call) <=> ~call.left)
    BY <1>1, <1>4 DEF UsersInv, UsersTypeInv, IsWriter, RecordWriters, IsUserChange
<1>6. /\ DOMAIN calls = Slots /\ \A t \in Slots : UserCallOK(calls[t])
      /\ Apart(calls) /\ \A t \in Slots : AloneIsNew(calls[t])
      /\ calls[s].op = "idle"
      /\ ~IsListed(calls[s]) /\ ~IsWriter(calls[s]) /\ ~IsUserChange(calls[s])
      /\ \A t \in Slots : t # s => calls[t] = userCalls[t]
    BY <1>2, EndedUsers
<1>7. CASE Succeeds(call) /\ place # home
    <2>1. Visit(home, calls)
        BY <1>1, <1>2, <1>3, <1>7 DEF LandRemoval
    <2>2. DOMAIN home = {"page", "filter", "user"} /\ home.user = None
        BY <1>3
    <2> QED BY <1>4, <1>6, <2>1, <2>2, VisitsUsers DEF UsersInv
<1>8. CASE ~(Succeeds(call) /\ place # home)
    <2>1. /\ userCalls' = calls
          /\ pending' = (pending /\ call.left) /\ recordSure' = (recordSure /\ call.left)
          /\ UNCHANGED <<place, record, userModal, temporary, listSure>>
        BY <1>1, <1>2, <1>3, <1>8 DEF LandRemoval
    <2>2. call.left => ~recordSure
        BY <1>1, <1>5 DEF UsersInv, UsersRecordInv
    <2>3. ~recordSure' /\ recordSure' \in BOOLEAN /\ pending' \in BOOLEAN
        BY <2>1, <2>2
    <2>4. /\ \A t \in Slots : /\ IsListed(calls[t]) <=> IsListed(userCalls[t])
                              /\ IsListed(calls[t]) \/ IsWriter(calls[t]) => calls[t] = userCalls[t]
          /\ ~call.left => \A t \in Slots : ~IsUserChange(calls[t])
          /\ call.left => \A t \in Slots : IsUserChange(calls[t]) <=> IsUserChange(userCalls[t])
        <3>1. userCalls[s].op # "list"
            BY <1>1, <1>4
        <3> QED BY <1>1, <1>2, <1>5, <3>1, EndedChange
    <2>5. \A t \in Slots : /\ IsListed(userCalls[t])' <=> IsListed(calls[t])
                           /\ IsWriter(userCalls[t])' <=> IsWriter(calls[t])
                           /\ IsUserChange(userCalls[t])' <=> IsUserChange(calls[t])
                           /\ Succeeds(userCalls[t])' <=> Succeeds(calls[t])
        BY <2>1 DEF IsListed, IsWriter, IsUserChange, Succeeds
    <2>6. UsersTypeInv'
        BY <1>4, <1>6, <2>1, <2>3 DEF UsersInv, UsersTypeInv
    <2>7. UsersSelfInv'
        BY <1>4, <2>1 DEF UsersInv, UsersSelfInv
    <2>8. UsersListInv'
        <3>1. UsersPage(place.page, place.filter)' = UsersPage(place.page, place.filter)
            BY <1>4, <2>1 DEF UsersPage, Matching
        <3>2. \A t \in Slots : IsListed(calls[t]) => calls[t] = userCalls[t]
            BY <2>4
        <3> QED BY <1>4, <2>1, <2>4, <2>5, <3>1, <3>2 DEF UsersInv, UsersListInv
    <2>9. UsersChangeInv'
        <3>1. \A t \in Slots : IsWriter(calls[t]) /\ ~calls[t].left => place.user = calls[t].user
            BY <2>4 DEF UsersInv, UsersChangeInv
        <3>2. CASE call.left
            <4>1. pending' = pending
                BY <2>1, <3>2 DEF UsersInv, UsersTypeInv
            <4> QED BY <2>1, <2>4, <2>5, <3>1, <3>2, <4>1 DEF UsersInv, UsersChangeInv
        <3>3. CASE ~call.left
            BY <2>1, <2>4, <2>5, <3>1, <3>3 DEF UsersChangeInv
        <3> QED BY <3>2, <3>3
    <2>10. UsersRecordInv'
        <3>1. \A t \in Slots : AloneIsNew(userCalls[t])'
            BY <1>4, <1>6, <2>1 DEF AloneIsNew, IsWriter, Succeeds
        <3> QED BY <1>6, <2>1, <2>3, <2>5, <3>1 DEF UsersRecordInv, Apart
    <2>11. UsersTemporaryInv'
        <3>1. \A t \in Slots : userCalls'[t].op \in {"reset", "delete"} => userCalls'[t] = userCalls[t]
            BY <1>6, <2>1
        <3> QED BY <1>4, <2>1, <3>1 DEF UsersInv, UsersTemporaryInv
    <2> QED BY <2>6, <2>7, <2>8, <2>9, <2>10, <2>11 DEF UsersInv
<1> QED BY <1>7, <1>8

\* The answer to a creation comes.
LEMMA LandCreateKeeps ==
    ASSUME UsersInv, NEW s \in Slots, LandCreateUser(s)
    PROVE  UsersInv'
<1>1. PICK call : call = userCalls[s]
    OBVIOUS
<1>2. PICK calls : calls = End(userCalls, s)
    OBVIOUS
<1>3. call.op = "create" /\ UNCHANGED <<accounts, listing, listFailed>>
    BY <1>1 DEF LandCreateUser, shownList
<1>4. UserCallOK(call) /\ ~IsWriter(call) /\ ~IsUserChange(call)
    BY <1>1, <1>3 DEF UsersInv, UsersTypeInv, IsWriter, RecordWriters, IsUserChange
<1>5. /\ DOMAIN calls = Slots /\ \A t \in Slots : UserCallOK(calls[t])
      /\ Apart(calls) /\ \A t \in Slots : AloneIsNew(calls[t])
      /\ calls[s].op = "idle"
      /\ ~IsListed(calls[s]) /\ ~IsWriter(calls[s]) /\ ~IsUserChange(calls[s])
      /\ \A t \in Slots : t # s => calls[t] = userCalls[t]
    BY <1>2, EndedUsers
<1>6. CASE Succeeds(call)
    <2>1. PICK next : next = [page |-> 1, filter |-> "all", user |-> call.answer.body]
        OBVIOUS
    <2>2. Visit(next, calls)
        BY <1>1, <1>2, <1>6, <2>1 DEF LandCreateUser
    <2>3. DOMAIN next = {"page", "filter", "user"} /\ next.user \in Users
        BY <1>3, <1>4, <1>6, <2>1 DEF UserCallOK
    <2> QED BY <1>3, <1>5, <2>2, <2>3, VisitsUsers DEF UsersInv
<1>7. CASE ~Succeeds(call)
    <2>1. userCalls' = calls /\ UNCHANGED <<place, record, pending, userModal, temporary, listSure, recordSure>>
        BY <1>1, <1>2, <1>7 DEF LandCreateUser, card
    <2>2. \A t \in Slots : /\ IsListed(calls[t]) <=> IsListed(userCalls[t])
                           /\ IsListed(calls[t]) \/ IsWriter(calls[t]) => calls[t] = userCalls[t]
                           /\ IsUserChange(calls[t]) <=> IsUserChange(userCalls[t])
                           /\ IsWriter(calls[t]) <=> IsWriter(userCalls[t])
        <3>1. userCalls[s].op # "list"
            BY <1>1, <1>3
        <3>2. \A t \in Slots : /\ IsListed(calls[t]) <=> IsListed(userCalls[t])
                               /\ IsListed(calls[t]) \/ IsWriter(calls[t]) => calls[t] = userCalls[t]
                               /\ IsUserChange(calls[t]) <=> IsUserChange(userCalls[t])
            BY <1>1, <1>2, <1>4, <3>1, EndedChange
        <3> QED BY <1>1, <1>4, <1>5, <3>2
    <2>3. \A t \in Slots : /\ IsListed(userCalls[t])' <=> IsListed(calls[t])
                           /\ IsWriter(userCalls[t])' <=> IsWriter(calls[t])
                           /\ IsUserChange(userCalls[t])' <=> IsUserChange(calls[t])
                           /\ Succeeds(userCalls[t])' <=> Succeeds(calls[t])
        BY <2>1 DEF IsListed, IsWriter, IsUserChange, Succeeds
    <2>4. UsersTypeInv'
        BY <1>3, <1>5, <2>1 DEF UsersInv, UsersTypeInv
    <2>5. UsersSelfInv'
        BY <1>3, <2>1 DEF UsersInv, UsersSelfInv
    <2>6. UsersListInv'
        <3>1. UsersPage(place.page, place.filter)' = UsersPage(place.page, place.filter)
            BY <1>3, <2>1 DEF UsersPage, Matching
        <3>2. \A t \in Slots : IsListed(calls[t]) => calls[t] = userCalls[t]
            BY <2>2
        <3> QED BY <1>3, <2>1, <2>2, <2>3, <3>1, <3>2 DEF UsersInv, UsersListInv
    <2>7. UsersChangeInv'
        <3>1. \A t \in Slots : IsWriter(calls[t]) /\ ~calls[t].left => place.user = calls[t].user
            BY <2>2 DEF UsersInv, UsersChangeInv
        <3> QED BY <2>1, <2>2, <2>3, <3>1 DEF UsersInv, UsersChangeInv
    <2>8. UsersRecordInv'
        <3>1. \A t \in Slots : AloneIsNew(userCalls[t])'
            BY <1>3, <1>5, <2>1 DEF AloneIsNew, IsWriter, Succeeds
        <3>2. recordSure => /\ place.user \in Users
                            /\ \A t \in Slots : IsWriter(calls[t]) => ~calls[t].left
            BY <2>2 DEF UsersInv, UsersRecordInv
        <3>3. recordSure /\ (\A t \in Slots : ~IsWriter(calls[t])) =>
                  accounts[place.user].there /\ record.shown = accounts[place.user]
            BY <2>2 DEF UsersInv, UsersRecordInv
        <3> QED BY <1>3, <1>5, <2>1, <2>3, <3>1, <3>2, <3>3 DEF UsersRecordInv, Apart
    <2>9. UsersTemporaryInv'
        <3>1. \A t \in Slots : userCalls'[t].op \in {"reset", "delete"} => userCalls'[t] = userCalls[t]
            BY <1>5, <2>1
        <3> QED BY <1>3, <2>1, <3>1 DEF UsersInv, UsersTemporaryInv
    <2> QED BY <2>4, <2>5, <2>6, <2>7, <2>8, <2>9 DEF UsersInv
<1> QED BY <1>6, <1>7

-----------------------------------------------------------------------------
\* What the backend may do to the accounts when it answers this request.
Serves(call) ==
    /\ DOMAIN accounts' = Users /\ \A u \in Users : DOMAIN accounts'[u] = AccountFields
    /\ accounts'[Self].there = TRUE /\ accounts'[Self].enabled = TRUE /\ accounts'[Self].role = "admin"
    /\ ~IsWriter(call) => \A u \in Users : accounts[u].there => accounts'[u] = accounts[u]
    /\ call.op \notin {"reset", "delete"} =>
          \A u \in Users : accounts[u].there =>
              accounts'[u].there /\ accounts'[u].password = accounts[u].password

\* A request is answered.
LEMMA ToldUsers ==
    ASSUME UsersInv, NEW s \in Slots, userCalls[s].op # "idle", NEW answer,
           userCalls' = [userCalls EXCEPT ![s].answer = answer],
           UNCHANGED <<place, listing, listFailed, record, pending, userModal, temporary, recordSure>>,
           Serves(userCalls[s]), listSure' \in BOOLEAN, listSure' => listSure /\ accounts' = accounts,
           answer.kind = "ok" =>
              /\ userCalls[s].op = "list" => answer.body = UsersPage(userCalls[s].page, userCalls[s].filter)
              /\ userCalls[s].op = "detail" => /\ accounts' = accounts /\ accounts[userCalls[s].user].there
                                               /\ answer.body = accounts[userCalls[s].user]
              /\ userCalls[s].op = "reset" => /\ accounts'[userCalls[s].user].there
                                              /\ answer.body = accounts'[userCalls[s].user].password
              /\ userCalls[s].op = "create" => answer.body \in Users
    PROVE  UsersInv'
<1>1. PICK call : call = userCalls[s]
    OBVIOUS
<1>2. PICK next : next = userCalls'[s]
    OBVIOUS
<1>3. DOMAIN userCalls = Slots /\ \A t \in Slots : UserCallOK(userCalls[t])
    BY DEF UsersInv, UsersTypeInv
<1>4. UserCallOK(call)
    BY <1>1, <1>3
<1>5. /\ DOMAIN userCalls' = Slots /\ \A t \in Slots \ {s} : userCalls'[t] = userCalls[t]
      /\ DOMAIN next = DOMAIN call /\ \A f \in DOMAIN call \ {"answer"} : next[f] = call[f]
      /\ "answer" \in DOMAIN call => next.answer = answer
    BY <1>1, <1>2, <1>3, ToldCalls
<1>6. {"op", "answer", "left", "alone"} \subseteq DOMAIN call
    BY <1>1, <1>4 DEF UserCallOK, IsCall
<1>7. /\ next.op = call.op /\ next.left = call.left /\ next.alone = call.alone /\ next.answer = answer
      /\ Succeeds(next) <=> answer.kind = "ok"
    BY <1>5, <1>6 DEF Succeeds
<1>8. /\ call.op = "list" => next.page = call.page /\ next.filter = call.filter
      /\ call.op \in RecordWriters => next.user = call.user
      /\ call.op = "detail" => next.after = call.after
      /\ call.op = "patch" => next.values = call.values
    BY <1>4, <1>5 DEF UserCallOK
<1>9. UserCallOK(next)
    <2>1. call.op = "detail" /\ Succeeds(next) /\ call.user = Self => next.answer.body.role = "admin"
        BY <1>1, <1>7 DEF UsersInv, UsersSelfInv
    <2>2. call.op = "create" => ~call.left /\ (Succeeds(next) => next.answer.body \in Users)
        BY <1>1, <1>4, <1>7 DEF UserCallOK
    <2> QED BY <1>4, <1>5, <1>6, <1>7, <1>8, <2>1, <2>2 DEF UserCallOK, IsCall, RecordWriters
<1>10. \A t \in Slots : UserCallOK(userCalls'[t])
    BY <1>2, <1>3, <1>5, <1>9
<1>11. /\ IsListed(next) <=> IsListed(call)
       /\ IsWriter(next) <=> IsWriter(call)
       /\ IsUserChange(next) <=> IsUserChange(call)
    BY <1>7, <1>8 DEF IsListed, IsWriter, IsUserChange
<1>12. \A t \in Slots : /\ IsListed(userCalls[t])' <=> IsListed(userCalls[t])
                        /\ IsWriter(userCalls[t])' <=> IsWriter(userCalls[t])
                        /\ IsUserChange(userCalls[t])' <=> IsUserChange(userCalls[t])
    <2>1. \A t \in Slots : /\ IsListed(userCalls[t])' <=> IsListed(userCalls'[t])
                           /\ IsWriter(userCalls[t])' <=> IsWriter(userCalls'[t])
                           /\ IsUserChange(userCalls[t])' <=> IsUserChange(userCalls'[t])
        BY DEF IsListed, IsWriter, IsUserChange
    <2> QED BY <1>1, <1>2, <1>5, <1>11, <2>1
<1>13. \A t \in Slots : IsWriter(userCalls[t]) =>
            /\ userCalls'[t].left = userCalls[t].left /\ userCalls'[t].alone = userCalls[t].alone
            /\ userCalls'[t].user = userCalls[t].user
    BY <1>1, <1>2, <1>5, <1>7, <1>8 DEF IsWriter
<1>14. Serves(call)
    BY <1>1
<1>15. UsersTypeInv'
    BY <1>5, <1>10, <1>14 DEF UsersInv, UsersTypeInv, Serves
<1>16. UsersSelfInv'
    BY <1>14 DEF UsersInv, UsersSelfInv, Serves
<1>17. UsersListInv'
    <2>1. accounts' = accounts => UsersPage(place.page, place.filter)' = UsersPage(place.page, place.filter)
        BY DEF UsersPage, Matching
    <2>2. ASSUME NEW t \in Slots, IsListed(userCalls[t])
          PROVE  /\ place'.user = None /\ userCalls'[t].page = place'.page /\ userCalls'[t].filter = place'.filter
                 /\ listSure' /\ Succeeds(userCalls'[t]) =>
                       userCalls'[t].answer.body = UsersPage(place.page, place.filter)'
        <3>1. CASE t = s
            <4>1. call.op = "list" /\ next = userCalls'[t]
                BY <1>1, <1>2, <2>2, <3>1 DEF IsListed
            <4>2. place.user = None /\ next.page = place.page /\ next.filter = place.filter
                BY <1>1, <1>8, <2>2, <3>1, <4>1 DEF UsersInv, UsersListInv
            <4>3. call.page = place.page /\ call.filter = place.filter
                BY <1>1, <2>2, <3>1 DEF UsersInv, UsersListInv
            <4>4. answer.kind = "ok" => answer.body = UsersPage(place.page, place.filter)
                BY <1>1, <4>1, <4>3
            <4> QED BY <1>7, <2>1, <4>1, <4>2, <4>4
        <3>2. CASE t # s
            <4>1. userCalls'[t] = userCalls[t]
                BY <1>5, <3>2
            <4> QED BY <2>1, <2>2, <4>1 DEF UsersInv, UsersListInv
        <3> QED BY <3>1, <3>2
    <2>3. \A t \in Slots : Succeeds(userCalls[t])' <=> Succeeds(userCalls'[t])
        BY DEF Succeeds
    <2>4. listSure' /\ place.user = None /\ ~listFailed /\ (\A t \in Slots : ~IsListed(userCalls[t])) =>
              listing = UsersPage(place.page, place.filter)'
        BY <2>1 DEF UsersInv, UsersListInv
    <2> QED BY <1>12, <2>2, <2>3, <2>4 DEF UsersListInv
<1>18. UsersChangeInv'
    BY <1>12, <1>13 DEF UsersInv, UsersChangeInv
<1>19. UsersRecordInv'
    <2>1. AloneIsNew(next)'
        BY <1>1, <1>7, <1>8 DEF AloneIsNew, IsWriter, RecordWriters, Succeeds
    <2>2. ASSUME NEW t \in Slots, t # s PROVE AloneIsNew(userCalls[t])'
        <3>1. PICK other : other = userCalls[t]
            OBVIOUS
        <3>2. userCalls'[t] = other /\ AloneIsNew(other) /\ UserCallOK(other)
            BY <1>3, <1>5, <2>2, <3>1 DEF UsersInv, UsersRecordInv
        <3>3. CASE IsWriter(other) /\ other.alone /\ Succeeds(other) /\ other.op \in {"detail", "reset"}
            <4>1. ~IsWriter(call)
                BY <1>1, <2>2, <3>1, <3>3 DEF UsersInv, UsersRecordInv
            <4>2. other.user \in Users /\ accounts[other.user].there
                BY <3>2, <3>3 DEF UserCallOK, IsWriter, AloneIsNew
            <4>3. accounts'[other.user] = accounts[other.user]
                BY <1>14, <4>1, <4>2 DEF Serves
            <4>4. AloneIsNew(other)'
                BY <3>2, <3>3, <4>3 DEF AloneIsNew, IsWriter, Succeeds
            <4> QED BY <3>2, <4>4
        <3>4. CASE ~(IsWriter(other) /\ other.alone /\ Succeeds(other) /\ other.op \in {"detail", "reset"})
            BY <3>2, <3>4 DEF AloneIsNew, IsWriter, Succeeds
        <3> QED BY <3>3, <3>4
    <2>3. \A t \in Slots : AloneIsNew(userCalls[t])'
        BY <1>2, <2>1, <2>2
    <2>4. ASSUME recordSure, \A t \in Slots : ~IsWriter(userCalls[t])
          PROVE  accounts'[place.user].there /\ record.shown = accounts'[place.user]
        <3>1. place.user \in Users /\ accounts[place.user].there /\ record.shown = accounts[place.user]
            BY <2>4 DEF UsersInv, UsersRecordInv
        <3>2. accounts'[place.user] = accounts[place.user]
            BY <1>1, <1>14, <2>4, <3>1 DEF Serves
        <3> QED BY <3>1, <3>2
    <2> QED BY <1>12, <1>13, <2>3, <2>4 DEF UsersInv, UsersRecordInv
<1>20. UsersTemporaryInv'
    <2>1. \A t \in Slots : userCalls'[t].op = userCalls[t].op
        BY <1>1, <1>2, <1>5, <1>7
    <2>2. \A t \in Slots : userCalls[t].op = "reset" => userCalls'[t].left = userCalls[t].left
        BY <1>1, <1>2, <1>5, <1>7
    <2>3. ASSUME temporary # None, temporary.alone
          PROVE  /\ place.user \in Users
                 /\ accounts'[place.user].there /\ temporary.word = accounts'[place.user].password
                 /\ \A t \in Slots : userCalls[t].op \notin {"reset", "delete"}
        <3>1. /\ place.user \in Users
              /\ accounts[place.user].there /\ temporary.word = accounts[place.user].password
              /\ \A t \in Slots : userCalls[t].op \notin {"reset", "delete"}
            BY <2>3 DEF UsersInv, UsersTemporaryInv
        <3> QED BY <1>1, <1>14, <3>1 DEF Serves
    <2> QED BY <2>1, <2>2, <2>3 DEF UsersInv, UsersTemporaryInv
<1> QED BY <1>15, <1>16, <1>17, <1>18, <1>19, <1>20 DEF UsersInv

\* What the backend refuses or only reads keeps the accounts.
LEMMA SameServes ==
    ASSUME UsersInv, NEW call, accounts' = accounts
    PROVE  Serves(call)
BY DEF UsersInv, UsersTypeInv, UsersSelfInv, Serves

\* What is stored is one account, whose role and access stay when it is the own one.
LEMMA StoredServes ==
    ASSUME UsersInv, NEW call, NEW u \in Users, NEW values, DOMAIN values \subseteq AccountFields,
           accounts' = [accounts EXCEPT ![u] = With(values, accounts[u])],
           u = Self => {"there", "enabled"} \cap DOMAIN values = {}
                       /\ ("role" \in DOMAIN values => values.role = "admin"),
           IsWriter(call) \/ ~accounts[u].there,
           call.op \in {"reset", "delete"} \/ {"there", "password"} \cap DOMAIN values = {} \/ ~accounts[u].there
    PROVE  Serves(call)
<1>1. PICK old : old = accounts[u]
    OBVIOUS
<1>2. PICK new : new = With(values, old)
    OBVIOUS
<1>3. DOMAIN old = AccountFields /\ \A v \in Users : DOMAIN accounts[v] = AccountFields
    BY <1>1 DEF UsersInv, UsersTypeInv
<1>4. /\ DOMAIN new = AccountFields /\ \A f \in DOMAIN values : new[f] = values[f]
      /\ \A f \in AccountFields \ DOMAIN values : new[f] = old[f]
    BY <1>2, <1>3 DEF With
<1>5. DOMAIN accounts' = Users /\ \A v \in Users : accounts'[v] = IF v = u THEN new ELSE accounts[v]
    BY <1>1, <1>2 DEF UsersInv, UsersTypeInv
<1>6. "there" \in AccountFields /\ "enabled" \in AccountFields /\ "role" \in AccountFields /\ "password" \in AccountFields
    BY DEF AccountFields
<1>7. accounts'[Self].there = TRUE /\ accounts'[Self].enabled = TRUE /\ accounts'[Self].role = "admin"
    <2>1. accounts[Self].there = TRUE /\ accounts[Self].enabled = TRUE /\ accounts[Self].role = "admin"
        BY DEF UsersInv, UsersSelfInv
    <2>2. CASE u = Self
        <3>1. new.there = old.there /\ new.enabled = old.enabled /\ (new.role = old.role \/ new.role = "admin")
            BY <1>4, <1>6, <2>2
        <3> QED BY <1>1, <1>5, <2>1, <2>2, <3>1
    <2>3. CASE u # Self
        BY <1>5, <2>1, <2>3, UserNames
    <2> QED BY <2>2, <2>3
<1>8. call.op \notin {"reset", "delete"} /\ old.there => new.there = old.there /\ new.password = old.password
    BY <1>1, <1>4, <1>6
<1> QED BY <1>1, <1>3, <1>4, <1>5, <1>7, <1>8 DEF Serves

\* The backend serves a call of the page.
LEMMA ServeUsersKeeps ==
    ASSUME UsersInv, NEW s \in Slots, ServeUsers(s)
    PROVE  UsersInv'
<1>1. PICK call : call = userCalls[s]
    OBVIOUS
<1>2. call.op # "idle" /\ UserCallOK(call)
    BY <1>1 DEF ServeUsers, Busy, UsersInv, UsersTypeInv
<1>3. \A body : Ok(body).kind = "ok" /\ Ok(body).body = body
    BY DEF Ok
<1>4. ASSUME NEW body, Told(s, body),
             call.op = "list" => body = UsersPage(call.page, call.filter),
             call.op = "detail" => accounts[call.user].there /\ body = accounts[call.user],
             call.op \notin {"reset", "create"}
      PROVE  UsersInv'
    <2>1. PICK answer : answer = Ok(body)
        OBVIOUS
    <2>2. /\ userCalls' = [userCalls EXCEPT ![s].answer = answer] /\ UNCHANGED <<accounts, listSure>>
          /\ UNCHANGED <<place, listing, listFailed, record, pending, userModal, temporary, recordSure>>
        BY <1>4, <2>1 DEF Told, AnswerUser, UserPages, shownList, card
    <2>3. Serves(userCalls[s]) /\ listSure \in BOOLEAN
        BY <2>2, SameServes DEF UsersInv, UsersTypeInv
    <2>4. answer.body = body
        BY <1>3, <2>1
    <2> QED BY <1>1, <1>2, <1>4, <2>2, <2>3, <2>4, ToldUsers
<1>5. ASSUME NEW u \in Users, NEW values, NEW body, Store(s, u, values, body), Serves(call),
             call.op \notin {"list", "detail"},
             call.op = "reset" => u = call.user /\ accounts[u].there /\ DOMAIN values = {"password"}
                                  /\ body = values.password,
             call.op = "create" => body \in Users
      PROVE  UsersInv'
    <2>1. PICK answer : answer = Ok(body)
        OBVIOUS
    <2>2. /\ userCalls' = [userCalls EXCEPT ![s].answer = answer] /\ listSure' = FALSE
          /\ accounts' = [accounts EXCEPT ![u] = With(values, accounts[u])]
          /\ UNCHANGED <<place, listing, listFailed, record, pending, userModal, temporary, recordSure>>
        BY <1>5, <2>1 DEF Store, AnswerUser, UserPages, shownList, card
    <2>3. answer.body = body
        BY <1>3, <2>1
    <2>4. ASSUME call.op = "reset"
          PROVE  accounts'[call.user].there /\ body = accounts'[call.user].password
        <3>1. PICK old : old = accounts[u]
            OBVIOUS
        <3>2. PICK new : new = With(values, old)
            OBVIOUS
        <3>3. DOMAIN old = AccountFields
            BY <3>1 DEF UsersInv, UsersTypeInv
        <3>4. new.there = old.there /\ new.password = values.password
            BY <1>5, <2>4, <3>2, <3>3 DEF With, AccountFields
        <3>5. accounts'[u] = new
            BY <2>2, <3>1, <3>2 DEF UsersInv, UsersTypeInv
        <3> QED BY <1>5, <2>4, <3>1, <3>4, <3>5
    <2>5. Serves(userCalls[s])
        BY <1>1, <1>5
    <2> QED BY <1>1, <1>2, <1>5, <2>2, <2>3, <2>4, <2>5, ToldUsers
<1>6. call.op \in RecordWriters => call.user \in Users
    BY <1>2 DEF UserCallOK
<1>7. CASE call.op = "list" /\ Told(s, UsersPage(call.page, call.filter))
    BY <1>4, <1>7
<1>8. CASE call.op = "detail" /\ accounts[call.user].there /\ Told(s, accounts[call.user])
    BY <1>4, <1>8
<1>9. CASE call.op = "refresh" /\ Told(s, None)
    BY <1>4, <1>9
<1>10. CASE call.op = "patch" /\ Store(s, call.user, call.values, None)
    <2>1. /\ DOMAIN call.values \subseteq AccountFields /\ {"there", "password"} \cap DOMAIN call.values = {}
          /\ call.user \in Users /\ IsWriter(call)
          /\ call.user = Self => {"there", "enabled"} \cap DOMAIN call.values = {}
                                 /\ ("role" \in DOMAIN call.values => call.values.role = "admin")
        BY <1>2, <1>6, <1>10 DEF UserCallOK, AccountFields, IsWriter, RecordWriters
    <2>2. PICK values : values = call.values
        OBVIOUS
    <2>3. PICK u \in Users : u = call.user
        BY <2>1
    <2>4. Store(s, u, values, None)
        BY <1>10, <2>2, <2>3
    <2>5. accounts' = [accounts EXCEPT ![u] = With(values, accounts[u])]
        BY <2>4 DEF Store
    <2>6. Serves(call)
        BY <2>1, <2>2, <2>3, <2>5, StoredServes
    <2> QED BY <1>5, <1>10, <2>4, <2>6
<1>11. CASE /\ call.op = "reset" /\ accounts[call.user].there
            /\ Store(s, call.user, [password |-> accounts[call.user].password + 1],
                     accounts[call.user].password + 1)
    <2>1. PICK u \in Users : u = call.user
        BY <1>6, <1>11 DEF RecordWriters
    <2>2. PICK word : word = accounts[u].password + 1
        OBVIOUS
    <2>3. PICK values : values = [password |-> word]
        OBVIOUS
    <2>4. Store(s, u, values, word)
        BY <1>11, <2>1, <2>2, <2>3
    <2>5. DOMAIN values = {"password"} /\ values.password = word
        BY <2>3
    <2>6. accounts' = [accounts EXCEPT ![u] = With(values, accounts[u])]
        BY <2>4 DEF Store
    <2>7. Serves(call)
        <3>1. DOMAIN values \subseteq AccountFields /\ IsWriter(call)
            BY <1>11, <2>5 DEF AccountFields, IsWriter, RecordWriters
        <3>2. u = Self => {"there", "enabled"} \cap DOMAIN values = {}
                          /\ ("role" \in DOMAIN values => values.role = "admin")
            BY <2>5
        <3> QED BY <1>11, <2>6, <3>1, <3>2, StoredServes
    <2> QED BY <1>5, <1>11, <2>1, <2>4, <2>5, <2>7
<1>12. CASE call.op = "delete" /\ Store(s, call.user, [there |-> FALSE], None)
    <2>1. PICK u \in Users : u = call.user
        BY <1>6, <1>12 DEF RecordWriters
    <2>2. PICK values : values = [there |-> FALSE]
        OBVIOUS
    <2>3. Store(s, u, values, None)
        BY <1>12, <2>1, <2>2
    <2>4. accounts' = [accounts EXCEPT ![u] = With(values, accounts[u])]
        BY <2>3 DEF Store
    <2>5. Serves(call)
        <3>1. DOMAIN values \subseteq AccountFields /\ IsWriter(call)
            BY <1>12, <2>2 DEF AccountFields, IsWriter, RecordWriters
        <3>2. u # Self
            BY <1>2, <1>12, <2>1 DEF UserCallOK
        <3> QED BY <1>12, <2>4, <3>1, <3>2, StoredServes
    <2> QED BY <1>5, <1>12, <2>3, <2>5
<1>13. CASE /\ call.op = "create" /\ ~accounts[UserCount].there
            /\ Store(s, UserCount, NewAccount(call.role), UserCount)
    <2>1. PICK values : values = NewAccount(call.role)
        OBVIOUS
    <2>2. PICK u \in Users : u = UserCount
        BY UserNames
    <2>3. Store(s, u, values, UserCount)
        BY <1>13, <2>1, <2>2
    <2>4. accounts' = [accounts EXCEPT ![u] = With(values, accounts[u])]
        BY <2>3 DEF Store
    <2>5. DOMAIN values \subseteq AccountFields
        BY <2>1 DEF NewAccount, AccountFields
    <2>6. Serves(call)
        BY <1>13, <2>2, <2>4, <2>5, UserNames, StoredServes
    <2> QED BY <1>5, <1>13, <2>3, <2>6, UserNames
<1> QED BY <1>1, <1>7, <1>8, <1>9, <1>10, <1>11, <1>12, <1>13 DEF ServeUsers

\* A call is refused, or its answer is lost.
LEMMA RefuseUsersKeeps ==
    ASSUME UsersInv, NEW s \in Slots, RefuseUsers(s) \/ LoseUsersAnswer(s)
    PROVE  UsersInv'
<1>1. PICK answer \in {Refused("refused"), Lost} :
          /\ userCalls' = [userCalls EXCEPT ![s].answer = answer] /\ UNCHANGED <<accounts, listSure>>
          /\ UNCHANGED <<place, listing, listFailed, record, pending, userModal, temporary, recordSure>>
    BY DEF RefuseUsers, LoseUsersAnswer, AnswerUser, LoseAnswer, UserPages, shownList, card
<1>2. answer.kind # "ok"
    BY <1>1 DEF Refused, Lost
<1>3. userCalls[s].op # "idle"
    BY DEF RefuseUsers, LoseUsersAnswer, Busy
<1>4. Serves(userCalls[s]) /\ listSure \in BOOLEAN
    BY <1>1, SameServes DEF UsersInv, UsersTypeInv
<1> QED BY <1>1, <1>2, <1>3, <1>4, ToldUsers

-----------------------------------------------------------------------------

\* Each button sends a change SendKeeps allows.
LEMMA SendsKeep ==
    ASSUME UsersInv, Shows, Switches \/ SaveLimit \/ ConfirmRole \/ ResetPassword \/ RemoveUser \/ RefreshUser
    PROVE  UsersInv'
<1>1. /\ place.user # None
      /\ place.user = Self => record.role = "admin"
      /\ IsSelf <=> place.user = Self
    BY DEF Shows, IsSelf, UsersInv, UsersSelfInv
<1>2. ASSUME NEW values, Mutate(values), DOMAIN values \subseteq {"enabled", "refresh", "limit", "role"},
             place.user = Self => /\ "enabled" \notin DOMAIN values
                                  /\ "role" \in DOMAIN values => values.role = "admin"
      PROVE  UsersInv'
    <2>1. PICK call : call = [op |-> "patch", values |-> values]
        OBVIOUS
    <2>2. SendUserChange(call)
        BY <1>2, <2>1 DEF Mutate
    <2>3. DOMAIN call = {"op", "values"} /\ call.op = "patch" /\ call.values = values
        BY <2>1
    <2> QED BY <1>1, <1>2, <2>2, <2>3, SendKeeps
<1>3. CASE Switches
    <2>1. CASE ~IsSelf /\ Mutate([enabled |-> ~record.shown.enabled])
        <3>1. PICK values : values = [enabled |-> ~record.shown.enabled]
            OBVIOUS
        <3>2. Mutate(values) /\ DOMAIN values = {"enabled"} /\ place.user # Self
            BY <1>1, <2>1, <3>1
        <3> QED BY <1>2, <3>2
    <2>2. CASE Mutate([refresh |-> ~record.shown.refresh])
        <3>1. PICK values : values = [refresh |-> ~record.shown.refresh]
            OBVIOUS
        <3>2. Mutate(values) /\ DOMAIN values = {"refresh"}
            BY <2>2, <3>1
        <3> QED BY <1>2, <3>2
    <2> QED BY <1>3, <2>1, <2>2 DEF Switches
<1>4. CASE SaveLimit
    <2>1. PICK values : values = [limit |-> record.limit]
        OBVIOUS
    <2>2. Mutate(values) /\ DOMAIN values = {"limit"}
        BY <1>4, <2>1 DEF SaveLimit
    <2> QED BY <1>2, <2>2
<1>5. CASE ConfirmRole
    <2>1. PICK values : values = [role |-> record.role, limit |-> record.limit]
        OBVIOUS
    <2>2. Mutate(values) /\ DOMAIN values = {"limit", "role"} /\ values.role = record.role
        BY <1>5, <2>1 DEF ConfirmRole
    <2> QED BY <1>1, <1>2, <2>2
<1>6. ASSUME NEW op, op \in {"refresh", "reset", "delete"}, SendUserChange([op |-> op]),
             op = "reset" => userModal = "password" /\ temporary = None,
             op = "delete" => userModal = "delete"
      PROVE  UsersInv'
    <2>1. PICK call : call = [op |-> op]
        OBVIOUS
    <2>2. SendUserChange(call) /\ DOMAIN call = {"op"} /\ call.op = op
        BY <1>6, <2>1
    <2> QED BY <1>1, <1>6, <2>2, SendKeeps
<1>7. CASE ResetPassword
    <2>1. \E op : op = "reset" /\ SendUserChange([op |-> op])
        BY <1>7 DEF ResetPassword
    <2> QED BY <1>6, <1>7, <2>1 DEF ResetPassword
<1>8. CASE RemoveUser
    <2>1. \E op : op = "delete" /\ SendUserChange([op |-> op])
        BY <1>8 DEF RemoveUser
    <2> QED BY <1>6, <1>8, <2>1 DEF RemoveUser
<1>9. CASE RefreshUser
    <2>1. \E op : op = "refresh" /\ SendUserChange([op |-> op])
        BY <1>9 DEF RefreshUser
    <2> QED BY <1>6, <2>1
<1> QED BY <1>3, <1>4, <1>5, <1>7, <1>8, <1>9

\* The page opens on its list.
LEMMA UsersStart ==
    ASSUME UsersInit
    PROVE  UsersInv
<1>1. PICK first : first = [op |-> "list", page |-> 1, filter |-> "all", left |-> FALSE,
                            answer |-> Unanswered, alone |-> TRUE]
    OBVIOUS
<1>2. /\ first.op = "list" /\ first.page = 1 /\ first.filter = "all" /\ first.left = FALSE
      /\ first.answer = Unanswered /\ first.alone = TRUE
      /\ DOMAIN first = {"op", "page", "filter", "left", "answer", "alone"}
    BY <1>1
<1>3. UserCallOK(first) /\ UserCallOK(NoCall) /\ ~Succeeds(first) /\ ~IsWriter(first) /\ ~IsUserChange(first)
      /\ NoCall.op = "idle" /\ ~IsListed(NoCall) /\ ~IsWriter(NoCall) /\ ~IsUserChange(NoCall)
    BY <1>2 DEF UserCallOK, IsCall, NoCall, UserOps, RecordWriters, Succeeds, Unanswered, IsWriter,
                IsListed, IsUserChange
<1>4. DOMAIN NoCalls = Slots /\ (\A s \in Slots : NoCalls[s] = NoCall) /\ Free(NoCalls) # {}
    BY <1>3, SlotsAssumption DEF NoCalls, Free, Busy
<1>5. PICK slot \in Slots :
          /\ DOMAIN userCalls = Slots
          /\ \A t \in Slots : userCalls[t] = IF t = slot THEN first ELSE NoCall
    BY <1>1, <1>4, BegunCalls DEF UsersInit
<1>6. /\ place = [page |-> 1, filter |-> "all", user |-> None]
      /\ listing = None /\ listFailed = FALSE /\ record = FreshRecord /\ pending = FALSE
      /\ userModal = None /\ temporary = None /\ listSure = TRUE /\ recordSure = FALSE
    BY DEF UsersInit
<1>7. /\ DOMAIN accounts = Users /\ \A u \in Users : DOMAIN accounts[u] = AccountFields
      /\ accounts[Self].there = TRUE /\ accounts[Self].enabled = TRUE /\ accounts[Self].role = "admin"
    <2>1. \A u \in Users : accounts[u] = [NewAccount(IF u = Self THEN "admin" ELSE "user") EXCEPT !.there = u # UserCount]
        BY DEF UsersInit
    <2>2. DOMAIN accounts = Users
        BY DEF UsersInit
    <2>3. \A u \in Users : DOMAIN accounts[u] = AccountFields
        BY <2>1 DEF NewAccount, AccountFields
    <2>4. accounts[Self] = [NewAccount("admin") EXCEPT !.there = TRUE]
        BY <2>1, UserNames
    <2> QED BY <2>2, <2>3, <2>4 DEF NewAccount
<1>8. UsersTypeInv
    BY <1>3, <1>5, <1>6, <1>7 DEF UsersTypeInv, FreshRecord
<1>9. UsersSelfInv
    BY <1>6, <1>7, UserNames DEF UsersSelfInv, FreshRecord
<1>10. UsersListInv
    <2>1. \A s \in Slots : IsListed(userCalls[s]) => s = slot
        BY <1>3, <1>5
    <2>2. IsListed(userCalls[slot])
        BY <1>2, <1>5 DEF IsListed
    <2> QED BY <1>2, <1>3, <1>5, <1>6, <2>1, <2>2 DEF UsersListInv
<1>11. UsersChangeInv
    BY <1>3, <1>5, <1>6 DEF UsersChangeInv
<1>12. UsersRecordInv
    BY <1>3, <1>5, <1>6 DEF UsersRecordInv, AloneIsNew
<1>13. UsersTemporaryInv
    BY <1>2, <1>3, <1>5, <1>6 DEF UsersTemporaryInv
<1> QED BY <1>8, <1>9, <1>10, <1>11, <1>12, <1>13 DEF UsersInv

\* Each way to go elsewhere is a visit.
LEMMA VisitsKeep ==
    ASSUME UsersInv,
           \/ \E filter \in {"all", "disabled"} : ApplyFilter(filter)
           \/ \E page \in 1..UserCount : TurnPage(page)
           \/ \E u \in Users : OpenUser(u)
           \/ LeaveUser \/ MountAgain
    PROVE  UsersInv'
<1>1. DOMAIN place = {"page", "filter", "user"} /\ place.user \in Users \cup {None}
    BY DEF UsersInv, UsersTypeInv
<1>2. SUFFICES ASSUME NEW next, DOMAIN next = {"page", "filter", "user"}, next.user \in Users \cup {None},
                      Visiting(next)
               PROVE  UsersInv'
    <2>1. CASE \E filter \in {"all", "disabled"} : ApplyFilter(filter)
        <3>1. PICK filter \in {"all", "disabled"} : ApplyFilter(filter)
            BY <2>1
        <3>2. PICK next : next = [page |-> 1, filter |-> filter, user |-> None]
            OBVIOUS
        <3>3. DOMAIN next = {"page", "filter", "user"} /\ next.user = None /\ Visiting(next)
            BY <3>1, <3>2 DEF ApplyFilter
        <3> QED BY <1>2, <3>3
    <2>2. CASE \E page \in 1..UserCount : TurnPage(page)
        <3>1. PICK page \in 1..UserCount : TurnPage(page)
            BY <2>2
        <3>2. PICK next : next = [place EXCEPT !.page = page]
            OBVIOUS
        <3>3. DOMAIN next = DOMAIN place /\ next.user = place.user /\ Visiting(next)
            BY <3>1, <3>2 DEF TurnPage
        <3> QED BY <1>1, <1>2, <3>3
    <2>3. CASE \E u \in Users : OpenUser(u)
        <3>1. PICK u \in Users : OpenUser(u)
            BY <2>3
        <3>2. PICK next : next = [place EXCEPT !.user = u]
            OBVIOUS
        <3>3. DOMAIN next = DOMAIN place /\ next.user = u /\ Visiting(next)
            BY <1>1, <3>1, <3>2 DEF OpenUser
        <3> QED BY <1>1, <1>2, <3>3
    <2>4. CASE LeaveUser
        <3>1. PICK next : next = [place EXCEPT !.user = None]
            OBVIOUS
        <3>2. DOMAIN next = DOMAIN place /\ next.user = None /\ Visiting(next)
            BY <1>1, <2>4, <3>1 DEF LeaveUser
        <3> QED BY <1>1, <1>2, <3>2
    <2>5. CASE MountAgain
        BY <1>1, <1>2, <2>5 DEF MountAgain
    <2> QED BY <2>1, <2>2, <2>3, <2>4, <2>5
<1> QED BY <1>2, VisitKeeps

\* The step of the page, action by action.
LEMMA UsersKept ==
    ASSUME UsersInv, [UsersNext]_usersVars
    PROVE  UsersInv'
<1>1. CASE UNCHANGED usersVars
    <2>1. UNCHANGED <<accounts, place, listing, listFailed, record, pending, userModal, temporary,
                      userCalls, listSure, recordSure>>
        BY <1>1 DEF usersVars
    <2>2. UsersTypeInv' /\ UsersSelfInv'
        BY <2>1 DEF UsersInv, UsersTypeInv, UsersSelfInv
    <2>3. UsersListInv'
        BY <2>1 DEF UsersInv, UsersListInv, IsListed, Succeeds, UsersPage, Matching
    <2>4. UsersChangeInv' /\ UsersTemporaryInv'
        BY <2>1 DEF UsersInv, UsersChangeInv, UsersTemporaryInv, IsUserChange, IsWriter
    <2>5. UsersRecordInv'
        BY <2>1 DEF UsersInv, UsersRecordInv, AloneIsNew, IsWriter, Succeeds
    <2> QED BY <2>2, <2>3, <2>4, <2>5 DEF UsersInv
<1>2. CASE \/ \E filter \in {"all", "disabled"} : ApplyFilter(filter)
           \/ \E page \in 1..UserCount : TurnPage(page)
           \/ \E u \in Users : OpenUser(u)
           \/ LeaveUser \/ MountAgain
    BY <1>2, VisitsKeep
<1>3. CASE LoadDetail
    BY <1>3, LoadDetailKeeps
<1>4. CASE \/ \E limit \in 0..2, role \in {"user", "admin"} : EditForm(limit, role)
           \/ \E dialog \in {"password", "delete", "role"} : OpenUserModal(dialog)
           \/ CloseUserModal \/ OpenNewUser \/ CloseNewUser
    <2>1. PICK limit, role : \/ EditForm(limit, role)
                             \/ \E dialog \in {"password", "delete", "role"} : OpenUserModal(dialog)
                             \/ CloseUserModal \/ OpenNewUser \/ CloseNewUser
        BY <1>4
    <2>2. PICK dialog \in {"password", "delete", "role"} :
              EditForm(limit, role) \/ OpenUserModal(dialog) \/ CloseUserModal \/ OpenNewUser \/ CloseNewUser
        BY <2>1
    <2> QED BY <2>2, LocalKeeps
<1>5. CASE Shows /\ (Switches \/ SaveLimit \/ ConfirmRole \/ ResetPassword \/ RemoveUser \/ RefreshUser)
    BY <1>5, SendsKeep
<1>6. CASE CreateUser
    BY <1>6, CreateKeeps
<1>7. CASE \E s \in Slots : \/ LandList(s) \/ LandDetail(s) \/ LandUserChange(s) \/ LandRemoval(s)
                            \/ LandCreateUser(s)
                            \/ ServeUsers(s) \/ RefuseUsers(s) \/ LoseUsersAnswer(s)
    BY <1>7, LandListKeeps, LandDetailKeeps, LandUserChangeKeeps, LandRemovalKeeps, LandCreateKeeps,
       ServeUsersKeeps, RefuseUsersKeeps
<1> QED BY <1>1, <1>2, <1>3, <1>4, <1>5, <1>6, <1>7 DEF UsersNext

\* What the runs check.
LEMMA UsersInvImplies ==
    ASSUME UsersInv
    PROVE  ListIsOfAddress /\ OneChangeOfUser /\ TemporaryIsValid /\ RecordIsCurrent /\ SelfIsKept
<1>1. ASSUME NEW ops, NEW s \in Slots
      PROVE  s \in Listening(ops) <=> userCalls[s].op \in ops /\ ~userCalls[s].left
    BY DEF Listening, Waiting
<1>2. ListIsOfAddress
    <2>1. ASSUME Listening({"list"}) = {}
          PROVE  \A s \in Slots : ~IsListed(userCalls[s])
        BY <1>1, <2>1 DEF IsListed
    <2> QED BY <2>1 DEF ListIsOfAddress, UsersInv, UsersListInv
<1>3. OneChangeOfUser
    <2>1. PICK S : S = Listening({"patch", "reset", "delete", "refresh"})
                       \cup {s \in Listening({"detail"}) : userCalls[s].after}
        OBVIOUS
    <2>2. S \subseteq Slots
        BY <2>1 DEF Listening, Waiting
    <2>3. \A s \in Slots : s \in S <=> IsUserChange(userCalls[s])
        BY <1>1, <2>1 DEF IsUserChange
    <2>4. pending \in BOOLEAN /\ (pending <=> S # {}) /\ \A s, t \in S : s = t
        BY <2>2, <2>3 DEF UsersInv, UsersTypeInv, UsersChangeInv
    <2>5. Cardinality(S) = IF pending THEN 1 ELSE 0
        BY <2>4, OneIfFlag
    <2> QED BY <2>1, <2>5 DEF OneChangeOfUser
<1>4. TemporaryIsValid
    BY DEF TemporaryIsValid, UsersInv, UsersTemporaryInv
<1>5. RecordIsCurrent
    <2>1. SUFFICES ASSUME recordSure, Listening(RecordWriters) = {}
                   PROVE  record.shown = accounts[place.user]
        BY DEF RecordIsCurrent
    <2>2. \A s \in Slots : ~IsWriter(userCalls[s])
        BY <1>1, <2>1 DEF IsWriter, UsersInv, UsersRecordInv
    <2> QED BY <2>1, <2>2 DEF UsersInv, UsersRecordInv
<1>6. SelfIsKept
    BY DEF SelfIsKept, UsersInv, UsersSelfInv
<1> QED BY <1>2, <1>3, <1>4, <1>5, <1>6

-----------------------------------------------------------------------------
(* System *)

SystemOps == Disturbers \cup {"csv", "health"}

SystemCallOK(call) ==
    /\ call.op \in {"idle"} \cup SystemOps /\ IsCall(call, {"left", "alone"})
    /\ call.op = "load" => {"tab", "part"} \subseteq DOMAIN call
    /\ call.op = "save" => {"policy", "confirmed", "sure"} \subseteq DOMAIN call
    /\ call.op = "incident" => {"of", "to"} \subseteq DOMAIN call

\* What makes an answer old: everything but a load that was replaced.
Disturbs(call) == call.op \in Disturbers /\ ~(call.op = "load" /\ call.left)

IsViewLoader(call) == call.op \in {"load", "again"} /\ ~call.left

IsSystemChange(call) == call.op \in SystemChanges /\ ~call.left

IsExport(call) == call.op = "csv" /\ ~call.left

\* A check whose line is still on the page.
IsCheck(call) == call.op = "health" /\ ~call.left

SystemTypeInv ==
    /\ DOMAIN depot = {"policy", "invites", "incidents"} /\ DOMAIN mounted = {"tab", "part"}
    /\ DOMAIN systemView = {"shown", "failed", "loading", "saving", "exporting", "dialog", "draft"}
    /\ systemView.saving \in BOOLEAN /\ systemView.exporting \in BOOLEAN /\ viewSure \in BOOLEAN
    /\ DOMAIN systemCalls = Slots /\ \A s \in Slots : SystemCallOK(systemCalls[s])
    /\ checking \in BOOLEAN /\ (retryCheck = "own" => mounted.tab \in HealthTabs)

\* One waits for each of the flags.
LocksFit(calls, view, health) ==
    /\ view.loading => \E s \in Slots : IsViewLoader(calls[s])
    /\ view.saving <=> \E s \in Slots : IsSystemChange(calls[s])
    /\ view.exporting <=> \E s \in Slots : IsExport(calls[s])
    /\ health => \E s \in Slots : IsCheck(calls[s])
    /\ \A s, t \in Slots : \/ IsSystemChange(calls[s]) /\ IsSystemChange(calls[t])
                           \/ IsExport(calls[s]) /\ IsExport(calls[t])
                           => s = t

\* What is listened to belongs to the tab that is mounted.
IsOfTab(call, where) ==
    ~call.left => /\ call.op = "load" => call.tab = where.tab /\ call.part = where.part
                  /\ call.op = "save" => where.tab = "settings"
                  /\ call.op \in {"incident", "again"} => where.tab = "incidents"
                  /\ call.op = "health" => where.tab \in HealthTabs

\* A request that is alone brings what is stored.
BringsStored(call) ==
    Disturbs(call) /\ call.alone =>
        /\ Succeeds(call) =>
              /\ call.op = "load" => call.answer.body = Stored(call.tab, call.part)
              /\ call.op = "again" => call.answer.body = depot.incidents
              /\ call.op = "save" => call.answer.body = depot.policy
        /\ call.op = "save" /\ call.sure /\ ~call.confirmed /\ call.answer = Unanswered =>
              ~(call.policy.retention < depot.policy.retention)

\* A row that is changed alone is the only one that differs.
RowFollows(call) ==
    call.op = "incident" /\ call.alone =>
        /\ call.answer = Unanswered => systemView.shown = depot.incidents
        /\ Succeeds(call) => [systemView.shown EXCEPT ![call.of] = call.answer.body] = depot.incidents

SystemSureInv ==
    /\ \A s, t \in Slots : Disturbs(systemCalls[s]) /\ Disturbs(systemCalls[t]) /\ systemCalls[s].alone => s = t
    /\ \A s \in Slots : BringsStored(systemCalls[s])
    /\ viewSure => \A s \in Slots : (Disturbs(systemCalls[s]) => ~systemCalls[s].left) /\ RowFollows(systemCalls[s])
    /\ viewSure /\ (\A s \in Slots : ~Disturbs(systemCalls[s])) =>
          systemView.shown = Stored(mounted.tab, mounted.part)

\* A dialog is of the tab it was opened on.
DialogFits(view, where) ==
    view.dialog # None => /\ view.dialog.name = "incident" => where.tab = "incidents"
                          /\ view.dialog.name = "retention" => where.tab = "settings"

SystemInv ==
    /\ SystemTypeInv
    /\ DialogFits(systemView, mounted)
    /\ LocksFit(systemCalls, systemView, checking)
    /\ \A s \in Slots : IsOfTab(systemCalls[s], mounted) \/ systemCalls[s].op = "idle"
    /\ SystemSureInv

-----------------------------------------------------------------------------

\* The sets of operations, and how they lie in each other.
LEMMA SystemNames ==
    /\ "idle" \notin SystemOps /\ SystemChanges \subseteq Disturbers /\ Disturbers \subseteq SystemOps
    /\ {"csv", "health"} \cap Disturbers = {} /\ {"load", "again"} \subseteq Disturbers
    /\ {"load", "again"} \cap SystemChanges = {}
BY DEF SystemOps, Disturbers, SystemChanges

\* A request like another one but for the ghost.
LEMMA SameSystemCall ==
    ASSUME NEW old, NEW next, SystemCallOK(old), DOMAIN next = DOMAIN old,
           \A f \in DOMAIN old \ {"alone"} : next[f] = old[f]
    PROVE  /\ SystemCallOK(next) /\ next.op = old.op
           /\ old.op # "idle" => next.left = old.left /\ next.answer = old.answer
           /\ Disturbs(next) <=> Disturbs(old)
           /\ IsViewLoader(next) <=> IsViewLoader(old)
           /\ IsSystemChange(next) <=> IsSystemChange(old)
           /\ IsExport(next) <=> IsExport(old)
           /\ IsCheck(next) <=> IsCheck(old)
           /\ \A where : IsOfTab(old, where) /\ old.op # "idle" => IsOfTab(next, where)
<1>1. next.op = old.op
    BY DEF SystemCallOK, IsCall
<1>2. old.op # "idle" => next.left = old.left /\ next.answer = old.answer
    BY DEF SystemCallOK, IsCall
<1>3. /\ old.op = "load" => next.tab = old.tab /\ next.part = old.part
      /\ SystemCallOK(next)
    BY <1>1 DEF SystemCallOK, IsCall
<1>4. old.op \in {"load", "again", "csv"} \cup SystemChanges \cup Disturbers => old.op # "idle"
    BY DEF SystemChanges, Disturbers
<1> QED BY <1>1, <1>2, <1>3, <1>4 DEF Disturbs, IsViewLoader, IsSystemChange, IsExport, IsCheck, IsOfTab

\* Some are left, and the others are as they were.
AreLeft(calls, ops, old) ==
    /\ DOMAIN old = Slots
    /\ \A s \in Slots :
         /\ SystemCallOK(old[s]) /\ old[s].op = calls[s].op
         /\ calls[s].op \in ops => old[s].left = TRUE
         /\ calls[s].op \notin ops => old[s] = calls[s]

\* What a tab leaves alone is what it left, and the other calls stay.
LEMMA LeftCalls ==
    ASSUME NEW calls, DOMAIN calls = Slots, \A s \in Slots : SystemCallOK(calls[s]),
           NEW ops, "idle" \notin ops
    PROVE  AreLeft(calls, ops, LeftAlone(ops, calls))
<1>0. PICK old : old = LeftAlone(ops, calls)
    OBVIOUS
<1>1. DOMAIN old = Slots
    BY <1>0 DEF LeftAlone
<1>2. ASSUME NEW s \in Slots
      PROVE  /\ SystemCallOK(old[s]) /\ old[s].op = calls[s].op
             /\ calls[s].op \in ops => old[s].left = TRUE
             /\ calls[s].op \notin ops => old[s] = calls[s]
    <2>1. PICK call : call = calls[s]
        OBVIOUS
    <2>2. SystemCallOK(call)
        BY <2>1
    <2>3. CASE call.op \in ops
        <3>1. PICK left : left = [call EXCEPT !.left = TRUE]
            OBVIOUS
        <3>2. old[s] = left
            BY <1>0, <2>1, <2>3, <3>1 DEF LeftAlone
        <3>3. /\ DOMAIN left = DOMAIN call /\ left.left = TRUE
              /\ \A f \in DOMAIN call \ {"left"} : left[f] = call[f]
            BY <2>2, <2>3, <3>1 DEF SystemCallOK, IsCall
        <3>4. left.op = call.op
            BY <2>2, <3>3 DEF SystemCallOK, IsCall
        <3> QED BY <2>1, <2>2, <2>3, <3>2, <3>3, <3>4 DEF SystemCallOK, IsCall
    <2>4. CASE call.op \notin ops
        BY <1>0, <2>1, <2>2, <2>4 DEF LeftAlone
    <2> QED BY <2>3, <2>4
<1> QED BY <1>0, <1>1, <1>2 DEF AreLeft

\* A request that is sent: all it meets are alone no more.
SystemSent(calls, call, after) ==
    /\ DOMAIN after = Slots
    /\ \E slot \in Slots :
          /\ calls[slot].op = "idle"
          /\ DOMAIN after[slot] = DOMAIN call \cup {"answer", "alone"}
          /\ \A f \in DOMAIN call : after[slot][f] = call[f]
          /\ after[slot].answer = Unanswered
          /\ after[slot].alone => \A t \in Slots : ~Disturbs(calls[t])
          /\ \A t \in Slots \ {slot} :
                /\ DOMAIN after[t] = DOMAIN calls[t]
                /\ \A f \in DOMAIN calls[t] \ {"alone"} : after[t][f] = calls[t][f]
                /\ calls[t].op \in Disturbers => after[t].alone = FALSE
                /\ calls[t].op \notin Disturbers => after[t] = calls[t]

\* A request takes a slot and leaves the other calls as they were.
LEMMA SentSystem ==
    ASSUME NEW calls, DOMAIN calls = Slots, \A s \in Slots : SystemCallOK(calls[s]),
           NEW call, {"answer", "alone"} \cap DOMAIN call = {}, SendSystem(calls, call)
    PROVE  SystemSent(calls, call, systemCalls')
<1>1. PICK met : met = Crossed(calls, Disturbers)
    OBVIOUS
<1>2. DOMAIN met = Slots
    BY <1>1 DEF Crossed
<1>3. ASSUME NEW t \in Slots
      PROVE  /\ DOMAIN met[t] = DOMAIN calls[t] /\ met[t].op = calls[t].op
             /\ \A f \in DOMAIN calls[t] \ {"alone"} : met[t][f] = calls[t][f]
             /\ calls[t].op \in Disturbers => met[t].alone = FALSE
             /\ calls[t].op \notin Disturbers => met[t] = calls[t]
    <2>1. PICK old : old = calls[t]
        OBVIOUS
    <2>2. SystemCallOK(old)
        BY <2>1
    <2>3. CASE old.op \in Disturbers
        <3>1. met[t] = [old EXCEPT !.alone = FALSE]
            BY <1>1, <2>1, <2>3 DEF Crossed
        <3> QED BY <2>1, <2>2, <2>3, <3>1, SystemNames DEF SystemCallOK, IsCall
    <2>4. CASE old.op \notin Disturbers
        BY <1>1, <2>1, <2>4 DEF Crossed
    <2> QED BY <2>3, <2>4
<1>4. Free(met) # {}
    BY <1>3 DEF SendSystem, Free, Busy
<1>5. PICK heard : heard = {s \in Waiting(calls, Disturbers) : ~(calls[s].op = "load" /\ calls[s].left)}
    OBVIOUS
<1>6. heard = {} => \A t \in Slots : ~Disturbs(calls[t])
    BY <1>5 DEF Waiting, Disturbs
<1>7. PICK made : made = With([answer |-> Unanswered, alone |-> heard = {}], call)
    OBVIOUS
<1>8. PICK own : own = [answer |-> Unanswered, alone |-> heard = {}]
    OBVIOUS
<1>9. DOMAIN own = {"answer", "alone"} /\ own.answer = Unanswered /\ (own.alone => heard = {})
    BY <1>8
<1>10. /\ DOMAIN made = {"answer", "alone"} \cup DOMAIN call
       /\ \A f \in DOMAIN call : made[f] = call[f]
       /\ made.answer = Unanswered /\ (made.alone => heard = {})
    <2>1. made = With(own, call)
        BY <1>7, <1>8
    <2> QED BY <1>9, <2>1 DEF With
<1>11. systemCalls' = Begin(met, made)
    BY <1>1, <1>5, <1>7 DEF SendSystem
<1>12. PICK slot \in Slots :
          /\ met[slot].op = "idle" /\ DOMAIN systemCalls' = Slots
          /\ \A t \in Slots : systemCalls'[t] = IF t = slot THEN made ELSE met[t]
    BY <1>2, <1>4, <1>11, BegunCalls
<1>13. calls[slot].op = "idle" /\ systemCalls'[slot] = made
    BY <1>3, <1>12
<1>14. \A t \in Slots \ {slot} : systemCalls'[t] = met[t]
    BY <1>12
<1>15. PICK after : after = systemCalls'
    OBVIOUS
<1>16. ASSUME NEW t \in Slots \ {slot}
      PROVE  /\ DOMAIN after[t] = DOMAIN calls[t]
             /\ \A f \in DOMAIN calls[t] \ {"alone"} : after[t][f] = calls[t][f]
             /\ calls[t].op \in Disturbers => after[t].alone = FALSE
             /\ calls[t].op \notin Disturbers => after[t] = calls[t]
    <2>1. after[t] = met[t]
        BY <1>14, <1>15
    <2> QED BY <1>3, <2>1
<1>17. /\ DOMAIN after[slot] = DOMAIN call \cup {"answer", "alone"}
       /\ \A f \in DOMAIN call : after[slot][f] = call[f]
       /\ after[slot].answer = Unanswered
       /\ after[slot].alone => \A t \in Slots : ~Disturbs(calls[t])
    <2>1. after[slot] = made
        BY <1>13, <1>15
    <2> QED BY <1>6, <1>10, <2>1
<1>18. DOMAIN after = Slots
    BY <1>12, <1>15
<1>19. SystemSent(calls, call, after)
    BY <1>13, <1>16, <1>17, <1>18 DEF SystemSent
<1> QED BY <1>15, <1>19

\* What is needed for a request to start.
StartsSystem(calls, call, view, health) ==
    /\ view.loading => IsViewLoader(call) \/ \E s \in Slots : IsViewLoader(calls[s])
    /\ view.saving <=> IsSystemChange(call) \/ \E s \in Slots : IsSystemChange(calls[s])
    /\ IsSystemChange(call) => \A s \in Slots : ~IsSystemChange(calls[s])
    /\ view.exporting <=> \E s \in Slots : IsExport(calls[s])
    /\ health => \E s \in Slots : IsCheck(calls[s])
    /\ \A s, t \in Slots : \/ IsSystemChange(calls[s]) /\ IsSystemChange(calls[t])
                           \/ IsExport(calls[s]) /\ IsExport(calls[t])
                           => s = t

CallFields(call) ==
    /\ {"op", "left"} \subseteq DOMAIN call /\ call.op \in Disturbers /\ call.left = FALSE
    /\ call.op = "load" => {"tab", "part"} \subseteq DOMAIN call
    /\ call.op = "save" => {"policy", "confirmed", "sure"} \subseteq DOMAIN call
    /\ call.op = "incident" => {"of", "to"} \subseteq DOMAIN call

\* A change that is alone follows what is shown.
IsInformed(call, view, sure) ==
    /\ call.op = "save" /\ call.sure /\ ~call.confirmed => ~(call.policy.retention < depot.policy.retention)
    /\ call.op = "incident" /\ sure => view.shown = depot.incidents

\* Whatever sends a request keeps the invariant, when its lock and its knowledge are set with it.
LEMMA SentKeeps ==
    ASSUME SystemInv, NEW calls, DOMAIN calls = Slots, \A s \in Slots : SystemCallOK(calls[s]),
           NEW call, CallFields(call), SystemSent(calls, call, systemCalls'), depot' = depot,
           NEW view, systemView' = view, NEW where, mounted' = where,
           DOMAIN where = {"tab", "part"}, DOMAIN view = DOMAIN systemView,
           view.saving \in BOOLEAN, view.exporting \in BOOLEAN, viewSure' \in BOOLEAN,
           DialogFits(view, where), StartsSystem(calls, call, view, checking'),
           checking' \in BOOLEAN, retryCheck' = "own" => where.tab \in HealthTabs,
           IsOfTab(call, where), \A s \in Slots : IsOfTab(calls[s], where) \/ calls[s].op = "idle",
           viewSure' => \A s \in Slots : Disturbs(calls[s]) => ~calls[s].left,
           (\A s \in Slots : ~Disturbs(calls[s])) => IsInformed(call, view, viewSure')
    PROVE  SystemInv'
<1>0. PICK after : after = systemCalls'
    OBVIOUS
<1>1. PICK slot \in Slots :
          /\ calls[slot].op = "idle"
          /\ DOMAIN after[slot] = DOMAIN call \cup {"answer", "alone"}
          /\ \A f \in DOMAIN call : after[slot][f] = call[f]
          /\ after[slot].answer = Unanswered
          /\ after[slot].alone => \A t \in Slots : ~Disturbs(calls[t])
          /\ \A t \in Slots \ {slot} :
                /\ DOMAIN after[t] = DOMAIN calls[t]
                /\ \A f \in DOMAIN calls[t] \ {"alone"} : after[t][f] = calls[t][f]
                /\ calls[t].op \in Disturbers => after[t].alone = FALSE
                /\ calls[t].op \notin Disturbers => after[t] = calls[t]
    BY <1>0 DEF SystemSent
<1>2. ASSUME NEW t \in Slots \ {slot}
      PROVE  /\ SystemCallOK(after[t]) /\ after[t].op = calls[t].op
             /\ Disturbs(after[t]) => after[t].left = calls[t].left /\ after[t].alone = FALSE
             /\ Disturbs(after[t]) <=> Disturbs(calls[t])
             /\ IsViewLoader(after[t]) <=> IsViewLoader(calls[t])
             /\ IsSystemChange(after[t]) <=> IsSystemChange(calls[t])
             /\ IsExport(after[t]) <=> IsExport(calls[t])
             /\ IsCheck(after[t]) <=> IsCheck(calls[t])
             /\ IsOfTab(after[t], where) \/ after[t].op = "idle"
    <2>1. SystemCallOK(calls[t]) /\ DOMAIN after[t] = DOMAIN calls[t]
          /\ \A f \in DOMAIN calls[t] \ {"alone"} : after[t][f] = calls[t][f]
        BY <1>1
    <2>2. /\ SystemCallOK(after[t]) /\ after[t].op = calls[t].op
          /\ calls[t].op # "idle" => after[t].left = calls[t].left
          /\ Disturbs(after[t]) <=> Disturbs(calls[t])
          /\ IsViewLoader(after[t]) <=> IsViewLoader(calls[t])
          /\ IsSystemChange(after[t]) <=> IsSystemChange(calls[t])
          /\ IsExport(after[t]) <=> IsExport(calls[t])
          /\ IsCheck(after[t]) <=> IsCheck(calls[t])
          /\ IsOfTab(calls[t], where) /\ calls[t].op # "idle" => IsOfTab(after[t], where)
        BY <2>1, SameSystemCall
    <2>3. Disturbs(calls[t]) => calls[t].op \in Disturbers /\ calls[t].op # "idle"
        BY SystemNames DEF Disturbs
    <2> QED BY <1>1, <2>2, <2>3
<1>3. PICK made : made = after[slot]
    OBVIOUS
<1>4. /\ made.op = call.op /\ made.left = FALSE /\ made.answer = Unanswered
      /\ \A f \in DOMAIN call : made[f] = call[f]
      /\ made.alone => \A t \in Slots : ~Disturbs(calls[t])
      /\ DOMAIN made = DOMAIN call \cup {"answer", "alone"}
    BY <1>1, <1>3 DEF CallFields
<1>5. /\ SystemCallOK(made) /\ Disturbs(made) /\ ~IsExport(made) /\ made.op # "health" /\ ~Succeeds(made)
      /\ IsViewLoader(made) <=> IsViewLoader(call)
      /\ IsSystemChange(made) <=> IsSystemChange(call)
      /\ IsOfTab(made, where)
    <2>1. /\ made.op = "load" => made.tab = call.tab /\ made.part = call.part
          /\ made.op \in Disturbers
        BY <1>4 DEF CallFields
    <2>2. SystemCallOK(made)
        BY <1>4 DEF CallFields, SystemCallOK, IsCall, SystemOps
    <2>3. ~Succeeds(made)
        BY <1>4 DEF Succeeds, Unanswered
    <2> QED BY <1>4, <2>1, <2>2, <2>3, SystemNames DEF CallFields, Disturbs, IsExport, IsViewLoader, IsSystemChange, IsOfTab
<1>6. ~Disturbs(calls[slot]) /\ ~IsViewLoader(calls[slot]) /\ ~IsSystemChange(calls[slot]) /\ ~IsExport(calls[slot])
      /\ ~IsCheck(calls[slot])
    BY <1>1, SystemNames DEF Disturbs, IsViewLoader, IsSystemChange, IsExport, IsCheck, SystemOps
<1>7. SystemTypeInv'
    <2>1. \A s \in Slots : SystemCallOK(after[s])
        BY <1>2, <1>3, <1>5
    <2>2. DOMAIN after = Slots
        BY <1>0 DEF SystemSent
    <2> QED BY <1>0, <2>1, <2>2 DEF SystemInv, SystemTypeInv
<1>8. LocksFit(systemCalls, systemView, checking)'
    <2>1. LocksFit(after, view, checking')
        <3>1. /\ IsViewLoader(after[slot]) <=> IsViewLoader(call)
              /\ IsSystemChange(after[slot]) <=> IsSystemChange(call)
              /\ ~IsExport(after[slot])
            BY <1>3, <1>5
        <3>2. (\E s \in Slots : IsViewLoader(after[s])) <=> IsViewLoader(call) \/ \E s \in Slots : IsViewLoader(calls[s])
            BY <1>2, <1>6, <3>1
        <3>3. (\E s \in Slots : IsSystemChange(after[s]))
                  <=> IsSystemChange(call) \/ \E s \in Slots : IsSystemChange(calls[s])
            BY <1>2, <1>6, <3>1
        <3>4. /\ (\E s \in Slots : IsExport(after[s])) <=> \E s \in Slots : IsExport(calls[s])
              /\ (\E s \in Slots : IsCheck(calls[s])) => \E s \in Slots : IsCheck(after[s])
            BY <1>2, <1>6, <3>1
        <3>5. \A s, t \in Slots : IsSystemChange(after[s]) /\ IsSystemChange(after[t]) => s = t
            <4>1. \A s \in Slots \ {slot} : IsSystemChange(after[s]) <=> IsSystemChange(calls[s])
                BY <1>2
            <4>2. /\ \A s, t \in Slots : IsSystemChange(calls[s]) /\ IsSystemChange(calls[t]) => s = t
                  /\ IsSystemChange(call) => \A s \in Slots : ~IsSystemChange(calls[s])
                BY DEF StartsSystem
            <4> QED BY <3>1, <4>1, <4>2
        <3>6. \A s, t \in Slots : IsExport(after[s]) /\ IsExport(after[t]) => s = t
            BY <1>2, <3>1 DEF StartsSystem
        <3> QED BY <3>2, <3>3, <3>4, <3>5, <3>6 DEF StartsSystem, LocksFit
    <2> QED BY <1>0, <2>1 DEF LocksFit
<1>9. (\A s \in Slots : IsOfTab(systemCalls[s], mounted) \/ systemCalls[s].op = "idle")'
    <2>1. \A s \in Slots : IsOfTab(after[s], where) \/ after[s].op = "idle"
        BY <1>2, <1>3, <1>5
    <2> QED BY <1>0, <2>1 DEF IsOfTab
<1>10. SystemSureInv'
    <2>1. \A s, t \in Slots : Disturbs(after[s]) /\ Disturbs(after[t]) /\ after[s].alone => s = t
        BY <1>2, <1>3, <1>4, <1>5
    <2>2. \A s \in Slots : s # slot => ~Disturbs(after[s]) \/ ~after[s].alone
        BY <1>2
    <2>3. \A s \in Slots : BringsStored(systemCalls[s])'
        <3>1. BringsStored(systemCalls[slot])'
            <4>1. made.op = "save" => /\ call.sure = made.sure /\ call.confirmed = made.confirmed
                                      /\ made.policy = call.policy
                BY <1>4 DEF CallFields
            <4>2. made.alone /\ made.op = "save" /\ made.sure /\ ~made.confirmed =>
                      ~(made.policy.retention < depot.policy.retention)
                BY <1>4, <4>1 DEF IsInformed
            <4> QED BY <1>0, <1>3, <1>5, <4>2 DEF BringsStored, Succeeds
        <3>2. \A s \in Slots : s # slot => BringsStored(systemCalls[s])'
            BY <1>0, <2>2 DEF BringsStored, Disturbs
        <3> QED BY <3>1, <3>2
    <2>4. ASSUME viewSure'
          PROVE  \A s \in Slots : (Disturbs(systemCalls[s]) => ~systemCalls[s].left)' /\ RowFollows(systemCalls[s])'
        <3>1. (Disturbs(systemCalls[slot]) => ~systemCalls[slot].left)' /\ RowFollows(systemCalls[slot])'
            <4>1. made.op = "incident" /\ made.alone => view.shown = depot.incidents
                BY <1>4, <2>4 DEF IsInformed
            <4> QED BY <1>0, <1>3, <1>4, <1>5, <4>1 DEF RowFollows, Succeeds
        <3>2. ASSUME NEW s \in Slots, s # slot
              PROVE  (Disturbs(systemCalls[s]) => ~systemCalls[s].left)' /\ RowFollows(systemCalls[s])'
            <4>1. Disturbs(after[s]) => ~after[s].left
                BY <1>2, <2>4, <3>2
            <4>2. after[s].op = "incident" => ~after[s].alone
                BY <2>2, <3>2 DEF Disturbs, Disturbers, SystemChanges
            <4> QED BY <1>0, <4>1, <4>2 DEF RowFollows, Disturbs
        <3> QED BY <3>1, <3>2
    <2>5. Disturbs(systemCalls[slot])'
        BY <1>0, <1>3, <1>5 DEF Disturbs
    <2>6. \A s \in Slots : Disturbs(systemCalls[s])' <=> Disturbs(after[s])
        BY <1>0 DEF Disturbs
    <2> QED BY <1>0, <2>1, <2>3, <2>4, <2>5, <2>6 DEF SystemSureInv
<1>11. DialogFits(systemView, mounted)'
    BY DEF DialogFits
<1> QED BY <1>7, <1>8, <1>9, <1>10, <1>11 DEF SystemInv

\* Of the locks all but the one of the loads.
Locked(calls, view, health) ==
    /\ view.saving <=> \E s \in Slots : IsSystemChange(calls[s])
    /\ view.exporting <=> \E s \in Slots : IsExport(calls[s])
    /\ health => \E s \in Slots : IsCheck(calls[s])
    /\ \A s, t \in Slots : \/ IsSystemChange(calls[s]) /\ IsSystemChange(calls[t])
                           \/ IsExport(calls[s]) /\ IsExport(calls[t])
                           => s = t

\* The request of a tab locks the view and promises nothing of what is shown.
LEMMA LoadCall ==
    ASSUME NEW tab, NEW piece, NEW call, call = Load(tab, piece)
    PROVE  /\ CallFields(call) /\ {"answer", "alone"} \cap DOMAIN call = {}
           /\ call.op = "load" /\ call.tab = tab /\ call.part = piece /\ IsViewLoader(call) /\ ~IsSystemChange(call)
           /\ \A view, sure : IsInformed(call, view, sure)
<1>1. /\ DOMAIN call = {"op", "tab", "part", "left"}
      /\ call.op = "load" /\ call.tab = tab /\ call.part = piece /\ call.left = FALSE
    BY DEF Load
<1> QED BY <1>1, SystemNames DEF CallFields, IsViewLoader, IsSystemChange, IsInformed

\* The tab that is mounted is loaded again.
LEMMA LoadKeeps ==
    ASSUME SystemInv, NEW calls, DOMAIN calls = Slots, \A s \in Slots : SystemCallOK(calls[s]),
           NEW piece, LoadAgain(piece, calls), depot' = depot,
           NEW view, systemView' = view, DOMAIN view = DOMAIN systemView,
           view.saving \in BOOLEAN, view.exporting \in BOOLEAN, viewSure' \in BOOLEAN,
           Locked(calls, view, checking'), DialogFits(view, mounted),
           checking' \in BOOLEAN, retryCheck' = "own" => mounted.tab \in HealthTabs,
           \A s \in Slots : IsOfTab(calls[s], mounted) \/ calls[s].op = "idle",
           viewSure' => \A s \in Slots : Disturbs(calls[s]) => ~calls[s].left
    PROVE  SystemInv'
<1>1. PICK old : old = LeftAlone({"load"}, calls)
    OBVIOUS
<1>2. PICK call : call = Load(mounted.tab, piece)
    OBVIOUS
<1>3. PICK where : where = [mounted EXCEPT !.part = piece]
    OBVIOUS
<1>4. SendSystem(old, call) /\ mounted' = where
    BY <1>1, <1>2, <1>3 DEF LoadAgain
<1>5. DOMAIN where = {"tab", "part"} /\ where.tab = mounted.tab /\ where.part = piece
    BY <1>3 DEF SystemInv, SystemTypeInv
<1>6. /\ CallFields(call) /\ {"answer", "alone"} \cap DOMAIN call = {}
      /\ call.op = "load" /\ call.tab = where.tab /\ call.part = where.part
      /\ IsViewLoader(call) /\ ~IsSystemChange(call)
      /\ IsInformed(call, view, viewSure')
    BY <1>2, <1>5, LoadCall
<1>7. /\ DOMAIN old = Slots
      /\ \A s \in Slots :
           /\ SystemCallOK(old[s]) /\ old[s].op = calls[s].op
           /\ calls[s].op \in {"load"} => old[s].left = TRUE
           /\ calls[s].op \notin {"load"} => old[s] = calls[s]
    <2>1. PICK ops : ops = {"load"}
        OBVIOUS
    <2>2. AreLeft(calls, ops, old)
        BY <1>1, <2>1, LeftCalls
    <2>3. /\ DOMAIN old = Slots
          /\ \A s \in Slots :
               /\ SystemCallOK(old[s]) /\ old[s].op = calls[s].op
               /\ calls[s].op \in ops => old[s].left = TRUE
               /\ calls[s].op \notin ops => old[s] = calls[s]
        BY <2>2 DEF AreLeft
    <2> QED BY <2>1, <2>3
<1>8. ASSUME NEW s \in Slots
      PROVE  /\ SystemCallOK(old[s]) /\ old[s].op = calls[s].op
             /\ Disturbs(old[s]) => Disturbs(calls[s]) /\ old[s].left = calls[s].left
             /\ IsSystemChange(old[s]) <=> IsSystemChange(calls[s])
             /\ IsExport(old[s]) <=> IsExport(calls[s])
             /\ IsCheck(old[s]) <=> IsCheck(calls[s])
             /\ IsOfTab(old[s], where) \/ old[s].op = "idle"
    <2>1. CASE calls[s].op = "load"
        <3>1. old[s].op = "load" /\ old[s].left = TRUE
            BY <1>7, <2>1
        <3> QED BY <1>7, <2>1, <3>1, SystemNames DEF Disturbs, IsSystemChange, IsExport, IsCheck, IsOfTab
    <2>2. CASE calls[s].op # "load"
        <3>1. old[s] = calls[s]
            BY <1>7, <2>2
        <3> QED BY <1>5, <1>7, <2>2, <3>1 DEF IsOfTab
    <2> QED BY <2>1, <2>2
<1>9. SystemSent(old, call, systemCalls')
    BY <1>4, <1>6, <1>7, SentSystem
<1>10. StartsSystem(old, call, view, checking')
    <2>1. /\ (\E s \in Slots : IsSystemChange(old[s])) <=> \E s \in Slots : IsSystemChange(calls[s])
          /\ (\E s \in Slots : IsExport(old[s])) <=> \E s \in Slots : IsExport(calls[s])
          /\ (\E s \in Slots : IsCheck(old[s])) <=> \E s \in Slots : IsCheck(calls[s])
        BY <1>8
    <2>2. \A s, t \in Slots : \/ IsSystemChange(old[s]) /\ IsSystemChange(old[t])
                              \/ IsExport(old[s]) /\ IsExport(old[t])
                              => s = t
        BY <1>8 DEF Locked
    <2> QED BY <1>6, <2>1, <2>2 DEF StartsSystem, Locked
<1>11. IsOfTab(call, where)
    BY <1>6 DEF IsOfTab
<1>12. viewSure' => \A s \in Slots : Disturbs(old[s]) => ~old[s].left
    BY <1>8
<1>13. \A s \in Slots : IsOfTab(old[s], where) \/ old[s].op = "idle"
    BY <1>8
<1>14. (\A s \in Slots : ~Disturbs(old[s])) => IsInformed(call, view, viewSure')
    BY <1>6
<1>15. DialogFits(view, where)
    BY <1>5 DEF DialogFits
<1>16. retryCheck' = "own" => where.tab \in HealthTabs
    BY <1>5
<1> QED BY <1>16, <1>4, <1>5, <1>6, <1>7, <1>9, <1>10, <1>15, <1>11, <1>12, <1>13, <1>14, SentKeeps

\* What the invariant says of the calls as they are.
LEMMA LockedNow ==
    ASSUME SystemInv
    PROVE  /\ DOMAIN systemCalls = Slots /\ \A s \in Slots : SystemCallOK(systemCalls[s])
           /\ Locked(systemCalls, systemView, checking)
           /\ checking \in BOOLEAN /\ (retryCheck = "own" => mounted.tab \in HealthTabs)
           /\ \A s \in Slots : IsOfTab(systemCalls[s], mounted) \/ systemCalls[s].op = "idle"
           /\ viewSure => \A s \in Slots : Disturbs(systemCalls[s]) => ~systemCalls[s].left
BY DEF SystemInv, SystemTypeInv, LocksFit, Locked, SystemSureInv

\* The retry of a load, and the other parts of what a tab shows.
LEMMA TurnKeeps ==
    ASSUME SystemInv, (\E piece \in Parts : TurnPart(piece)) \/ Reload
    PROVE  SystemInv'
<1>1. PICK piece : /\ LoadAgain(piece, systemCalls)
                  /\ systemView' = [systemView EXCEPT !.loading = TRUE]
                  /\ UNCHANGED <<depot, checking, retryCheck, viewSure>>
    BY DEF TurnPart, Reload
<1>2. PICK view : view = [systemView EXCEPT !.loading = TRUE]
    OBVIOUS
<1>3. DOMAIN view = DOMAIN systemView /\ view.saving = systemView.saving /\ view.exporting = systemView.exporting
    BY <1>2 DEF SystemInv, SystemTypeInv
<1>4. /\ view.saving \in BOOLEAN /\ view.exporting \in BOOLEAN /\ viewSure' \in BOOLEAN
    BY <1>1, <1>3 DEF SystemInv, SystemTypeInv
<1>5. Locked(systemCalls, view, checking')
    BY <1>1, <1>3, LockedNow DEF Locked
<1>6. viewSure' => \A s \in Slots : Disturbs(systemCalls[s]) => ~systemCalls[s].left
    BY <1>1, LockedNow
<1>7. DOMAIN systemCalls = Slots /\ \A s \in Slots : SystemCallOK(systemCalls[s])
    BY LockedNow
<1>8. \A s \in Slots : IsOfTab(systemCalls[s], mounted) \/ systemCalls[s].op = "idle"
    BY LockedNow
<1>9. systemView' = view /\ depot' = depot
    BY <1>1, <1>2
<1>10. DialogFits(view, mounted)
    <2>1. view.dialog = systemView.dialog
        BY <1>2 DEF SystemInv, SystemTypeInv
    <2> QED BY <2>1 DEF SystemInv, DialogFits
<1>11. checking' \in BOOLEAN /\ (retryCheck' = "own" => mounted.tab \in HealthTabs)
    BY <1>1, LockedNow
<1> QED BY <1>11, <1>1, <1>3, <1>4, <1>5, <1>6, <1>7, <1>8, <1>9, <1>10, LoadKeeps

\* Another tab, whose load is asked for.
LEMMA MountKeeps ==
    ASSUME SystemInv, NEW tab, MountTab(tab)
    PROVE  SystemInv'
<1>1. PICK ops : ops = Disturbers \cup {"csv"} \cup (IF tab \in HealthTabs THEN {} ELSE {"health"})
    OBVIOUS
<1>2. PICK calls : calls = LeftAlone(ops, systemCalls)
    OBVIOUS
<1>3. PICK where : where = [tab |-> tab, part |-> IF tab = mounted.tab THEN mounted.part ELSE 1]
    OBVIOUS
<1>4. PICK call : call = Load(tab, where.part)
    OBVIOUS
<1>5. PICK view : view = FreshView
    OBVIOUS
<1>6. /\ mounted' = where /\ systemView' = view /\ viewSure' = FALSE /\ SendSystem(calls, call)
      /\ depot' = depot /\ checking' = (checking /\ tab \in HealthTabs)
      /\ retryCheck' = "own" => tab \in HealthTabs
    BY <1>1, <1>2, <1>3, <1>4, <1>5 DEF MountTab, StaysChecking
<1>7. DOMAIN where = {"tab", "part"} /\ where.tab = tab
    BY <1>3
<1>8. /\ DOMAIN view = DOMAIN systemView /\ view.loading = TRUE /\ view.saving = FALSE /\ view.exporting = FALSE
    BY <1>5 DEF FreshView, SystemInv, SystemTypeInv
<1>9. /\ CallFields(call) /\ {"answer", "alone"} \cap DOMAIN call = {}
      /\ call.op = "load" /\ call.tab = where.tab /\ call.part = where.part
      /\ IsViewLoader(call) /\ ~IsSystemChange(call)
      /\ IsInformed(call, view, viewSure')
    BY <1>4, <1>7, LoadCall
<1>10. /\ DOMAIN calls = Slots
       /\ \A s \in Slots :
            /\ SystemCallOK(calls[s]) /\ calls[s].op = systemCalls[s].op
            /\ systemCalls[s].op \in ops => calls[s].left = TRUE
            /\ systemCalls[s].op \notin ops => calls[s] = systemCalls[s]
    <2>1. "idle" \notin ops
        BY <1>1, SystemNames DEF SystemOps
    <2>2. DOMAIN systemCalls = Slots /\ \A s \in Slots : SystemCallOK(systemCalls[s])
        BY LockedNow
    <2>3. AreLeft(systemCalls, ops, calls)
        BY <1>2, <2>1, <2>2, LeftCalls
    <2> QED BY <2>3 DEF AreLeft
<1>11. \A s \in Slots : calls[s].op \in ops => calls[s].left
    BY <1>10
<1>12. \A s \in Slots : ~IsSystemChange(calls[s]) /\ ~IsExport(calls[s])
    BY <1>1, <1>11, SystemNames DEF IsSystemChange, IsExport
<1>13. \A s \in Slots : IsOfTab(calls[s], where) \/ calls[s].op = "idle"
    <2>1. \A s \in Slots : calls[s].op \notin ops => calls[s].op \notin {"load", "save", "incident", "again"}
        BY <1>1 DEF Disturbers, SystemChanges
    <2>2. where.tab \in HealthTabs \/ "health" \in ops
        BY <1>1, <1>7
    <2> QED BY <1>11, <2>1, <2>2 DEF IsOfTab
<1>14. StartsSystem(calls, call, view, checking')
    <2>1. checking' => \E s \in Slots : IsCheck(calls[s])
        <3>1. SUFFICES ASSUME checking, tab \in HealthTabs
                       PROVE  \E s \in Slots : IsCheck(calls[s])
            BY <1>6
        <3>2. PICK s \in Slots : IsCheck(systemCalls[s])
            BY <3>1, LockedNow DEF Locked
        <3>3. systemCalls[s].op \notin ops
            BY <1>1, <3>1, <3>2, SystemNames DEF IsCheck
        <3> QED BY <1>10, <3>2, <3>3
    <2> QED BY <1>8, <1>9, <1>12, <2>1 DEF StartsSystem
<1>15. SystemSent(calls, call, systemCalls')
    BY <1>6, <1>9, <1>10, SentSystem
<1>16. IsOfTab(call, where)
    BY <1>9 DEF IsOfTab
<1>17. viewSure' \in BOOLEAN /\ view.saving \in BOOLEAN /\ view.exporting \in BOOLEAN
    BY <1>6, <1>8
<1>18. viewSure' => \A s \in Slots : Disturbs(calls[s]) => ~calls[s].left
    BY <1>6
<1>19. (\A s \in Slots : ~Disturbs(calls[s])) => IsInformed(call, view, viewSure')
    BY <1>9
<1>20. DialogFits(view, where)
    BY <1>5 DEF FreshView, DialogFits
<1>21. checking' \in BOOLEAN /\ (retryCheck' = "own" => where.tab \in HealthTabs)
    BY <1>6, <1>7, LockedNow
<1> QED BY <1>21, <1>6, <1>7, <1>8, <1>9, <1>10, <1>20, <1>13, <1>14, <1>15, <1>16, <1>17, <1>18, <1>19, SentKeeps

\* What a tab shows is a part of what is stored.
LEMMA StoredOf ==
    \A piece : /\ Stored("settings", piece) = depot.policy
              /\ Stored("incidents", piece) = depot.incidents
BY DEF Stored

\* A change is sent.
LEMMA ChangeKeeps ==
    ASSUME SystemInv, NEW own, ChangeSystem(own),
           {"left", "answer", "alone"} \cap DOMAIN own = {}, "op" \in DOMAIN own, own.op \in SystemChanges,
           own.op = "save" => /\ {"policy", "confirmed", "sure"} \subseteq DOMAIN own
                              /\ mounted.tab = "settings" /\ own.sure = viewSure
                              /\ ~own.confirmed => ~(own.policy.retention < systemView.shown.retention),
           own.op = "incident" => {"of", "to"} \subseteq DOMAIN own /\ mounted.tab = "incidents"
    PROVE  SystemInv'
<1>1. PICK left : left = [left |-> FALSE]
    OBVIOUS
<1>2. PICK call : call = With(left, own)
    OBVIOUS
<1>3. PICK view : view = [systemView EXCEPT !.saving = TRUE]
    OBVIOUS
<1>4. /\ SendSystem(systemCalls, call) /\ systemView' = view /\ systemView.saving # TRUE
      /\ depot' = depot /\ mounted' = mounted /\ checking' = checking
      /\ retryCheck' = retryCheck /\ viewSure' = viewSure
    BY <1>1, <1>2, <1>3 DEF ChangeSystem, Pressable, Unchanged
<1>5. DOMAIN left = {"left"} /\ left.left = FALSE
    BY <1>1
<1>6. DOMAIN call = {"left"} \cup DOMAIN own /\ call.left = FALSE /\ \A f \in DOMAIN own : call[f] = own[f]
    BY <1>2, <1>5 DEF With
<1>7. call.op = own.op
    BY <1>6
<1>8. CallFields(call) /\ {"answer", "alone"} \cap DOMAIN call = {} /\ IsSystemChange(call) /\ ~IsViewLoader(call)
    BY <1>6, <1>7, SystemNames DEF CallFields, IsSystemChange, IsViewLoader
<1>9. /\ DOMAIN view = DOMAIN systemView /\ view.saving = TRUE /\ view.exporting = systemView.exporting
      /\ view.loading = systemView.loading /\ view.dialog = systemView.dialog /\ view.shown = systemView.shown
    BY <1>3 DEF SystemInv, SystemTypeInv
<1>10. SystemSent(systemCalls, call, systemCalls')
    BY <1>4, <1>8, LockedNow, SentSystem
<1>11. StartsSystem(systemCalls, call, view, checking')
    <2>1. \A s \in Slots : ~IsSystemChange(systemCalls[s])
        BY <1>4 DEF SystemInv, LocksFit
    <2>2. view.loading => \E s \in Slots : IsViewLoader(systemCalls[s])
        BY <1>9 DEF SystemInv, LocksFit
    <2> QED BY <1>4, <1>8, <1>9, <2>1, <2>2, LockedNow DEF StartsSystem, Locked
<1>12. IsOfTab(call, mounted)
    BY <1>6, <1>7 DEF IsOfTab, SystemChanges
<1>13. ASSUME \A s \in Slots : ~Disturbs(systemCalls[s])
       PROVE  IsInformed(call, view, viewSure')
    <2>1. viewSure => systemView.shown = Stored(mounted.tab, mounted.part)
        BY <1>13 DEF SystemInv, SystemSureInv
    <2>2. own.op = "save" => /\ call.policy = own.policy /\ call.confirmed = own.confirmed
                             /\ call.sure = viewSure
        BY <1>6
    <2>3. own.op = "save" /\ viewSure => systemView.shown = depot.policy
        BY <2>1, StoredOf
    <2>4. own.op = "incident" /\ viewSure => systemView.shown = depot.incidents
        BY <2>1, StoredOf
    <2> QED BY <1>4, <1>7, <1>9, <2>2, <2>3, <2>4 DEF IsInformed
<1>14. DialogFits(view, mounted)
    BY <1>9 DEF SystemInv, DialogFits
<1>15. view.saving \in BOOLEAN /\ view.exporting \in BOOLEAN /\ viewSure' \in BOOLEAN /\ DOMAIN mounted = {"tab", "part"}
    BY <1>4, <1>9 DEF SystemInv, SystemTypeInv
<1>16. DOMAIN systemCalls = Slots /\ \A s \in Slots : SystemCallOK(systemCalls[s])
    BY LockedNow
<1>17. \A s \in Slots : IsOfTab(systemCalls[s], mounted) \/ systemCalls[s].op = "idle"
    BY LockedNow
<1>18. viewSure' => \A s \in Slots : Disturbs(systemCalls[s]) => ~systemCalls[s].left
    BY <1>4, LockedNow
<1>20. checking' \in BOOLEAN /\ (retryCheck' = "own" => mounted.tab \in HealthTabs)
    BY <1>4, LockedNow
<1> QED BY <1>20, <1>4, <1>8, <1>9, <1>10, <1>11, <1>12, <1>13, <1>14, <1>15, <1>16, <1>17, <1>18, SentKeeps

\* Each button of a tab sends one change.
LEMMA ChangesKeep ==
    ASSUME SystemInv, CreateInvite \/ DeleteInvite \/ SaveIncident \/ SubmitPolicy \/ ConfirmRetention
    PROVE  SystemInv'
<1>1. CASE CreateInvite
    <2>1. PICK own : own = [op |-> "create"]
        OBVIOUS
    <2>2. DOMAIN own = {"op"} /\ own.op = "create" /\ ChangeSystem(own)
        BY <1>1, <2>1 DEF CreateInvite
    <2> QED BY <2>2, ChangeKeeps DEF SystemChanges
<1>2. CASE DeleteInvite
    <2>1. PICK own : own = [op |-> "remove", of |-> systemView.dialog.of]
        OBVIOUS
    <2>2. DOMAIN own = {"op", "of"} /\ own.op = "remove" /\ ChangeSystem(own)
        BY <1>2, <2>1 DEF DeleteInvite
    <2> QED BY <2>2, ChangeKeeps DEF SystemChanges
<1>3. CASE SaveIncident
    <2>1. PICK own : own = [op |-> "incident", of |-> systemView.dialog.of, to |-> systemView.dialog.to]
        OBVIOUS
    <2>2. DOMAIN own = {"op", "of", "to"} /\ own.op = "incident" /\ ChangeSystem(own)
        BY <1>3, <2>1 DEF SaveIncident
    <2>3. mounted.tab = "incidents"
        BY <1>3 DEF SaveIncident, SystemInv, DialogFits
    <2> QED BY <2>2, <2>3, ChangeKeeps DEF SystemChanges
<1>4. ASSUME NEW confirmed, SavePolicy(confirmed), mounted.tab = "settings",
             ~confirmed => ~(systemView.draft.retention < systemView.shown.retention)
      PROVE  SystemInv'
    <2>1. PICK own : own = [op |-> "save", policy |-> systemView.draft, confirmed |-> confirmed, sure |-> viewSure]
        OBVIOUS
    <2>2. /\ DOMAIN own = {"op", "policy", "confirmed", "sure"} /\ own.op = "save" /\ ChangeSystem(own)
          /\ own.policy = systemView.draft /\ own.confirmed = confirmed /\ own.sure = viewSure
        BY <1>4, <2>1 DEF SavePolicy
    <2>3. ~own.confirmed => ~(own.policy.retention < systemView.shown.retention)
        BY <1>4, <2>2
    <2> QED BY <1>4, <2>2, <2>3, ChangeKeeps DEF SystemChanges
<1>5. CASE SubmitPolicy
    <2>1. PICK confirmed : confirmed = FALSE
        OBVIOUS
    <2>2. SavePolicy(confirmed) /\ mounted.tab = "settings"
          /\ ~(systemView.draft.retention < systemView.shown.retention)
        BY <1>5, <2>1 DEF SubmitPolicy, CanSubmit, Shortens
    <2> QED BY <1>4, <2>2
<1>6. CASE ConfirmRetention
    <2>1. PICK confirmed : confirmed = TRUE
        OBVIOUS
    <2>2. SavePolicy(confirmed) /\ mounted.tab = "settings"
        BY <1>6, <2>1 DEF ConfirmRetention, SystemInv, DialogFits
    <2> QED BY <1>4, <2>1, <2>2
<1> QED BY <1>1, <1>2, <1>3, <1>5, <1>6

\* The incidents are asked for again.
LEMMA RetryKeeps ==
    ASSUME SystemInv, RetryIncidents
    PROVE  SystemInv'
<1>1. PICK call : call = [op |-> "again", left |-> FALSE]
    OBVIOUS
<1>2. PICK view : view = [systemView EXCEPT !.loading = TRUE]
    OBVIOUS
<1>3. /\ SendSystem(systemCalls, call) /\ systemView' = view /\ mounted.tab = "incidents"
      /\ depot' = depot /\ mounted' = mounted /\ checking' = checking
      /\ retryCheck' = retryCheck /\ viewSure' = viewSure
    BY <1>1, <1>2 DEF RetryIncidents, Unchanged
<1>4. DOMAIN call = {"op", "left"} /\ call.op = "again" /\ call.left = FALSE
    BY <1>1
<1>5. CallFields(call) /\ {"answer", "alone"} \cap DOMAIN call = {} /\ ~IsSystemChange(call) /\ IsViewLoader(call)
    BY <1>4, SystemNames DEF CallFields, IsSystemChange, IsViewLoader
<1>6. /\ DOMAIN view = DOMAIN systemView /\ view.saving = systemView.saving /\ view.exporting = systemView.exporting
      /\ view.dialog = systemView.dialog
    BY <1>2 DEF SystemInv, SystemTypeInv
<1>7. SystemSent(systemCalls, call, systemCalls')
    BY <1>3, <1>5, LockedNow, SentSystem
<1>8. StartsSystem(systemCalls, call, view, checking')
    BY <1>3, <1>5, <1>6, LockedNow DEF StartsSystem, Locked
<1>9. IsOfTab(call, mounted)
    BY <1>3, <1>4 DEF IsOfTab
<1>10. IsInformed(call, view, viewSure')
    BY <1>4 DEF IsInformed
<1>11. DialogFits(view, mounted)
    BY <1>6 DEF SystemInv, DialogFits
<1>12. view.saving \in BOOLEAN /\ view.exporting \in BOOLEAN /\ viewSure' \in BOOLEAN /\ DOMAIN mounted = {"tab", "part"}
    BY <1>3, <1>6 DEF SystemInv, SystemTypeInv
<1>13. DOMAIN systemCalls = Slots /\ \A s \in Slots : SystemCallOK(systemCalls[s])
    BY LockedNow
<1>14. \A s \in Slots : IsOfTab(systemCalls[s], mounted) \/ systemCalls[s].op = "idle"
    BY LockedNow
<1>15. viewSure' => \A s \in Slots : Disturbs(systemCalls[s]) => ~systemCalls[s].left
    BY <1>3, LockedNow
<1>20. checking' \in BOOLEAN /\ (retryCheck' = "own" => mounted.tab \in HealthTabs)
    BY <1>3, LockedNow
<1> QED BY <1>20, <1>3, <1>5, <1>6, <1>7, <1>8, <1>9, <1>10, <1>11, <1>12, <1>13, <1>14, <1>15, SentKeeps

-----------------------------------------------------------------------------

\* The end of a call empties its slot alone.
LEMMA EndedSystem ==
    ASSUME SystemInv, NEW s \in Slots, NEW calls, calls = End(systemCalls, s)
    PROVE  /\ DOMAIN calls = Slots /\ \A t \in Slots : SystemCallOK(calls[t])
           /\ calls[s].op = "idle" /\ ~Disturbs(calls[s]) /\ ~IsViewLoader(calls[s])
           /\ ~IsSystemChange(calls[s]) /\ ~IsExport(calls[s]) /\ ~IsCheck(calls[s])
           /\ \A t \in Slots : t # s => calls[t] = systemCalls[t]
<1>1. SystemCallOK(NoCall) /\ NoCall.op = "idle" /\ ~Disturbs(NoCall) /\ ~IsViewLoader(NoCall)
      /\ ~IsSystemChange(NoCall) /\ ~IsExport(NoCall) /\ ~IsCheck(NoCall)
    BY SystemNames DEF NoCall, SystemCallOK, IsCall, Disturbs, IsViewLoader, IsSystemChange, IsExport, IsCheck, SystemOps
<1>2. DOMAIN calls = Slots /\ \A t \in Slots : calls[t] = IF t = s THEN NoCall ELSE systemCalls[t]
    BY LockedNow, EndedCalls
<1> QED BY <1>1, <1>2, LockedNow

\* What is ended takes its lock with it.
LEMMA EndedLocks ==
    ASSUME SystemInv, NEW s \in Slots, NEW calls, calls = End(systemCalls, s),
           NEW view, NEW health,
           view.saving <=> systemView.saving /\ ~IsSystemChange(systemCalls[s]),
           view.exporting <=> systemView.exporting /\ ~IsExport(systemCalls[s]),
           health => checking /\ ~IsCheck(systemCalls[s])
    PROVE  Locked(calls, view, health)
<1>1. /\ calls[s].op = "idle" /\ ~IsSystemChange(calls[s]) /\ ~IsExport(calls[s])
      /\ \A t \in Slots : t # s => calls[t] = systemCalls[t]
    BY EndedSystem
<1>2. Locked(systemCalls, systemView, checking)
    BY LockedNow
<1>3. (\E t \in Slots : IsSystemChange(calls[t])) <=> systemView.saving /\ ~IsSystemChange(systemCalls[s])
    BY <1>1, <1>2 DEF Locked
<1>4. (\E t \in Slots : IsExport(calls[t])) <=> systemView.exporting /\ ~IsExport(systemCalls[s])
    BY <1>1, <1>2 DEF Locked
<1>5. health => \E t \in Slots : IsCheck(calls[t])
    BY <1>1, <1>2 DEF Locked
<1>6. \A t, u \in Slots : \/ IsSystemChange(calls[t]) /\ IsSystemChange(calls[u])
                          \/ IsExport(calls[t]) /\ IsExport(calls[u])
                          => t = u
    BY <1>1, <1>2 DEF Locked
<1> QED BY <1>3, <1>4, <1>5, <1>6 DEF Locked

\* Whatever ends a call keeps the invariant, when its lock falls with it.
LEMMA EndedKeeps ==
    ASSUME SystemInv, NEW s \in Slots, systemCalls' = End(systemCalls, s),
           depot' = depot, mounted' = mounted,
           NEW view, systemView' = view, DOMAIN view = DOMAIN systemView,
           view.saving \in BOOLEAN, view.exporting \in BOOLEAN, viewSure' \in BOOLEAN,
           view.loading => systemView.loading /\ ~IsViewLoader(systemCalls[s]),
           view.saving <=> systemView.saving /\ ~IsSystemChange(systemCalls[s]),
           view.exporting <=> systemView.exporting /\ ~IsExport(systemCalls[s]),
           checking' \in BOOLEAN, checking' => checking /\ ~IsCheck(systemCalls[s]),
           retryCheck' = "own" => mounted.tab \in HealthTabs,
           DialogFits(view, mounted),
           viewSure' => \/ viewSure /\ ~Disturbs(systemCalls[s]) /\ view.shown = systemView.shown
                        \/ /\ Disturbs(systemCalls[s]) /\ systemCalls[s].alone
                           /\ view.shown = Stored(mounted.tab, mounted.part)
    PROVE  SystemInv'
<1>0. PICK calls : calls = systemCalls'
    OBVIOUS
<1>1. /\ DOMAIN calls = Slots /\ \A t \in Slots : SystemCallOK(calls[t])
      /\ calls[s].op = "idle" /\ ~Disturbs(calls[s]) /\ ~IsViewLoader(calls[s])
      /\ ~IsSystemChange(calls[s]) /\ ~IsExport(calls[s])
      /\ \A t \in Slots : t # s => calls[t] = systemCalls[t]
    BY <1>0, EndedSystem
<1>2. SystemTypeInv'
    BY <1>0, <1>1 DEF SystemInv, SystemTypeInv
<1>3. LocksFit(systemCalls, systemView, checking)'
    <2>1. Locked(calls, view, checking')
        BY <1>0, EndedLocks
    <2>2. view.loading => \E t \in Slots : IsViewLoader(calls[t])
        BY <1>1 DEF SystemInv, LocksFit
    <2>3. LocksFit(calls, view, checking')
        BY <2>1, <2>2 DEF Locked, LocksFit
    <2> QED BY <1>0, <2>3 DEF LocksFit
<1>4. (\A t \in Slots : IsOfTab(systemCalls[t], mounted) \/ systemCalls[t].op = "idle")'
    <2>1. \A t \in Slots : IsOfTab(calls[t], mounted) \/ calls[t].op = "idle"
        BY <1>1, LockedNow
    <2> QED BY <1>0, <2>1 DEF IsOfTab
<1>5. DialogFits(systemView, mounted)'
    BY DEF DialogFits
<1>6. SystemSureInv'
    <2>1. \A t, u \in Slots : Disturbs(calls[t]) /\ Disturbs(calls[u]) /\ calls[t].alone => t = u
        BY <1>1 DEF SystemInv, SystemSureInv
    <2>2. \A t \in Slots : BringsStored(systemCalls[t])'
        <3>1. \A t \in Slots : BringsStored(calls[t])
            BY <1>1 DEF SystemInv, SystemSureInv, BringsStored
        <3> QED BY <1>0, <3>1 DEF BringsStored, Disturbs, Succeeds, Stored, InvitesOf
    <2>3. ASSUME viewSure'
          PROVE  /\ \A t \in Slots : (Disturbs(calls[t]) => ~calls[t].left) /\ RowFollows(calls[t])'
                 /\ (\A t \in Slots : ~Disturbs(calls[t])) => view.shown = Stored(mounted.tab, mounted.part)
        <3>1. CASE viewSure /\ ~Disturbs(systemCalls[s]) /\ view.shown = systemView.shown
            <4>1. \A t \in Slots : Disturbs(calls[t]) => ~calls[t].left
                BY <1>1, <3>1 DEF SystemInv, SystemSureInv
            <4>2. \A t \in Slots : RowFollows(calls[t])
                <5>1. RowFollows(calls[s])
                    BY <1>1 DEF RowFollows
                <5> QED BY <1>1, <3>1, <5>1 DEF SystemInv, SystemSureInv
            <4>3. \A t \in Slots : RowFollows(calls[t])'
                BY <1>0, <3>1, <4>2 DEF RowFollows, Succeeds
            <4>4. (\A t \in Slots : ~Disturbs(calls[t])) => \A t \in Slots : ~Disturbs(systemCalls[t])
                BY <1>1, <3>1
            <4> QED BY <3>1, <4>1, <4>3, <4>4 DEF SystemInv, SystemSureInv
        <3>2. CASE /\ Disturbs(systemCalls[s]) /\ systemCalls[s].alone
                   /\ view.shown = Stored(mounted.tab, mounted.part)
            <4>1. \A t \in Slots : ~Disturbs(calls[t])
                BY <1>1, <3>2 DEF SystemInv, SystemSureInv
            <4>2. \A t \in Slots : calls[t].op # "incident"
                BY <4>1 DEF Disturbs, Disturbers, SystemChanges
            <4>3. \A t \in Slots : RowFollows(calls[t])'
                BY <1>0, <4>2 DEF RowFollows
            <4> QED BY <3>2, <4>1, <4>3
        <3> QED BY <2>3, <3>1, <3>2
    <2>4. \A t \in Slots : Disturbs(systemCalls[t])' <=> Disturbs(calls[t])
        BY <1>0 DEF Disturbs
    <2>5. \A t \in Slots : RowFollows(systemCalls[t])' <=> RowFollows(calls[t])'
        BY <1>0 DEF RowFollows, Succeeds
    <2>6. Stored(mounted.tab, mounted.part)' = Stored(mounted.tab, mounted.part)
        BY DEF Stored, InvitesOf
    <2> QED BY <1>0, <2>1, <2>2, <2>3, <2>4, <2>5, <2>6 DEF SystemSureInv
<1> QED BY <1>2, <1>3, <1>4, <1>5, <1>6 DEF SystemInv

\* The dialogs and the form change nothing else.
LEMMA ViewKeeps ==
    ASSUME SystemInv, UNCHANGED <<depot, mounted, checking, retryCheck, viewSure, systemCalls>>,
           NEW view, systemView' = view, DOMAIN view = DOMAIN systemView,
           view.shown = systemView.shown, view.loading = systemView.loading,
           view.saving = systemView.saving, view.exporting = systemView.exporting, DialogFits(view, mounted)
    PROVE  SystemInv'
<1>1. SystemTypeInv'
    BY DEF SystemInv, SystemTypeInv
<1>2. DialogFits(systemView, mounted)'
    BY DEF DialogFits
<1>3. LocksFit(systemCalls, systemView, checking)'
    BY DEF SystemInv, LocksFit, IsViewLoader, IsSystemChange, IsExport, IsCheck
<1>4. (\A t \in Slots : IsOfTab(systemCalls[t], mounted) \/ systemCalls[t].op = "idle")'
    BY DEF SystemInv, IsOfTab
<1>5. \A t \in Slots : Disturbs(systemCalls[t])' <=> Disturbs(systemCalls[t])
    BY DEF Disturbs
<1>6. \A t \in Slots : BringsStored(systemCalls[t])' <=> BringsStored(systemCalls[t])
    BY DEF BringsStored, Disturbs, Succeeds, Stored, InvitesOf
<1>7. \A t \in Slots : RowFollows(systemCalls[t])' <=> RowFollows(systemCalls[t])
    BY DEF RowFollows, Succeeds
<1>8. Stored(mounted.tab, mounted.part)' = Stored(mounted.tab, mounted.part)
    BY DEF Stored, InvitesOf
<1>9. SystemSureInv'
    BY <1>5, <1>6, <1>7, <1>8 DEF SystemInv, SystemSureInv
<1> QED BY <1>1, <1>2, <1>3, <1>4, <1>9 DEF SystemInv

\* Dialogs and fields of the page.
LEMMA LocalsKeep ==
    ASSUME SystemInv,
           \/ (\E dialog : OpenDialog(dialog)) \/ CloseDialog \/ AskRetention
           \/ \E wanted \in Policies : EditPolicy(wanted)
    PROVE  SystemInv'
<1>1. UNCHANGED <<depot, mounted, checking, retryCheck, viewSure, systemCalls>>
    BY DEF OpenDialog, CloseDialog, AskRetention, EditPolicy, Unchanged
<1>2. ASSUME NEW dialog, systemView' = [systemView EXCEPT !.dialog = dialog],
             dialog # None => /\ dialog.name = "incident" => mounted.tab = "incidents"
                              /\ dialog.name = "retention" => mounted.tab = "settings"
      PROVE  SystemInv'
    <2>1. PICK view : view = [systemView EXCEPT !.dialog = dialog]
        OBVIOUS
    <2>2. /\ systemView' = view /\ DOMAIN view = DOMAIN systemView /\ view.shown = systemView.shown
          /\ view.loading = systemView.loading /\ view.saving = systemView.saving
          /\ view.exporting = systemView.exporting /\ view.dialog = dialog
        BY <1>2, <2>1 DEF SystemInv, SystemTypeInv
    <2>3. DialogFits(view, mounted)
        BY <1>2, <2>2 DEF DialogFits
    <2> QED BY <1>1, <2>2, <2>3, ViewKeeps
<1>3. CASE \E dialog : OpenDialog(dialog)
    <2>1. PICK dialog : OpenDialog(dialog)
        BY <1>3
    <2>2. /\ systemView' = [systemView EXCEPT !.dialog = dialog]
          /\ dialog.name = "incident" => mounted.tab = "incidents"
          /\ dialog.name # "retention"
        BY <2>1 DEF OpenDialog, Handles
    <2> QED BY <1>2, <2>2
<1>4. CASE CloseDialog
    BY <1>2, <1>4 DEF CloseDialog
<1>5. CASE AskRetention
    <2>1. PICK dialog : dialog = [name |-> "retention"]
        OBVIOUS
    <2>2. systemView' = [systemView EXCEPT !.dialog = dialog] /\ mounted.tab = "settings"
        BY <1>5, <2>1 DEF AskRetention, CanSubmit
    <2>3. dialog.name = "retention"
        BY <2>1
    <2> QED BY <1>2, <2>2, <2>3
<1>6. CASE \E wanted \in Policies : EditPolicy(wanted)
    <2>1. PICK wanted : systemView' = [systemView EXCEPT !.draft = wanted]
        BY <1>6 DEF EditPolicy
    <2>2. PICK view : view = [systemView EXCEPT !.draft = wanted]
        OBVIOUS
    <2>3. /\ systemView' = view /\ DOMAIN view = DOMAIN systemView /\ view.shown = systemView.shown
          /\ view.loading = systemView.loading /\ view.saving = systemView.saving
          /\ view.exporting = systemView.exporting /\ view.dialog = systemView.dialog
        BY <2>1, <2>2 DEF SystemInv, SystemTypeInv
    <2>4. DialogFits(view, mounted)
        BY <2>3 DEF SystemInv, DialogFits
    <2> QED BY <1>1, <2>3, <2>4, ViewKeeps
<1> QED BY <1>3, <1>4, <1>5, <1>6

\* Beside what a request is.
LEMMA CallKinds ==
    ASSUME NEW call
    PROVE  /\ call.op = "load" => (Disturbs(call) <=> ~call.left) /\ (IsViewLoader(call) <=> ~call.left)
                                  /\ ~IsSystemChange(call) /\ ~IsExport(call) /\ call.op # "health"
           /\ call.op = "again" => Disturbs(call) /\ (IsViewLoader(call) <=> ~call.left)
                                   /\ ~IsSystemChange(call) /\ ~IsExport(call) /\ call.op # "health"
           /\ call.op \in SystemChanges => Disturbs(call) /\ (IsSystemChange(call) <=> ~call.left)
                                           /\ ~IsViewLoader(call) /\ ~IsExport(call) /\ call.op # "health"
           /\ call.op = "csv" => (IsExport(call) <=> ~call.left) /\ ~Disturbs(call) /\ ~IsViewLoader(call)
                                 /\ ~IsSystemChange(call) /\ call.op # "health"
           /\ call.op = "health" => ~Disturbs(call) /\ ~IsViewLoader(call) /\ ~IsSystemChange(call) /\ ~IsExport(call)
BY DEF Disturbs, IsViewLoader, IsSystemChange, IsExport, Disturbers, SystemChanges

\* The answer to a load, a policy or an incident comes.
LEMMA SystemLandKeeps ==
    ASSUME SystemInv, NEW s \in Slots,
           LandSystem(s) \/ LandRetry(s) \/ LandSave(s) \/ LandIncident(s)
    PROVE  SystemInv'
<1>1. PICK call : call = systemCalls[s]
    OBVIOUS
<1>2. /\ systemCalls' = End(systemCalls, s) /\ depot' = depot /\ mounted' = mounted /\ checking' = checking
      /\ retryCheck' = retryCheck
      /\ call.op \in {"load", "again", "save", "incident"}
    BY <1>1 DEF LandSystem, LandRetry, LandSave, LandIncident
<1>3. PICK view : view = systemView'
    OBVIOUS
<1>4. SystemTypeInv /\ DialogFits(systemView, mounted) /\ SystemCallOK(call)
    BY <1>1, LockedNow DEF SystemInv
<1>5. IsOfTab(call, mounted)
    BY <1>1, <1>2, LockedNow
<1>6. BringsStored(call) /\ (viewSure => (Disturbs(call) => ~call.left) /\ RowFollows(call))
    BY <1>1 DEF SystemInv, SystemSureInv
<1>7. /\ call.op \in {"save", "incident"} => call.op \in SystemChanges
      /\ call.op \in {"load", "again"} => call.op \notin SystemChanges
    BY DEF SystemChanges
<1>8. CASE call.left
    <2>1. systemView' = systemView /\ viewSure' = viewSure
        BY <1>1, <1>2, <1>8 DEF LandSystem, LandRetry, LandSave, LandIncident, Heard
    <2>2. /\ ~IsViewLoader(call) /\ ~IsSystemChange(call) /\ ~IsExport(call) /\ ~IsCheck(call)
          /\ checking' \in BOOLEAN /\ (retryCheck' = "own" => mounted.tab \in HealthTabs)
        BY <1>2, <1>8, LockedNow DEF IsViewLoader, IsSystemChange, IsExport, IsCheck
    <2>3. viewSure' => viewSure /\ ~Disturbs(call) /\ systemView.shown = systemView.shown
        BY <1>6, <1>8, <2>1
    <2>4. view = systemView /\ view.saving \in BOOLEAN /\ view.exporting \in BOOLEAN /\ viewSure' \in BOOLEAN
        BY <1>3, <1>4, <2>1 DEF SystemTypeInv
    <2> QED BY <1>1, <1>2, <1>3, <1>4, <2>1, <2>2, <2>3, <2>4, EndedKeeps
<1>9. CASE ~call.left
    <2>1. /\ DOMAIN view = DOMAIN systemView /\ view.exporting = systemView.exporting
          /\ call.op \in {"load", "again"} => view.loading = FALSE /\ view.saving = systemView.saving
          /\ call.op \in {"save", "incident"} => view.loading = systemView.loading /\ view.saving = FALSE
          /\ view.dialog = systemView.dialog \/ view.dialog = None
        BY <1>1, <1>2, <1>3, <1>4, <1>9
        DEF LandSystem, LandRetry, LandSave, LandIncident, Heard, SystemTypeInv
    <2>2. DialogFits(view, mounted)
        BY <1>4, <2>1 DEF DialogFits
    <2>3. Disturbs(call) /\ ~IsExport(call) /\ call.op # "health"
          /\ (IsViewLoader(call) <=> call.op \in {"load", "again"})
          /\ (IsSystemChange(call) <=> call.op \in {"save", "incident"})
        BY <1>2, <1>7, <1>9, CallKinds
    <2>4. ASSUME viewSure'
          PROVE  Succeeds(call) /\ call.alone /\ (call.op \in {"load", "again"} \/ viewSure)
        BY <1>1, <1>2, <1>9, <2>4 DEF LandSystem, LandRetry, LandSave, LandIncident, Heard, SureAfter
    <2>5. ASSUME viewSure'
          PROVE  view.shown = Stored(mounted.tab, mounted.part)
        <3>1. CASE call.op = "load"
            <4>1. view.shown = call.answer.body
                BY <1>1, <1>2, <1>3, <1>4, <1>9, <2>4, <2>5, <3>1
                DEF LandSystem, LandRetry, LandSave, LandIncident, Heard, SystemTypeInv
            <4>2. call.answer.body = Stored(call.tab, call.part)
                BY <1>6, <2>3, <2>4, <2>5, <3>1 DEF BringsStored
            <4> QED BY <1>5, <1>9, <3>1, <4>1, <4>2 DEF IsOfTab
        <3>2. CASE call.op = "again"
            <4>1. view.shown = call.answer.body
                BY <1>1, <1>2, <1>3, <1>4, <1>9, <2>4, <2>5, <3>2
                DEF LandSystem, LandRetry, LandSave, LandIncident, Heard, SystemTypeInv
            <4>2. call.answer.body = depot.incidents
                BY <1>6, <2>3, <2>4, <2>5, <3>2 DEF BringsStored
            <4> QED BY <1>5, <1>9, <3>2, <4>1, <4>2, StoredOf DEF IsOfTab
        <3>3. CASE call.op = "save"
            <4>1. view.shown = call.answer.body
                BY <1>1, <1>2, <1>3, <1>4, <1>9, <2>4, <2>5, <3>3
                DEF LandSystem, LandRetry, LandSave, LandIncident, Heard, SystemTypeInv
            <4>2. call.answer.body = depot.policy
                BY <1>6, <2>3, <2>4, <2>5, <3>3 DEF BringsStored
            <4> QED BY <1>5, <1>9, <3>3, <4>1, <4>2, StoredOf DEF IsOfTab
        <3>4. CASE call.op = "incident"
            <4>1. view.shown = [systemView.shown EXCEPT ![call.of] = call.answer.body]
                BY <1>1, <1>2, <1>3, <1>4, <1>9, <2>4, <2>5, <3>4
                DEF LandSystem, LandRetry, LandSave, LandIncident, Updated, SystemTypeInv
            <4>2. view.shown = depot.incidents
                BY <1>6, <2>4, <2>5, <3>4, <4>1 DEF RowFollows
            <4> QED BY <1>5, <1>9, <3>4, <4>2, StoredOf DEF IsOfTab
        <3> QED BY <1>2, <3>1, <3>2, <3>3, <3>4
    <2>6. viewSure' \in BOOLEAN
        BY <1>1, <1>2, <1>4, <1>9
        DEF LandSystem, LandRetry, LandSave, LandIncident, Heard, SureAfter, SystemTypeInv
    <2>7. /\ view.saving \in BOOLEAN /\ view.exporting \in BOOLEAN
          /\ view.loading => systemView.loading /\ ~IsViewLoader(call)
          /\ view.saving <=> systemView.saving /\ ~IsSystemChange(call)
          /\ view.exporting <=> systemView.exporting /\ ~IsExport(call)
          /\ checking' \in BOOLEAN /\ (checking' => checking /\ ~IsCheck(call))
          /\ retryCheck' = "own" => mounted.tab \in HealthTabs
        BY <1>2, <1>4, <2>1, <2>3 DEF SystemTypeInv, IsCheck
    <2>8. viewSure' => Disturbs(call) /\ call.alone /\ view.shown = Stored(mounted.tab, mounted.part)
        BY <2>3, <2>4, <2>5
    <2> QED BY <1>1, <1>2, <1>3, <2>1, <2>2, <2>6, <2>7, <2>8, EndedKeeps
<1> QED BY <1>8, <1>9

\* A file or the health of the system comes.
LEMMA LandOthersKeeps ==
    ASSUME SystemInv, NEW s \in Slots, LandExport(s) \/ LandHealth(s)
    PROVE  SystemInv'
<1>1. PICK call : call = systemCalls[s]
    OBVIOUS
<1>2. /\ systemCalls' = End(systemCalls, s) /\ depot' = depot /\ mounted' = mounted /\ viewSure' = viewSure
      /\ call.op \in {"csv", "health"}
    BY <1>1 DEF LandExport, LandHealth
<1>3. PICK view : view = systemView'
    OBVIOUS
<1>4. SystemTypeInv /\ DialogFits(systemView, mounted)
    BY DEF SystemInv
<1>5. ~Disturbs(call) /\ ~IsViewLoader(call) /\ ~IsSystemChange(call)
    BY <1>2, CallKinds
<1>6. CASE LandExport(s)
    <2>1. /\ call.op = "csv" /\ view = [systemView EXCEPT !.exporting = @ /\ call.left]
          /\ checking' = checking /\ retryCheck' = retryCheck
        BY <1>1, <1>3, <1>6 DEF LandExport
    <2>2. /\ DOMAIN view = DOMAIN systemView /\ view.exporting = (systemView.exporting /\ call.left)
          /\ view.loading = systemView.loading /\ view.saving = systemView.saving
          /\ view.dialog = systemView.dialog /\ view.shown = systemView.shown
        BY <1>4, <2>1 DEF SystemTypeInv
    <2>3. (IsExport(call) <=> ~call.left) /\ ~IsCheck(call)
        BY <2>1, CallKinds DEF IsCheck
    <2>4. /\ view.saving \in BOOLEAN /\ view.exporting \in BOOLEAN /\ viewSure' \in BOOLEAN
          /\ view.exporting <=> systemView.exporting /\ ~IsExport(call)
          /\ checking' \in BOOLEAN /\ (checking' => checking /\ ~IsCheck(call))
          /\ retryCheck' = "own" => mounted.tab \in HealthTabs
        BY <1>2, <1>4, <2>1, <2>2, <2>3 DEF SystemTypeInv
    <2>5. DialogFits(view, mounted)
        BY <1>4, <2>2 DEF DialogFits
    <2> QED BY <1>1, <1>2, <1>3, <1>5, <2>2, <2>4, <2>5, EndedKeeps
<1>7. CASE LandHealth(s)
    <2>1. /\ call.op = "health" /\ view = systemView /\ checking' = (checking /\ call.left)
          /\ retryCheck' = "own" => retryCheck = "own" \/ ~call.left
        BY <1>1, <1>3, <1>7 DEF LandHealth
    <2>2. ~IsExport(call)
        BY <2>1, CallKinds
    <2>5. IsOfTab(call, mounted)
        BY <1>1, <2>1, LockedNow
    <2>6. /\ checking' \in BOOLEAN /\ (checking' => checking /\ ~IsCheck(call))
          /\ retryCheck' = "own" => mounted.tab \in HealthTabs
        BY <2>1, <2>5, LockedNow DEF IsCheck, IsOfTab
    <2>3. view.saving \in BOOLEAN /\ view.exporting \in BOOLEAN /\ viewSure' \in BOOLEAN
        BY <1>2, <1>4, <2>1 DEF SystemTypeInv
    <2>4. DialogFits(view, mounted)
        BY <1>4, <2>1
    <2> QED BY <1>1, <1>2, <1>3, <1>5, <2>1, <2>2, <2>3, <2>4, <2>6, EndedKeeps
<1> QED BY <1>6, <1>7

\* The answer to an invite comes.
LEMMA LandInviteKeeps ==
    ASSUME SystemInv, NEW s \in Slots, LandInvite(s)
    PROVE  SystemInv'
<1>1. PICK call : call = systemCalls[s]
    OBVIOUS
<1>2. PICK first : first = (Succeeds(call) /\ call.op = "create" /\ mounted.tab \in {"invites", "audit"})
    OBVIOUS
<1>3. PICK piece : piece = IF first THEN 1 ELSE mounted.part
    OBVIOUS
<1>4. PICK loads : loads = (RefreshesList(call) \/ (first /\ mounted.part # 1))
    OBVIOUS
<1>5. PICK calls : calls = End(systemCalls, s)
    OBVIOUS
<1>6. /\ call.op \in {"create", "remove"} /\ depot' = depot /\ checking' = checking /\ retryCheck' = retryCheck
      /\ loads => LoadAgain(piece, calls)
      /\ ~loads => systemCalls' = calls /\ mounted' = mounted
      /\ systemView' = [systemView EXCEPT !.saving = @ /\ call.left,
                            !.dialog = IF Succeeds(call) /\ ~call.left THEN None ELSE @,
                            !.loading = @ \/ loads]
      /\ viewSure' = (viewSure /\ (call.left \/ (Succeeds(call) /\ call.alone)))
    BY <1>1, <1>2, <1>3, <1>4, <1>5 DEF LandInvite
<1>7. SystemTypeInv /\ DialogFits(systemView, mounted)
    BY DEF SystemInv
<1>8. PICK view : view = systemView'
    OBVIOUS
<1>9. /\ DOMAIN view = DOMAIN systemView /\ view.saving = (systemView.saving /\ call.left)
      /\ view.exporting = systemView.exporting /\ view.shown = systemView.shown
      /\ view.loading = (systemView.loading \/ loads)
      /\ view.dialog = systemView.dialog \/ view.dialog = None
    BY <1>6, <1>7, <1>8 DEF SystemTypeInv
<1>10. DialogFits(view, mounted)
    BY <1>7, <1>9 DEF DialogFits
<1>11. Disturbs(call) /\ (IsSystemChange(call) <=> ~call.left) /\ ~IsViewLoader(call) /\ ~IsExport(call)
       /\ ~IsCheck(call)
    BY <1>6, CallKinds DEF SystemChanges, IsCheck
<1>12. viewSure => \A t \in Slots : Disturbs(systemCalls[t]) => ~systemCalls[t].left
    BY LockedNow
<1>13. /\ view.saving \in BOOLEAN /\ view.exporting \in BOOLEAN /\ viewSure' \in BOOLEAN
       /\ view.saving <=> systemView.saving /\ ~IsSystemChange(call)
       /\ view.exporting <=> systemView.exporting /\ ~IsExport(call)
       /\ checking' \in BOOLEAN /\ (checking' => checking /\ ~IsCheck(call))
       /\ retryCheck' = "own" => mounted.tab \in HealthTabs
    BY <1>6, <1>7, <1>9, <1>11 DEF SystemTypeInv
<1>14. CASE loads
    <2>1. /\ DOMAIN calls = Slots /\ \A t \in Slots : SystemCallOK(calls[t])
          /\ calls[s].op = "idle" /\ ~Disturbs(calls[s])
          /\ \A t \in Slots : t # s => calls[t] = systemCalls[t]
        BY <1>5, EndedSystem
    <2>2. Locked(calls, view, checking')
        BY <1>1, <1>5, <1>13, EndedLocks
    <2>3. \A t \in Slots : IsOfTab(calls[t], mounted) \/ calls[t].op = "idle"
        BY <2>1, LockedNow
    <2>4. viewSure' => \A t \in Slots : Disturbs(calls[t]) => ~calls[t].left
        BY <1>6, <1>12, <2>1
    <2>5. LoadAgain(piece, calls) /\ depot' = depot /\ systemView' = view
        BY <1>6, <1>8, <1>14
    <2> QED BY <1>9, <1>10, <1>13, <2>1, <2>2, <2>3, <2>4, <2>5, LoadKeeps
<1>15. CASE ~loads
    <2>1. ~viewSure'
        BY <1>1, <1>4, <1>6, <1>11, <1>12, <1>15 DEF RefreshesList
    <2>2. view.loading => systemView.loading /\ ~IsViewLoader(call)
        BY <1>9, <1>11, <1>15
    <2>3. systemCalls' = End(systemCalls, s) /\ depot' = depot /\ mounted' = mounted
        BY <1>5, <1>6, <1>15
    <2> QED BY <1>1, <1>8, <1>9, <1>10, <1>13, <2>1, <2>2, <2>3, EndedKeeps
<1> QED BY <1>14, <1>15

\* What disturbs nothing: an export and a check of the health.
LEMMA PostKeeps ==
    ASSUME SystemInv, ExportTrends \/ Recheck \/ RetryCheck
    PROVE  SystemInv'
<1>1. PICK call : \/ /\ ExportTrends /\ call = [op |-> "csv", range |-> mounted.part, left |-> FALSE]
                  \/ /\ Recheck /\ call = [op |-> "health", left |-> FALSE]
                  \/ /\ RetryCheck /\ call = [op |-> "health", left |-> retryCheck # "own"]
    OBVIOUS
<1>2. /\ Free(systemCalls) # {} /\ systemCalls' = Post(systemCalls, call, {})
      /\ {"op", "left"} \subseteq DOMAIN call
      /\ {"answer", "alone"} \cap DOMAIN call = {}
      /\ UNCHANGED <<depot, mounted, viewSure>>
      /\ call.op \in {"csv", "health"}
      /\ call.op = "csv" => ExportTrends /\ call.left = FALSE
      /\ call.op = "health" =>
            /\ UNCHANGED systemView
            /\ \/ Recheck /\ call.left = FALSE
               \/ RetryCheck /\ call.left = (retryCheck # "own")
    <2>1. CASE ExportTrends /\ call = [op |-> "csv", range |-> mounted.part, left |-> FALSE]
        BY <2>1 DEF ExportTrends, Unchanged
    <2>2. CASE Recheck /\ call = [op |-> "health", left |-> FALSE]
        BY <2>2 DEF Recheck
    <2>3. CASE RetryCheck /\ call = [op |-> "health", left |-> retryCheck # "own"]
        BY <2>3 DEF RetryCheck
    <2> QED BY <1>1, <2>1, <2>2, <2>3
<1>3. DOMAIN systemCalls = Slots /\ \A t \in Slots : SystemCallOK(systemCalls[t])
    BY LockedNow
<1>4. PICK after : after = systemCalls'
    OBVIOUS
<1>5. PICK writers : writers = {}
    OBVIOUS
<1>6. IsPosted(systemCalls, call, writers, after)
    <2>1. \A t \in Slots : "op" \in DOMAIN systemCalls[t]
        BY <1>3 DEF SystemCallOK, IsCall
    <2>2. after = Post(systemCalls, call, writers)
        BY <1>2, <1>4, <1>5
    <2> QED BY <1>2, <1>3, <2>1, <2>2, PostedCalls
<1>7. PICK slot \in Slots :
          /\ systemCalls[slot].op = "idle"
          /\ DOMAIN after[slot] = DOMAIN call \cup {"answer", "alone"}
          /\ \A f \in DOMAIN call : after[slot][f] = call[f]
          /\ after[slot].answer = Unanswered
          /\ \A t \in Slots \ {slot} : after[t] = systemCalls[t]
    BY <1>5, <1>6 DEF IsPosted
<1>8. PICK made : made = after[slot]
    OBVIOUS
<1>9. made.op = call.op /\ made.left = call.left /\ DOMAIN made = DOMAIN call \cup {"answer", "alone"}
    BY <1>2, <1>7, <1>8
<1>20. /\ checking' => checking \/ (call.op = "health" /\ ~call.left)
       /\ checking' \in BOOLEAN
       /\ retryCheck' = "own" => mounted.tab \in HealthTabs
       /\ call.op = "health" /\ ~call.left => mounted.tab \in HealthTabs
    <2>1. CASE call.op = "health" /\ call.left = FALSE /\ Recheck
        BY <2>1 DEF Recheck
    <2>2. CASE call.op = "health" /\ call.left = (retryCheck # "own") /\ RetryCheck
        <3>1. /\ checking' = (checking \/ retryCheck = "own") /\ retryCheck' = "none"
              /\ call.left <=> retryCheck # "own"
            BY <2>2 DEF RetryCheck
        <3> QED BY <2>2, <3>1, LockedNow
    <2>3. CASE call.op = "csv" /\ ExportTrends
        <3>1. UNCHANGED <<checking, retryCheck>>
            BY <2>3 DEF ExportTrends, Unchanged
        <3> QED BY <2>3, <3>1, LockedNow
    <2> QED BY <1>2, <2>1, <2>2, <2>3
<1>10. /\ SystemCallOK(made) /\ ~Disturbs(made) /\ ~IsViewLoader(made) /\ ~IsSystemChange(made)
       /\ IsExport(made) <=> call.op = "csv"
       /\ IsCheck(made) <=> call.op = "health" /\ ~call.left
       /\ IsOfTab(made, mounted)
    <2>1. SystemCallOK(made)
        BY <1>2, <1>9, SystemNames DEF SystemCallOK, IsCall, SystemOps
    <2>2. IsOfTab(made, mounted)
        BY <1>2, <1>9, <1>20 DEF IsOfTab
    <2> QED BY <1>2, <1>9, <2>1, <2>2, CallKinds DEF IsExport, IsCheck
<1>11. ~Disturbs(systemCalls[slot]) /\ ~IsViewLoader(systemCalls[slot]) /\ ~IsSystemChange(systemCalls[slot])
       /\ ~IsExport(systemCalls[slot]) /\ ~IsCheck(systemCalls[slot])
    BY <1>7, SystemNames DEF Disturbs, IsViewLoader, IsSystemChange, IsExport, IsCheck, SystemOps
<1>12. PICK view : view = systemView'
    OBVIOUS
<1>13. SystemTypeInv /\ DialogFits(systemView, mounted) /\ LocksFit(systemCalls, systemView, checking)
    BY DEF SystemInv
<1>14. /\ DOMAIN view = DOMAIN systemView /\ view.loading = systemView.loading /\ view.saving = systemView.saving
       /\ view.dialog = systemView.dialog /\ view.shown = systemView.shown
       /\ call.op = "csv" => systemView.exporting = FALSE /\ view.exporting = TRUE
       /\ call.op = "health" => view.exporting = systemView.exporting
    <2>1. CASE call.op = "csv"
        <3>1. systemView' = [systemView EXCEPT !.exporting = TRUE] /\ ~systemView.exporting
            BY <1>2, <2>1 DEF ExportTrends, ExportOffered, Unchanged
        <3> QED BY <1>12, <1>13, <2>1, <3>1 DEF SystemTypeInv
    <2>2. CASE call.op = "health"
        BY <1>2, <1>12, <2>2
    <2> QED BY <1>2, <2>1, <2>2
<1>15. SystemTypeInv'
    <2>1. DOMAIN after = Slots /\ \A t \in Slots : SystemCallOK(after[t])
        BY <1>3, <1>6, <1>7, <1>8, <1>10 DEF IsPosted
    <2>2. view.saving \in BOOLEAN /\ view.exporting \in BOOLEAN
        BY <1>2, <1>13, <1>14 DEF SystemTypeInv
    <2>3. checking' \in BOOLEAN /\ (retryCheck' = "own" => mounted.tab \in HealthTabs)
        BY <1>2, <1>20, LockedNow
    <2> QED BY <1>2, <1>4, <1>12, <1>13, <1>14, <2>1, <2>2, <2>3 DEF SystemTypeInv
<1>16. LocksFit(systemCalls, systemView, checking)'
    <2>1. /\ (\E t \in Slots : IsViewLoader(after[t])) <=> \E t \in Slots : IsViewLoader(systemCalls[t])
          /\ (\E t \in Slots : IsSystemChange(after[t])) <=> \E t \in Slots : IsSystemChange(systemCalls[t])
        BY <1>7, <1>8, <1>10, <1>11
    <2>2. (\E t \in Slots : IsExport(after[t])) <=> call.op = "csv" \/ \E t \in Slots : IsExport(systemCalls[t])
        BY <1>7, <1>8, <1>10, <1>11
    <2>3. checking' => \E t \in Slots : IsCheck(after[t])
        <3>1. IsCheck(after[slot]) <=> call.op = "health" /\ ~call.left
            BY <1>8, <1>10
        <3>2. checking => \E t \in Slots \ {slot} : IsCheck(systemCalls[t])
            BY <1>11, <1>13 DEF LocksFit
        <3> QED BY <1>2, <1>7, <1>20, <3>1, <3>2
    <2>4. \A t, u \in Slots : IsSystemChange(after[t]) /\ IsSystemChange(after[u]) => t = u
        BY <1>7, <1>8, <1>10, <1>13 DEF LocksFit
    <2>5. \A t, u \in Slots : IsExport(after[t]) /\ IsExport(after[u]) => t = u
        BY <1>7, <1>8, <1>10, <1>13, <1>14 DEF LocksFit
    <2>6. view.exporting <=> call.op = "csv" \/ systemView.exporting
        BY <1>2, <1>14
    <2>8. LocksFit(after, view, checking')
        BY <1>13, <1>14, <2>1, <2>2, <2>3, <2>4, <2>5, <2>6 DEF LocksFit
    <2> QED BY <1>4, <1>12, <2>8 DEF LocksFit
<1>17. (\A t \in Slots : IsOfTab(systemCalls[t], mounted) \/ systemCalls[t].op = "idle")'
    <2>1. \A t \in Slots : IsOfTab(after[t], mounted) \/ after[t].op = "idle"
        BY <1>7, <1>8, <1>10, LockedNow
    <2> QED BY <1>2, <1>4, <2>1 DEF IsOfTab
<1>18. DialogFits(systemView, mounted)'
    BY <1>2, <1>12, <1>13, <1>14 DEF DialogFits
<1>19. SystemSureInv'
    <2>1. \A t \in Slots : /\ Disturbs(after[t]) <=> Disturbs(systemCalls[t])
                           /\ Disturbs(after[t]) => after[t] = systemCalls[t]
        BY <1>7, <1>8, <1>10, <1>11
    <2>2. \A t \in Slots : after[t].op = "incident" => after[t] = systemCalls[t]
        BY <2>1 DEF Disturbs, Disturbers, SystemChanges
    <2>3. \A t \in Slots : BringsStored(after[t])
        BY <2>1 DEF SystemInv, SystemSureInv, BringsStored
    <2>4. \A t \in Slots : BringsStored(systemCalls[t])'
        BY <1>2, <1>4, <2>3 DEF BringsStored, Disturbs, Succeeds, Stored, InvitesOf
    <2>5. viewSure => \A t \in Slots : RowFollows(after[t])
        BY <2>2 DEF SystemInv, SystemSureInv, RowFollows
    <2>6. viewSure => \A t \in Slots : RowFollows(systemCalls[t])'
        BY <1>2, <1>4, <1>12, <1>14, <2>5 DEF RowFollows, Succeeds
    <2>7. \A t \in Slots : Disturbs(systemCalls[t])' <=> Disturbs(after[t])
        BY <1>4 DEF Disturbs
    <2>8. Stored(mounted.tab, mounted.part)' = Stored(mounted.tab, mounted.part)
        BY <1>2 DEF Stored, InvitesOf
    <2>9. /\ \A t, u \in Slots : Disturbs(after[t]) /\ Disturbs(after[u]) /\ after[t].alone => t = u
          /\ viewSure => \A t \in Slots : Disturbs(after[t]) => ~after[t].left
          /\ viewSure /\ (\A t \in Slots : ~Disturbs(after[t])) =>
                view.shown = Stored(mounted.tab, mounted.part)
        BY <1>14, <2>1 DEF SystemInv, SystemSureInv
    <2> QED BY <1>2, <1>4, <1>12, <2>4, <2>6, <2>7, <2>8, <2>9 DEF SystemSureInv
<1> QED BY <1>15, <1>16, <1>17, <1>18, <1>19 DEF SystemInv

-----------------------------------------------------------------------------
\* The backend answers, and may have changed what the request asked it to change.
LEMMA SystemToldKeeps ==
    ASSUME SystemInv, NEW s \in Slots, systemCalls[s].op # "idle", NEW answer, answer # Unanswered,
           systemCalls' = [systemCalls EXCEPT ![s].answer = answer],
           UNCHANGED <<mounted, systemView, checking, retryCheck, viewSure>>,
           DOMAIN depot' = DOMAIN depot,
           depot' = depot \/ (systemCalls[s].op \in SystemChanges /\ systemCalls[s].answer = Unanswered),
           answer.kind = "ok" =>
              /\ systemCalls[s].op = "load" =>
                    depot' = depot /\ answer.body = Stored(systemCalls[s].tab, systemCalls[s].part)
              /\ systemCalls[s].op = "again" => depot' = depot /\ answer.body = depot.incidents
              /\ systemCalls[s].op = "save" => answer.body = depot'.policy
              /\ systemCalls[s].op = "incident" =>
                    /\ systemCalls[s].answer = Unanswered
                    /\ depot'.incidents = [depot.incidents EXCEPT ![systemCalls[s].of] = answer.body]
    PROVE  SystemInv'
<1>1. PICK call : call = systemCalls[s]
    OBVIOUS
<1>2. PICK told : told = [call EXCEPT !.answer = answer]
    OBVIOUS
<1>3. PICK after : after = systemCalls'
    OBVIOUS
<1>4. SystemCallOK(call)
    BY <1>1, LockedNow
<1>5. /\ DOMAIN told = DOMAIN call /\ told.answer = answer
      /\ \A f \in DOMAIN call \ {"answer"} : told[f] = call[f]
    BY <1>1, <1>2, <1>4 DEF SystemCallOK, IsCall
<1>6. /\ DOMAIN after = Slots /\ after[s] = told
      /\ \A t \in Slots \ {s} : after[t] = systemCalls[t]
    BY <1>1, <1>2, <1>3, LockedNow
<1>7. told.op = call.op /\ told.left = call.left /\ told.alone = call.alone
    BY <1>1, <1>4, <1>5 DEF SystemCallOK, IsCall
<1>8. /\ call.op = "load" => told.tab = call.tab /\ told.part = call.part
      /\ call.op = "incident" => told.of = call.of
    BY <1>4, <1>5 DEF SystemCallOK
<1>9. /\ SystemCallOK(told)
      /\ Disturbs(told) <=> Disturbs(call)
      /\ IsViewLoader(told) <=> IsViewLoader(call)
      /\ IsSystemChange(told) <=> IsSystemChange(call)
      /\ IsExport(told) <=> IsExport(call)
      /\ IsCheck(told) <=> IsCheck(call)
      /\ IsOfTab(call, mounted) => IsOfTab(told, mounted)
    BY <1>4, <1>5, <1>7, <1>8 DEF SystemCallOK, IsCall, Disturbs, IsViewLoader, IsSystemChange, IsExport, IsCheck, IsOfTab
<1>10. \A t \in Slots : /\ SystemCallOK(after[t]) /\ after[t].op = systemCalls[t].op
                        /\ Disturbs(after[t]) <=> Disturbs(systemCalls[t])
                        /\ IsViewLoader(after[t]) <=> IsViewLoader(systemCalls[t])
                        /\ IsSystemChange(after[t]) <=> IsSystemChange(systemCalls[t])
                        /\ IsExport(after[t]) <=> IsExport(systemCalls[t])
                        /\ IsCheck(after[t]) <=> IsCheck(systemCalls[t])
                        /\ IsOfTab(after[t], mounted) \/ after[t].op = "idle"
                        /\ Disturbs(after[t]) => after[t].left = systemCalls[t].left
                                                 /\ after[t].alone = systemCalls[t].alone
    BY <1>1, <1>6, <1>7, <1>9, LockedNow
<1>11. SystemTypeInv'
    BY <1>3, <1>6, <1>10 DEF SystemInv, SystemTypeInv
<1>12. LocksFit(systemCalls, systemView, checking)'
    <2>1. LocksFit(systemCalls, systemView, checking)
        BY DEF SystemInv
    <2>2. LocksFit(after, systemView, checking)
        <3>1. /\ systemView.loading => \E t \in Slots : IsViewLoader(after[t])
              /\ systemView.saving <=> \E t \in Slots : IsSystemChange(after[t])
              /\ systemView.exporting <=> \E t \in Slots : IsExport(after[t])
              /\ checking => \E t \in Slots : IsCheck(after[t])
            BY <1>10, <2>1 DEF LocksFit
        <3>2. \A t, u \in Slots : \/ IsSystemChange(after[t]) /\ IsSystemChange(after[u])
                                  \/ IsExport(after[t]) /\ IsExport(after[u])
                                  => t = u
            BY <1>10, <2>1 DEF LocksFit
        <3> QED BY <3>1, <3>2 DEF LocksFit
    <2> QED BY <1>3, <2>2 DEF LocksFit
<1>13. (\A t \in Slots : IsOfTab(systemCalls[t], mounted) \/ systemCalls[t].op = "idle")'
    <2>1. \A t \in Slots : IsOfTab(after[t], mounted) \/ after[t].op = "idle"
        BY <1>10
    <2> QED BY <1>3, <2>1 DEF IsOfTab
<1>14. DialogFits(systemView, mounted)'
    BY DEF SystemInv, DialogFits
<1>15. SystemSureInv'
    <2>0. SystemSureInv
        BY DEF SystemInv
    <2>1. depot' # depot => Disturbs(call) /\ call.op \in SystemChanges /\ call.answer = Unanswered
        BY <1>1, SystemNames DEF Disturbs
    <2>2. \A t \in Slots : t # s /\ Disturbs(systemCalls[t]) /\ systemCalls[t].alone => depot' = depot
        BY <1>1, <2>0, <2>1 DEF SystemSureInv
    <2>3. BringsStored(after[s])'
        <3>1. told.answer # Unanswered
            BY <1>5
        <3>2. Succeeds(told) <=> answer.kind = "ok"
            BY <1>5 DEF Succeeds
        <3>3. \A tab, piece : depot' = depot => Stored(tab, piece)' = Stored(tab, piece)
            BY DEF Stored, InvitesOf
        <3>4. Succeeds(told) =>
                  /\ told.op = "load" => told.answer.body = Stored(told.tab, told.part)'
                  /\ told.op = "again" => told.answer.body = depot'.incidents
                  /\ told.op = "save" => told.answer.body = depot'.policy
            BY <1>1, <1>5, <1>7, <1>8, <3>2, <3>3
        <3>5. BringsStored(told)'
            BY <3>1, <3>4 DEF BringsStored, Succeeds
        <3> QED BY <1>6, <3>5
    <2>4. ASSUME NEW t \in Slots, t # s
          PROVE  BringsStored(systemCalls[t])'
        <3>1. BringsStored(systemCalls[t]) /\ after[t] = systemCalls[t]
            BY <1>6, <2>0, <2>4 DEF SystemSureInv
        <3>2. CASE depot' = depot
            <4>1. PICK other : other = systemCalls[t]
                OBVIOUS
            <4>2. \A tab, piece : Stored(tab, piece)' = Stored(tab, piece)
                BY <3>2 DEF Stored, InvitesOf
            <4>3. BringsStored(other)'
                BY <3>1, <3>2, <4>1, <4>2 DEF BringsStored, Succeeds
            <4> QED BY <1>3, <3>1, <4>1, <4>3 DEF BringsStored, Disturbs, Succeeds
        <3>3. CASE ~(Disturbs(systemCalls[t]) /\ systemCalls[t].alone)
            BY <1>3, <3>1, <3>3 DEF BringsStored, Disturbs
        <3> QED BY <2>2, <2>4, <3>2, <3>3
    <2>5. \A t \in Slots : BringsStored(systemCalls[t])'
        <3>1. BringsStored(systemCalls[s])'
            BY <1>3, <2>3 DEF BringsStored, Disturbs, Succeeds
        <3> QED BY <2>4, <3>1
    <2>6. ASSUME viewSure, NEW t \in Slots
          PROVE  RowFollows(systemCalls[t])'
        <3>1. RowFollows(systemCalls[t])
            BY <2>0, <2>6 DEF SystemSureInv
        <3>2. CASE t = s
            <4>1. told.answer # Unanswered
                BY <1>5
            <4>2. Succeeds(told) <=> answer.kind = "ok"
                BY <1>5 DEF Succeeds
            <4>3. told.op = "incident" /\ told.alone /\ Succeeds(told) =>
                      [systemView.shown EXCEPT ![told.of] = told.answer.body] = depot'.incidents
                BY <1>1, <1>5, <1>7, <1>8, <3>1, <3>2, <4>2 DEF RowFollows
            <4>4. RowFollows(told)'
                BY <4>1, <4>3 DEF RowFollows, Succeeds
            <4> QED BY <1>3, <1>6, <3>2, <4>4 DEF RowFollows, Succeeds
        <3>3. CASE t # s /\ depot' = depot
            BY <1>3, <1>6, <3>1, <3>3 DEF RowFollows, Succeeds
        <3>4. CASE t # s /\ depot' # depot
            <4>1. systemCalls[t].op = "incident" => ~systemCalls[t].alone
                BY <2>2, <3>4 DEF Disturbs, Disturbers, SystemChanges
            <4> QED BY <1>3, <1>6, <3>4, <4>1 DEF RowFollows
        <3> QED BY <3>2, <3>3, <3>4
    <2>7. \A t \in Slots : Disturbs(systemCalls[t])' <=> Disturbs(after[t])
        BY <1>3 DEF Disturbs
    <2>8. /\ \A t, u \in Slots : Disturbs(after[t]) /\ Disturbs(after[u]) /\ after[t].alone => t = u
          /\ viewSure => \A t \in Slots : Disturbs(after[t]) => ~after[t].left
        BY <1>10, <2>0 DEF SystemSureInv
    <2>9. viewSure /\ (\A t \in Slots : ~Disturbs(after[t])) =>
              systemView.shown = Stored(mounted.tab, mounted.part)'
        <3>1. (\A t \in Slots : ~Disturbs(after[t])) => ~Disturbs(call) /\ \A t \in Slots : ~Disturbs(systemCalls[t])
            BY <1>1, <1>10
        <3>2. depot' = depot => Stored(mounted.tab, mounted.part)' = Stored(mounted.tab, mounted.part)
            BY DEF Stored, InvitesOf
        <3> QED BY <2>0, <2>1, <3>1, <3>2 DEF SystemSureInv
    <2> QED BY <1>3, <2>5, <2>6, <2>7, <2>8, <2>9 DEF SystemSureInv
<1> QED BY <1>11, <1>12, <1>13, <1>14, <1>15 DEF SystemInv

\* A call is refused, or its answer is lost.
LEMMA SystemRefuseKeeps ==
    ASSUME SystemInv, NEW s \in Slots, RefuseSystem(s) \/ LoseSystemAnswer(s)
    PROVE  SystemInv'
<1>1. PICK answer \in {Refused("refused"), Lost} :
          /\ systemCalls' = [systemCalls EXCEPT ![s].answer = answer] /\ depot' = depot
          /\ UNCHANGED <<mounted, systemView, checking, retryCheck, viewSure>>
    BY DEF RefuseSystem, LoseSystemAnswer, AnswerSystem, LoseAnswer
<1>2. answer.kind # "ok" /\ answer # Unanswered
    BY <1>1 DEF Refused, Lost, Unanswered
<1>3. systemCalls[s].op # "idle"
    BY DEF RefuseSystem, LoseSystemAnswer, Busy
<1>4. DOMAIN depot' = DOMAIN depot
    BY <1>1
<1> QED BY <1>1, <1>2, <1>3, <1>4, SystemToldKeeps

\* The backend serves a call of the page.
LEMMA SystemServeKeeps ==
    ASSUME SystemInv, NEW s \in Slots, ServeSystem(s)
    PROVE  SystemInv'
<1>1. PICK call : call = systemCalls[s]
    OBVIOUS
<1>2. \A body : Ok(body).kind = "ok" /\ Ok(body).body = body /\ Ok(body) # Unanswered
    BY DEF Ok, Unanswered
<1>3. ASSUME NEW body, AnswerSystem(s, Ok(body)), depot' = depot, call.op \notin {"idle", "save", "incident"},
             call.op = "load" => body = Stored(call.tab, call.part),
             call.op = "again" => body = depot.incidents
      PROVE  SystemInv'
    <2>1. PICK answer : answer = Ok(body)
        OBVIOUS
    <2>2. /\ systemCalls' = [systemCalls EXCEPT ![s].answer = answer]
          /\ UNCHANGED <<mounted, systemView, checking, retryCheck, viewSure>>
        BY <1>3, <2>1 DEF AnswerSystem
    <2>3. answer.kind = "ok" /\ answer.body = body /\ answer # Unanswered
        BY <1>2, <2>1
    <2>4. systemCalls[s].op # "idle" /\ DOMAIN depot' = DOMAIN depot
        BY <1>1, <1>3
    <2> QED BY <1>1, <1>3, <2>2, <2>3, <2>4, SystemToldKeeps
<1>4. ASSUME NEW body, NEW values, AnswerSystem(s, Ok(body)), depot' = With(values, depot),
             DOMAIN values \subseteq {"policy", "invites", "incidents"}, call.op \in SystemChanges,
             call.op = "save" => depot'.policy = body,
             call.op = "incident" => depot'.incidents = [depot.incidents EXCEPT ![call.of] = body]
      PROVE  SystemInv'
    <2>1. PICK answer : answer = Ok(body)
        OBVIOUS
    <2>2. /\ systemCalls' = [systemCalls EXCEPT ![s].answer = answer] /\ call.answer = Unanswered
          /\ UNCHANGED <<mounted, systemView, checking, retryCheck, viewSure>>
        BY <1>1, <1>4, <2>1 DEF AnswerSystem
    <2>3. answer.kind = "ok" /\ answer.body = body /\ answer # Unanswered
        BY <1>2, <2>1
    <2>4. DOMAIN depot' = DOMAIN depot
        <3>1. DOMAIN depot' = DOMAIN values \cup DOMAIN depot
            BY <1>4 DEF With
        <3> QED BY <1>4, <3>1 DEF SystemInv, SystemTypeInv
    <2>5. call.op \notin {"idle", "load", "again"}
        BY <1>4 DEF SystemChanges
    <2> QED BY <1>1, <1>4, <2>2, <2>3, <2>4, <2>5, SystemToldKeeps
<1>5. DOMAIN depot = {"policy", "invites", "incidents"}
    BY DEF SystemInv, SystemTypeInv
<1>6. CASE call.op = "load" /\ AnswerSystem(s, Ok(Stored(call.tab, call.part))) /\ depot' = depot
    <2>1. PICK body : body = Stored(call.tab, call.part)
        OBVIOUS
    <2> QED BY <1>3, <1>6, <2>1
<1>7. CASE call.op = "again" /\ AnswerSystem(s, Ok(depot.incidents)) /\ depot' = depot
    <2>1. PICK body : body = depot.incidents
        OBVIOUS
    <2> QED BY <1>3, <1>7, <2>1
<1>8. CASE call.op \in {"health", "csv"} /\ AnswerSystem(s, Ok(None)) /\ depot' = depot
    <2>1. PICK body : body = None
        OBVIOUS
    <2> QED BY <1>3, <1>8, <2>1
<1>9. CASE call.op \in {"create", "remove"} /\ AnswerSystem(s, Ok(None))
           /\ \E invites : depot' = With([invites |-> invites], depot)
    <2>1. PICK invites : depot' = With([invites |-> invites], depot)
        BY <1>9
    <2>2. PICK values : values = [invites |-> invites]
        OBVIOUS
    <2>3. DOMAIN values = {"invites"} /\ depot' = With(values, depot)
        BY <2>1, <2>2
    <2>4. PICK body : body = None
        OBVIOUS
    <2> QED BY <1>4, <1>9, <2>3, <2>4 DEF SystemChanges
<1>10. CASE call.op = "save" /\ AnswerSystem(s, Ok(call.policy)) /\ depot' = With([policy |-> call.policy], depot)
    <2>1. PICK values : values = [policy |-> call.policy]
        OBVIOUS
    <2>2. PICK body : body = call.policy
        OBVIOUS
    <2>3. DOMAIN values = {"policy"} /\ values.policy = body /\ depot' = With(values, depot)
        BY <1>10, <2>1, <2>2
    <2>4. depot'.policy = body
        BY <1>5, <2>3 DEF With
    <2> QED BY <1>4, <1>10, <2>2, <2>3, <2>4 DEF SystemChanges
<1>11. CASE /\ call.op = "incident" /\ AnswerSystem(s, Ok(call.to))
            /\ depot' = With([incidents |-> [depot.incidents EXCEPT ![call.of] = call.to]], depot)
    <2>1. PICK rows : rows = [depot.incidents EXCEPT ![call.of] = call.to]
        OBVIOUS
    <2>2. PICK values : values = [incidents |-> rows]
        OBVIOUS
    <2>3. PICK body : body = call.to
        OBVIOUS
    <2>4. DOMAIN values = {"incidents"} /\ values.incidents = rows /\ depot' = With(values, depot)
        BY <1>11, <2>1, <2>2
    <2>5. depot'.incidents = rows
        BY <1>5, <2>4 DEF With
    <2> QED BY <1>4, <1>11, <2>1, <2>3, <2>4, <2>5 DEF SystemChanges
<1> QED BY <1>1, <1>6, <1>7, <1>8, <1>9, <1>10, <1>11 DEF ServeSystem

\* An incident comes back while the page shows the last state it saw.
LEMMA RecurKeeps ==
    ASSUME SystemInv, NEW i \in Incidents, IncidentRecurs(i)
    PROVE  SystemInv'
<1>1. /\ systemCalls' = Crossed(systemCalls, Disturbers) /\ viewSure' = FALSE
      /\ UNCHANGED <<mounted, systemView, checking, retryCheck>>
      /\ depot' = [depot EXCEPT !.incidents[i] = "open"]
    BY DEF IncidentRecurs
<1>2. PICK after : after = systemCalls'
    OBVIOUS
<1>3. DOMAIN after = Slots
    BY <1>1, <1>2 DEF Crossed
<1>4. ASSUME NEW t \in Slots
      PROVE  /\ SystemCallOK(after[t]) /\ after[t].op = systemCalls[t].op
             /\ Disturbs(after[t]) <=> Disturbs(systemCalls[t])
             /\ IsViewLoader(after[t]) <=> IsViewLoader(systemCalls[t])
             /\ IsSystemChange(after[t]) <=> IsSystemChange(systemCalls[t])
             /\ IsExport(after[t]) <=> IsExport(systemCalls[t])
             /\ IsCheck(after[t]) <=> IsCheck(systemCalls[t])
             /\ IsOfTab(after[t], mounted) \/ after[t].op = "idle"
             /\ Disturbs(after[t]) => ~after[t].alone
    <2>1. PICK call : call = systemCalls[t]
        OBVIOUS
    <2>2. SystemCallOK(call) /\ (IsOfTab(call, mounted) \/ call.op = "idle")
        BY <2>1, LockedNow
    <2>3. CASE call.op \in Disturbers
        <3>1. PICK next : next = [call EXCEPT !.alone = FALSE]
            OBVIOUS
        <3>2. after[t] = next
            BY <1>1, <1>2, <2>1, <2>3, <3>1 DEF Crossed
        <3>3. DOMAIN next = DOMAIN call /\ \A f \in DOMAIN call \ {"alone"} : next[f] = call[f]
            BY <3>1
        <3>4. ~next.alone
            BY <2>2, <2>3, <3>1, SystemNames DEF SystemCallOK, IsCall
        <3>5. call.op # "idle"
            BY <2>3, SystemNames
        <3>6. SystemCallOK(next) /\ next.op = call.op
              /\ (Disturbs(next) <=> Disturbs(call))
              /\ (IsViewLoader(next) <=> IsViewLoader(call))
              /\ (IsSystemChange(next) <=> IsSystemChange(call))
              /\ (IsExport(next) <=> IsExport(call)) /\ (IsCheck(next) <=> IsCheck(call))
              /\ (IsOfTab(call, mounted) /\ call.op # "idle" => IsOfTab(next, mounted))
            BY <2>2, <3>3, SameSystemCall
        <3> QED BY <2>1, <2>2, <3>2, <3>4, <3>5, <3>6
    <2>4. CASE call.op \notin Disturbers
        <3>1. after[t] = call
            BY <1>1, <1>2, <2>1, <2>4 DEF Crossed
        <3> QED BY <2>1, <2>2, <2>4, <3>1 DEF Disturbs
    <2> QED BY <2>3, <2>4
<1>5. SystemTypeInv'
    <2>1. DOMAIN depot' = DOMAIN depot
        BY <1>1
    <2> QED BY <1>1, <1>2, <1>3, <1>4, <2>1 DEF SystemInv, SystemTypeInv
<1>6. LocksFit(systemCalls, systemView, checking)'
    <2>1. LocksFit(systemCalls, systemView, checking)
        BY DEF SystemInv
    <2>2. /\ systemView.loading => \E t \in Slots : IsViewLoader(after[t])
          /\ systemView.saving <=> \E t \in Slots : IsSystemChange(after[t])
          /\ systemView.exporting <=> \E t \in Slots : IsExport(after[t])
          /\ checking => \E t \in Slots : IsCheck(after[t])
        BY <1>4, <2>1 DEF LocksFit
    <2>3. \A t, u \in Slots : \/ IsSystemChange(after[t]) /\ IsSystemChange(after[u])
                              \/ IsExport(after[t]) /\ IsExport(after[u])
                              => t = u
        BY <1>4, <2>1 DEF LocksFit
    <2>4. LocksFit(after, systemView, checking)
        BY <2>2, <2>3 DEF LocksFit
    <2> QED BY <1>1, <1>2, <2>4 DEF LocksFit
<1>7. (\A t \in Slots : IsOfTab(systemCalls[t], mounted) \/ systemCalls[t].op = "idle")'
    <2>1. \A t \in Slots : IsOfTab(after[t], mounted) \/ after[t].op = "idle"
        BY <1>4
    <2> QED BY <1>1, <1>2, <2>1 DEF IsOfTab
<1>8. DialogFits(systemView, mounted)'
    BY <1>1 DEF SystemInv, DialogFits
<1>9. SystemSureInv'
    <2>1. \A t \in Slots : Disturbs(after[t]) => ~after[t].alone
        BY <1>4
    <2>2. \A t \in Slots : BringsStored(systemCalls[t])'
        BY <1>2, <2>1 DEF BringsStored, Disturbs
    <2>3. \A t \in Slots : Disturbs(systemCalls[t])' <=> Disturbs(after[t])
        BY <1>2 DEF Disturbs
    <2> QED BY <1>1, <1>2, <2>1, <2>2, <2>3 DEF SystemSureInv
<1> QED BY <1>5, <1>6, <1>7, <1>8, <1>9 DEF SystemInv

-----------------------------------------------------------------------------

\* The page opens on a tab.
LEMMA SystemStart ==
    ASSUME SystemInit
    PROVE  SystemInv
<1>1. PICK tab : mounted = [tab |-> tab, part |-> 1]
    BY DEF SystemInit
<1>2. PICK call : call = Load(tab, 1)
    OBVIOUS
<1>3. PICK calls : calls = NoCalls
    OBVIOUS
<1>4. /\ systemCalls = Post(calls, call, Disturbers) /\ viewSure = FALSE /\ systemView = FreshView
      /\ checking = FALSE /\ retryCheck = "none" /\ DOMAIN depot = {"policy", "invites", "incidents"}
    BY <1>1, <1>2, <1>3 DEF SystemInit
<1>5. /\ CallFields(call) /\ {"answer", "alone"} \cap DOMAIN call = {}
      /\ call.op = "load" /\ call.tab = tab /\ call.part = 1 /\ IsViewLoader(call)
    BY <1>2, LoadCall
<1>6. NoCall.op = "idle" /\ "op" \in DOMAIN NoCall /\ SystemCallOK(NoCall)
    BY DEF NoCall, SystemCallOK, IsCall
<1>7. DOMAIN calls = Slots /\ (\A s \in Slots : calls[s] = NoCall) /\ Free(calls) # {}
    BY <1>3, <1>6, SlotsAssumption DEF NoCalls, Free, Busy
<1>8. PICK writers : writers = Disturbers
    OBVIOUS
<1>9. IsPosted(calls, call, writers, systemCalls)
    <2>1. \A t \in Slots : "op" \in DOMAIN calls[t]
        BY <1>6, <1>7
    <2>2. systemCalls = Post(calls, call, writers)
        BY <1>4, <1>8
    <2> QED BY <1>5, <1>7, <2>1, <2>2, PostedCalls
<1>10. PICK slot \in Slots :
          /\ DOMAIN systemCalls[slot] = DOMAIN call \cup {"answer", "alone"}
          /\ \A f \in DOMAIN call : systemCalls[slot][f] = call[f]
          /\ systemCalls[slot].answer = Unanswered
          /\ \A t \in Slots \ {slot} : systemCalls[t] = NoCall
    BY <1>6, <1>7, <1>8, <1>9, SystemNames DEF IsPosted, SystemOps
<1>11. PICK made : made = systemCalls[slot]
    OBVIOUS
<1>12. /\ made.op = "load" /\ made.tab = tab /\ made.part = 1 /\ made.left = FALSE /\ ~Succeeds(made)
       /\ DOMAIN made = DOMAIN call \cup {"answer", "alone"}
    BY <1>5, <1>10, <1>11 DEF CallFields, Succeeds, Unanswered
<1>13. SystemCallOK(made)
    BY <1>5, <1>12, SystemNames DEF SystemCallOK, IsCall, CallFields
<1>14. /\ ~Disturbs(NoCall) /\ ~IsViewLoader(NoCall) /\ ~IsSystemChange(NoCall) /\ ~IsExport(NoCall)
       /\ Disturbs(made) /\ IsViewLoader(made) /\ ~IsSystemChange(made) /\ ~IsExport(made)
    BY <1>6, <1>12, CallKinds, SystemNames DEF Disturbs, IsViewLoader, IsSystemChange, IsExport, SystemOps
<1>15. SystemTypeInv
    <2>1. \A t \in Slots : SystemCallOK(systemCalls[t])
        BY <1>6, <1>10, <1>11, <1>13
    <2> QED BY <1>1, <1>4, <1>9, <2>1 DEF SystemTypeInv, FreshView, IsPosted
<1>16. DialogFits(systemView, mounted)
    BY <1>4 DEF DialogFits, FreshView
<1>17. LocksFit(systemCalls, systemView, checking)
    <2>1. \A t \in Slots : ~IsSystemChange(systemCalls[t]) /\ ~IsExport(systemCalls[t])
        BY <1>6, <1>10, <1>11, <1>12, <1>14
    <2>2. IsViewLoader(systemCalls[slot])
        BY <1>11, <1>14
    <2> QED BY <1>4, <2>1, <2>2 DEF LocksFit, FreshView
<1>18. \A t \in Slots : IsOfTab(systemCalls[t], mounted) \/ systemCalls[t].op = "idle"
    BY <1>1, <1>6, <1>10, <1>11, <1>12 DEF IsOfTab
<1>19. SystemSureInv
    <2>1. \A t \in Slots : Disturbs(systemCalls[t]) => t = slot
        BY <1>10, <1>14
    <2>2. \A t \in Slots : BringsStored(systemCalls[t])
        BY <1>11, <1>12, <2>1 DEF BringsStored
    <2> QED BY <1>4, <2>1, <2>2 DEF SystemSureInv
<1> QED BY <1>15, <1>16, <1>17, <1>18, <1>19 DEF SystemInv

\* The step of the page, action by action.
LEMMA SystemKept ==
    ASSUME SystemInv, [SystemNext]_systemVars
    PROVE  SystemInv'
<1>1. CASE UNCHANGED systemVars
    <2>1. PICK view : view = systemView
        OBVIOUS
    <2>2. UNCHANGED <<depot, mounted, checking, retryCheck, viewSure, systemCalls>> /\ systemView' = view
        BY <1>1, <2>1 DEF systemVars
    <2>3. DialogFits(view, mounted)
        BY <2>1 DEF SystemInv
    <2> QED BY <2>1, <2>2, <2>3, ViewKeeps
<1>2. CASE \E tab \in Tabs : MountTab(tab)
    BY <1>2, MountKeeps
<1>3. CASE (\E piece \in Parts : TurnPart(piece)) \/ Reload
    BY <1>3, TurnKeeps
<1>4. CASE \/ CloseDialog \/ AskRetention
           \/ OpenDialog([name |-> "create"])
           \/ \E i \in 1..InviteCount : OpenDialog([name |-> "remove", of |-> i])
           \/ \E i \in Incidents, to \in {"acknowledged", "resolved"} :
                 OpenDialog([name |-> "incident", of |-> i, to |-> to])
           \/ \E wanted \in Policies : EditPolicy(wanted)
    <2>1. \/ (\E dialog : OpenDialog(dialog)) \/ CloseDialog \/ AskRetention
          \/ \E wanted \in Policies : EditPolicy(wanted)
        BY <1>4
    <2> QED BY <2>1, LocalsKeep
<1>5. CASE CreateInvite \/ DeleteInvite \/ SaveIncident \/ SubmitPolicy \/ ConfirmRetention
    BY <1>5, ChangesKeep
<1>6. CASE RetryIncidents
    BY <1>6, RetryKeeps
<1>7. CASE Recheck \/ RetryCheck \/ ExportTrends
    BY <1>7, PostKeeps
<1>8. CASE \E i \in Incidents : IncidentRecurs(i)
    BY <1>8, RecurKeeps
<1>9. CASE \E s \in Slots : \/ LandSystem(s) \/ LandRetry(s) \/ LandInvite(s) \/ LandSave(s)
                            \/ LandIncident(s) \/ LandHealth(s) \/ LandExport(s)
                            \/ ServeSystem(s) \/ RefuseSystem(s) \/ LoseSystemAnswer(s)
    BY <1>9, SystemLandKeeps, LandInviteKeeps, LandOthersKeeps, SystemServeKeeps, SystemRefuseKeeps
<1> QED BY <1>1, <1>2, <1>3, <1>4, <1>5, <1>6, <1>7, <1>8, <1>9 DEF SystemNext

\* What the runs check.
LEMMA SystemInvImplies ==
    ASSUME SystemInv
    PROVE  SystemLocksAreLive /\ ShownIsStored
<1>1. ASSUME NEW ops, NEW s \in Slots
      PROVE  s \in HeardOf(ops) <=> systemCalls[s].op \in ops /\ ~systemCalls[s].left
    BY DEF HeardOf, Waiting
<1>2. \A ops : HeardOf(ops) \subseteq Slots
    BY DEF HeardOf, Waiting
<1>3. LocksFit(systemCalls, systemView, checking) /\ SystemTypeInv
    BY DEF SystemInv
<1>4. SystemLocksAreLive
    <2>1. systemView.loading => HeardOf({"load", "again"}) # {}
        BY <1>1, <1>3 DEF LocksFit, IsViewLoader
    <2>2. Cardinality(HeardOf(SystemChanges)) = IF systemView.saving THEN 1 ELSE 0
        <3>1. PICK S : S = HeardOf(SystemChanges)
            OBVIOUS
        <3>2. S \subseteq Slots /\ \A s \in Slots : s \in S <=> IsSystemChange(systemCalls[s])
            BY <1>1, <1>2, <3>1 DEF IsSystemChange
        <3>3. PICK flag \in BOOLEAN : flag = systemView.saving
            BY <1>3 DEF SystemTypeInv
        <3>4. (flag <=> S # {}) /\ \A s, t \in S : s = t
            BY <1>3, <3>2, <3>3 DEF LocksFit
        <3>5. Cardinality(S) = IF flag THEN 1 ELSE 0
            BY <3>4, OneIfFlag
        <3> QED BY <3>1, <3>3, <3>5
    <2>3. Cardinality(HeardOf({"csv"})) = IF systemView.exporting THEN 1 ELSE 0
        <3>1. PICK S : S = HeardOf({"csv"})
            OBVIOUS
        <3>2. S \subseteq Slots /\ \A s \in Slots : s \in S <=> IsExport(systemCalls[s])
            BY <1>1, <1>2, <3>1 DEF IsExport
        <3>3. PICK flag \in BOOLEAN : flag = systemView.exporting
            BY <1>3 DEF SystemTypeInv
        <3>4. (flag <=> S # {}) /\ \A s, t \in S : s = t
            BY <1>3, <3>2, <3>3 DEF LocksFit
        <3>5. Cardinality(S) = IF flag THEN 1 ELSE 0
            BY <3>4, OneIfFlag
        <3> QED BY <3>1, <3>3, <3>5
    <2>4. ASSUME checking
          PROVE  HeardOf({"health"}) # {} /\ mounted.tab \in HealthTabs
        <3>1. PICK s \in Slots : IsCheck(systemCalls[s])
            BY <1>3, <2>4 DEF LocksFit
        <3>2. s \in HeardOf({"health"})
            BY <1>1, <3>1 DEF IsCheck
        <3>3. IsOfTab(systemCalls[s], mounted)
            BY <3>1, LockedNow DEF IsCheck
        <3> QED BY <3>1, <3>2, <3>3 DEF IsCheck, IsOfTab
    <2> QED BY <2>1, <2>2, <2>3, <2>4 DEF SystemLocksAreLive
<1>5. ShownIsStored
    <2>1. SUFFICES ASSUME viewSure, HeardOf(Disturbers) = {}
                   PROVE  systemView.shown = Stored(mounted.tab, mounted.part)
        BY DEF ShownIsStored
    <2>2. \A s \in Slots : ~Disturbs(systemCalls[s])
        BY <1>1, <2>1, LockedNow DEF Disturbs
    <2> QED BY <2>1, <2>2 DEF SystemInv, SystemSureInv
<1> QED BY <1>4, <1>5

\* Only the save of the form changes the policy.
LEMMA ShorteningStep ==
    ASSUME SystemInv, [SystemNext]_systemVars, depot'.policy # depot.policy
    PROVE  \E s \in Slots :
              /\ systemCalls[s].op = "save" /\ systemCalls[s] # systemCalls'[s]
              /\ \/ systemCalls[s].confirmed \/ ~systemCalls[s].sure \/ ~systemCalls[s].alone
                 \/ ~(depot'.policy.retention < depot.policy.retention)
<1>1. DOMAIN depot = {"policy", "invites", "incidents"}
    BY DEF SystemInv, SystemTypeInv
<1>2. ASSUME NEW i \in Incidents, IncidentRecurs(i)
      PROVE  depot'.policy = depot.policy
    BY <1>1, <1>2 DEF IncidentRecurs
<1>3. \E s \in Slots : ServeSystem(s)
    <2>1. depot' = depot \/ (\E i \in Incidents : IncidentRecurs(i)) \/ \E s \in Slots : ServeSystem(s)
        <3>1. CASE UNCHANGED systemVars
            BY <3>1 DEF systemVars
        <3>2. CASE SystemNext
            BY <3>2 DEF SystemNext, MountTab, TurnPart, Reload, CloseDialog, RetryIncidents, Recheck, RetryCheck, ExportTrends,
                        OpenDialog, EditPolicy, CreateInvite, DeleteInvite, SaveIncident, SubmitPolicy, AskRetention,
                        ConfirmRetention, SavePolicy, ChangeSystem, Unchanged, LandSystem, LandRetry, LandInvite,
                        LandSave, LandIncident, LandHealth, LandExport, RefuseSystem, LoseSystemAnswer
        <3> QED BY <3>1, <3>2
    <2> QED BY <1>2, <2>1
<1>4. PICK s \in Slots : ServeSystem(s)
    BY <1>3
<1>5. PICK call : call = systemCalls[s]
    OBVIOUS
<1>6. ASSUME NEW invites, depot' = With([invites |-> invites], depot)
      PROVE  depot'.policy = depot.policy
    <2>1. PICK own : own = [invites |-> invites]
        OBVIOUS
    <2>2. DOMAIN own = {"invites"} /\ depot' = With(own, depot)
        BY <1>6, <2>1
    <2> QED BY <1>1, <2>2 DEF With
<1>7. ASSUME NEW rows, depot' = With([incidents |-> rows], depot)
      PROVE  depot'.policy = depot.policy
    <2>1. PICK own : own = [incidents |-> rows]
        OBVIOUS
    <2>2. DOMAIN own = {"incidents"} /\ depot' = With(own, depot)
        BY <1>7, <2>1
    <2> QED BY <1>1, <2>2 DEF With
<1>8. /\ call.op = "save" /\ AnswerSystem(s, Ok(call.policy)) /\ depot' = With([policy |-> call.policy], depot)
    BY <1>4, <1>5, <1>6, <1>7 DEF ServeSystem
<1>9. depot'.policy = call.policy
    <2>1. PICK own : own = [policy |-> call.policy]
        OBVIOUS
    <2>2. DOMAIN own = {"policy"} /\ own.policy = call.policy /\ depot' = With(own, depot)
        BY <1>8, <2>1
    <2> QED BY <1>1, <2>2 DEF With
<1>10. call.answer = Unanswered /\ systemCalls'[s] # call
    <2>1. /\ call.answer = Unanswered
          /\ systemCalls' = [systemCalls EXCEPT ![s].answer = Ok(call.policy)]
        BY <1>5, <1>8 DEF AnswerSystem
    <2>2. SystemCallOK(call)
        BY <1>5, LockedNow
    <2>3. systemCalls'[s].answer = Ok(call.policy)
        BY <1>5, <1>8, <2>1, <2>2, LockedNow DEF SystemCallOK, IsCall
    <2>4. Ok(call.policy) # Unanswered
        BY DEF Ok, Unanswered
    <2> QED BY <2>1, <2>3, <2>4
<1>11. BringsStored(call) /\ Disturbs(call)
    BY <1>5, <1>8, CallKinds DEF SystemInv, SystemSureInv, SystemChanges
<1>12. \/ call.confirmed \/ ~call.sure \/ ~call.alone
       \/ ~(depot'.policy.retention < depot.policy.retention)
    BY <1>8, <1>9, <1>10, <1>11 DEF BringsStored
<1> QED BY <1>5, <1>8, <1>10, <1>12

=============================================================================
