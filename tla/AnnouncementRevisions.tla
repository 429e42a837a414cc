------------------------ MODULE AnnouncementRevisions ------------------------
(***************************************************************************)
(* The revisions of an announcement below its form: pages of the stored    *)
(* versions, the newest first, while another administrator saves further   *)
(* versions.  The backend counts the versions before it reads the page.    *)
(***************************************************************************)
EXTENDS HttpCalls

CONSTANTS
    PerPage,        \* revisions on a page
    RevisionSteps   \* bound: requests of the administrator, and saves elsewhere

ASSUME RevisionAssumption ==
    /\ PerPage \in Nat \ {0} /\ RevisionSteps \in Nat
    /\ None \notin Nat /\ None \notin [page : Nat, total : Nat, items : SUBSET Nat]

VARIABLES
    revisionCount,   \* the backend: versions 1..revisionCount are stored, none of a deleted draft
    revisionPage,    \* page, None while the details are folded up
    revisionData,    \* data: None or [page, total, items], the page is a ghost
    revisionError,
    revisionCalls, revisionSteps

revisionVars == <<revisionCount, revisionPage, revisionData, revisionError, revisionCalls, revisionSteps>>

\* A few more than a page is stored.
RevisionsInit ==
    /\ revisionCount \in {PerPage, PerPage + 1} /\ revisionPage = None
    /\ revisionData = None /\ revisionError = FALSE
    /\ revisionCalls = NoCalls /\ revisionSteps = 0

RevisionStep == revisionSteps < RevisionSteps /\ revisionSteps' = revisionSteps + 1

\* faulty: the load of the page before is heard too
NeverAborts(calls) == calls

\* The cleanup of the effect: nobody listens to the load before.
AbortsOlder(calls) ==
    [s \in Slots |-> IF calls[s].op = "idle" THEN calls[s] ELSE [calls[s] EXCEPT !.heard = FALSE]]

\* The effect, for a page.
ReadRevisions(page) ==
    LET older == AbortsOlder(revisionCalls) IN
    /\ RevisionStep /\ Free(older) # {}
    /\ revisionPage' = page
    /\ revisionCalls' = Begin(older, [op |-> "revisions", page |-> page, total |-> None,
                                      heard |-> TRUE, answer |-> Unanswered])
    /\ UNCHANGED revisionCount

\* The details are opened, or the announcement was loaded with another version: either
\* mounts the list anew.
MountRevisions ==
    ReadRevisions(1) /\ revisionData' = None /\ revisionError' = FALSE

FoldRevisions ==
    /\ revisionPage # None /\ revisionPage' = None
    /\ revisionData' = None /\ revisionError' = FALSE
    /\ revisionCalls' = AbortsOlder(revisionCalls)
    /\ UNCHANGED <<revisionCount, revisionSteps>>

OffersNewer == revisionPage # None /\ revisionPage # 1

\* By the total that was read last.
OffersOlder == revisionData # None /\ revisionPage * PerPage < revisionData.total

NewerRevisions ==
    OffersNewer /\ ReadRevisions(revisionPage - 1) /\ UNCHANGED <<revisionData, revisionError>>

OlderRevisions ==
    OffersOlder /\ ReadRevisions(revisionPage + 1) /\ UNCHANGED <<revisionData, revisionError>>

RetryRevisions ==
    revisionError /\ ReadRevisions(revisionPage) /\ UNCHANGED <<revisionData, revisionError>>

\* A failed load keeps the page that was shown, below its message.
LandRevisions(s) ==
    LET call == revisionCalls[s] IN
    /\ call.op = "revisions" /\ call.answer # Unanswered
    /\ IF call.heard
       THEN /\ revisionError' = ~Succeeds(call)
            /\ revisionData' = IF Succeeds(call) THEN call.answer.body ELSE revisionData
       ELSE UNCHANGED <<revisionData, revisionError>>
    /\ revisionCalls' = End(revisionCalls, s)
    /\ UNCHANGED <<revisionCount, revisionPage, revisionSteps>>

-----------------------------------------------------------------------------
(* The backend *)

\* The versions of a page, the newest first.
RevisionsOn(page) ==
    {v \in 1..revisionCount : (page - 1) * PerPage <= revisionCount - v /\ revisionCount - v < page * PerPage}

TellRevisions(s, call) ==
    /\ revisionCalls' = [revisionCalls EXCEPT ![s] = call]
    /\ UNCHANGED <<revisionCount, revisionPage, revisionData, revisionError, revisionSteps>>

ReadsRevisions(s) == revisionCalls[s].op = "revisions" /\ revisionCalls[s].answer = Unanswered

CountRevisions(s) ==
    /\ ReadsRevisions(s) /\ revisionCalls[s].total = None
    /\ TellRevisions(s, [revisionCalls[s] EXCEPT !.total = revisionCount])

QueryRevisions(s) ==
    LET call == revisionCalls[s] IN
    /\ ReadsRevisions(s) /\ call.total # None
    /\ TellRevisions(s, [call EXCEPT !.answer =
           Ok([page |-> call.page, total |-> call.total, items |-> RevisionsOn(call.page)])])

LoseRevisions(s) ==
    /\ ReadsRevisions(s) /\ TellRevisions(s, [revisionCalls[s] EXCEPT !.answer = Lost])

\* Another administrator saves the announcement.
SaveRevision ==
    /\ revisionCount # 0 /\ RevisionStep /\ revisionCount' = revisionCount + 1
    /\ UNCHANGED <<revisionPage, revisionData, revisionError, revisionCalls>>

\* Or deletes it, while it is a draft: its revisions go with it.
DeleteDraft ==
    /\ revisionCount # 0 /\ RevisionStep /\ revisionCount' = 0
    /\ UNCHANGED <<revisionPage, revisionData, revisionError, revisionCalls>>

-----------------------------------------------------------------------------
RevisionsNext ==
    \/ MountRevisions \/ FoldRevisions \/ NewerRevisions \/ OlderRevisions \/ RetryRevisions
    \/ SaveRevision \/ DeleteDraft
    \/ \E s \in Slots : CountRevisions(s) \/ QueryRevisions(s) \/ LoseRevisions(s) \/ LandRevisions(s)

RevisionsSpec == RevisionsInit /\ [][RevisionsNext]_revisionVars

-----------------------------------------------------------------------------
HeardRevisions == {s \in Waiting(revisionCalls, {"revisions"}) : revisionCalls[s].heard}

\* One load at most is listened to, and it is that of the page; once it has ended without an
\* error the page is shown, and holds revisions of what is not deleted, however many
\* versions were saved while it was turned to (announcement-revisions.tsx:15-31, 53-66).
RevisionsAreOfPage ==
    /\ Cardinality(HeardRevisions) <= 1
    /\ \A s \in HeardRevisions : revisionCalls[s].page = revisionPage
    /\ revisionPage # None /\ ~revisionError /\ HeardRevisions = {} =>
          /\ revisionData # None /\ revisionData.page = revisionPage
          /\ revisionData.items # {} \/ revisionCount = 0
=============================================================================
