--------------------------- MODULE MCConsolePages ---------------------------
(***************************************************************************)
(* The pages of the console that share nothing but its client of the API,  *)
(* each with a backend of its own, and the clock arithmetic of the         *)
(* reminders: a behaviour is one of them, and the others stay as they were *)
(* opened.                                                                 *)
(***************************************************************************)
EXTENDS ClockWindows, ConsoleSession, PileBoard, AdminUsers, AdminSystem, AnnouncementDesk,
        AnnouncementRevisions, DeviceHistory

VARIABLE part  \* the part of this behaviour

pagesVars == <<part, clockVars, consoleVars, boardVars, usersVars, systemVars, deskVars,
             revisionVars, historyVars>>

\* A pile that is added elsewhere becomes the first of the list.
LastPile == {p \in BoardPiles : Rank[p] = Cardinality(BoardPiles)}

\* One of the initial states of every other part is enough.
MCInit ==
    /\ part \in {"clock", "session", "board", "users", "system", "desk", "revisions", "history"}
    /\ duration \in Durations /\ (part # "clock" => duration = CHOOSE d \in Durations : TRUE)
    /\ interval \in Intervals /\ (part # "clock" => interval = CHOOSE i \in Intervals : TRUE)
    /\ startMinute \in 0..(Day - 1) /\ (part # "clock" => startMinute = 0)
    /\ endMinute \in 0..(Day - 1) /\ (part # "clock" => endMinute = 0)
    /\ ClockInit
    /\ ConsoleInit /\ (route \in FormRoutes <=> sessions = <<>>) /\ (strict => route = "login")
       /\ (part # "session" => route = "login" /\ ~strict)
    /\ BoardInit /\ DOMAIN pileTable \subseteq LastPile /\ (part # "board" => pileTable = <<>>)
    /\ UsersInit
    /\ SystemInit /\ (part # "system" => mounted.tab = "overview")
    /\ DeskInit /\ (at = None => \A p \in Posts : posts[p] # None => posts[p].status = "draft")
       /\ (part # "desk" => at = None)
    /\ RevisionsInit /\ (part # "revisions" => revisionCount = PerPage)
    /\ HistoryInit /\ (part # "history" => selectedPort = None /\ historyRange = CHOOSE r \in Ranges : TRUE)

MCNext ==
    \/ /\ part = "clock" /\ MinutePasses
       /\ UNCHANGED <<part, consoleVars, boardVars, usersVars, systemVars, deskVars, revisionVars, historyVars>>
    \/ /\ part = "session" /\ ConsoleNext
       /\ UNCHANGED <<part, clockVars, boardVars, usersVars, systemVars, deskVars, revisionVars, historyVars>>
    \/ /\ part = "board" /\ BoardNext
       /\ UNCHANGED <<part, clockVars, consoleVars, usersVars, systemVars, deskVars, revisionVars, historyVars>>
    \/ /\ part = "users" /\ UsersNext
       /\ UNCHANGED <<part, clockVars, consoleVars, boardVars, systemVars, deskVars, revisionVars, historyVars>>
    \/ /\ part = "system" /\ SystemNext
       /\ UNCHANGED <<part, clockVars, consoleVars, boardVars, usersVars, deskVars, revisionVars, historyVars>>
    \/ /\ part = "desk" /\ DeskNext
       /\ UNCHANGED <<part, clockVars, consoleVars, boardVars, usersVars, systemVars,
                      revisionVars, historyVars>>
    \/ /\ part = "revisions" /\ RevisionsNext
       /\ UNCHANGED <<part, clockVars, consoleVars, boardVars, usersVars, systemVars, deskVars, historyVars>>
    \/ /\ part = "history" /\ HistoryNext
       /\ UNCHANGED <<part, clockVars, consoleVars, boardVars, usersVars, systemVars, deskVars, revisionVars>>

MCSpec == MCInit /\ [][MCNext]_pagesVars

-----------------------------------------------------------------------------
\* The number of checks the console promises for a reminder of some length and for one of a
\* daily window is the number a clock counts (watch-format.ts:79-103).
EstimatesAreExact == part = "clock" => TemporaryEstimateIsExact /\ RecurringEstimateIsExact

\* No button of the console stays locked and no tab spins without the request that frees it,
\* and what must not overlap waits for one another, also when the dialog was put aside or the
\* address changed (dashboard-workbench.tsx:160-205, admin-users-page.tsx:342-411,
\* admin-system-pages.tsx:46-86, 629-657, admin-announcements.tsx:123-173).
ConsoleLocksAreLive ==
    /\ part = "board" => BoardLocksAreLive
    /\ part = "users" => OneChangeOfUser
    /\ part = "system" => SystemLocksAreLive
    /\ part = "desk" => OneDeskChange

\* Whoever is shown as signed in is, the image he is asked about was never tried, and the
\* stream of states is open beside his page only, whatever answers of an earlier page or
\* session are still on their way, and each route mounts its own components
\* (auth-context.tsx:57-140, auth-form.tsx:66-184, dashboard-session.tsx:44-105,
\* account-workbench.tsx:77-102).
SessionIsCurrent ==
    part = "session" =>
        ConsoleTypeOK /\ FreshChallenge /\ StreamIsOfMountedPage /\ ShownUserIsSignedIn

\* The piles on the page are the backend's while the stream is open and in step, and are
\* marked as last read where they are not; the stamp is that of the snapshot that is shown
\* and an open dialog is that of its pile (dashboard-context.tsx:98-136, 231-264,
\* dashboard-workbench.tsx:122-128, 425-480, 549).
BoardIsCurrent == part = "board" => BoardTypeOK /\ ConnectedIsCurrent /\ BehindIsMarked

\* The page never goes back to data of an earlier millisecond, and a change that ends well is
\* shown or a frame with it is on its way, but for a removal whose last read failed on a page
\* that is marked as old (dashboard-context.tsx:98-136, 156-185,
\* dashboard-workbench.tsx:615-651).
SnapshotsOnlyAdvance == NeverOlder /\ ChangesAreShown

\* What is on the page belongs to what is selected there now, whichever answers of an
\* earlier address, page, range or user are still to come: the list of users and the
\* password that was reset, the form of an announcement, its revisions, the history of a
\* port (admin-users-page.tsx:92-124, 375-387, admin-announcements.tsx:90-101,
\* announcement-revisions.tsx:15-31, device-history-sheet.tsx:503-566).
AnswersAreOfSelection ==
    /\ part = "users" => ListIsOfAddress /\ TemporaryIsValid
    /\ part = "desk" => FormIsOfAddress
    /\ part = "revisions" => RevisionsAreOfPage
    /\ part = "history" => HistoryIsOfSelection

\* What an administrator is shown is stored, after his own changes too, as long as no other
\* change overtook the load, and he never loses his own rights by it
\* (admin-users-page.tsx:306-380, 475-556, admin-system-pages.tsx:46-86, 366-372, 630-651,
\* admin-announcements.tsx:73-165).
ShownIsCurrent ==
    /\ part = "users" => RecordIsCurrent /\ SelfIsKept
    /\ part = "system" => ShownIsStored
    /\ part = "desk" => DeskIsCurrent

\* An administrator changes what he saw: no announcement another one edited meanwhile, and
\* no shorter retention that he did not confirm, unless his page had nothing newer to
\* compare with (admin-announcements.tsx:132-157, announcements.go:44-46,
\* admin-system-pages.tsx:378-409).
WritesAreInformed == ShorteningIsConfirmed /\ ChangesWhatWasShown
=============================================================================
