-------------------------- MODULE NotificationInbox --------------------------
(***************************************************************************)
(* The notification inbox of the web console: NotificationProvider keeps   *)
(* the loaded list, the unread badge and the cursor beside an event stream *)
(* that changes them too; NotificationsPage shows them.  The notifications *)
(* of the backend are a table ordered by their last occurrence.            *)
(***************************************************************************)
EXTENDS HttpCalls, SequencesExt

CONSTANTS Notices,    \* notifications of the account
          Issues,     \* those of a type that requires action
          Filters,    \* filters of the page that are used
          PageSize,   \* rows of one page
          QueueMax,   \* events the subscriber's channel holds
          Repeats,    \* bound: occurrences merged into one notification
          InboxSteps  \* bound: requests of the page and changes around it

ASSUME InboxAssumption ==
    /\ Issues \subseteq Notices
    /\ Filters \subseteq {"all", "unread", "pending", "resolved"}
    /\ "all" \in Filters
    /\ InboxSteps \in Nat /\ None \notin Slots
    /\ PageSize \in Nat \ {0} /\ QueueMax \in Nat \ {0} /\ Repeats \in Nat \ {0}

VARIABLES
    feed,      \* the table: notifications, the latest occurrence first
    notice,    \* a row: read, resolved, occurrences
    gone,      \* notifications that were deleted
    events,    \* published copies on their way to the page
    streamOn,  \* the EventSource is open
    items,     \* the list of the provider: copies by notification
    badge,     \* unreadCount
    cursor,    \* nextCursor
    filter,    \* the status of the page's URL and of the last load
    newest,    \* the slot of the last load, the owner of requestVersionRef
    loading, loadingMore, loaded, loadError,
    known,     \* notificationUnreadStateRef
    streamed,  \* streamedNotificationVersionsRef
    opened,    \* the notification whose detail is open
    clearing,  \* the page waits for readAll or clear
    inboxCalls,
    inboxSteps,  \* those that happened
    calm       \* ghost: nothing overlapped a call since the last clean load

inboxVars == <<feed, notice, gone, events, streamOn, items, badge, cursor, filter,
               newest, loading, loadingMore, loaded, loadError, known, streamed,
               opened, clearing, inboxCalls, inboxSteps, calm>>

table == <<feed, notice, gone>>
view == <<filter, newest, loading, loadingMore, loaded, loadError>>
page == <<opened, clearing>>

-----------------------------------------------------------------------------
(* The backend's list *)

Matches(f, n, copy) ==
    \/ f = "all"
    \/ f = "unread" /\ ~copy.read
    \/ f = "pending" /\ n \in Issues /\ ~copy.resolved
    \/ f = "resolved" /\ n \in Issues /\ copy.resolved

UnreadRows == Cardinality({n \in ToSet(feed) : ~notice[n].read})

RowsAfter(c) == IF c = None THEN feed
            ELSE SubSeq(feed, 1 + CHOOSE i \in DOMAIN feed : feed[i] = c, Len(feed))

\* A page holds the rows after the cursor that match; it has a next cursor when
\* one more row was found.
PageOf(f, c) ==
    LET found == SelectSeq(RowsAfter(c), LAMBDA n : Matches(f, n, notice[n]))
        shown == IF Len(found) <= PageSize THEN found ELSE SubSeq(found, 1, PageSize)
    IN [rows |-> [n \in ToSet(shown) |-> notice[n]],
        next |-> IF Len(found) > PageSize THEN Last(shown) ELSE None,
        unread |-> UnreadRows]

InboxQuery(call) ==
    IF call.after # None /\ call.after \notin ToSet(feed) THEN Lost
    ELSE Ok(PageOf(call.status, call.after))

-----------------------------------------------------------------------------
InboxInit ==
    /\ \E rows \in SUBSET Notices : feed \in SetToSeqs(rows)
    /\ \E seen \in SUBSET ToSet(feed) :
          notice = [n \in Notices |-> [read |-> n \in seen, resolved |-> FALSE, times |-> 1]]
    /\ gone = {}
    /\ events = <<>> /\ streamOn = TRUE
    /\ items = <<>> /\ badge = 0 /\ cursor = None /\ filter = "all"
    /\ newest = None /\ loading = FALSE /\ loadingMore = FALSE
    /\ loaded = FALSE /\ loadError = FALSE
    /\ known = <<>> /\ streamed = <<>>
    /\ opened = None /\ clearing = FALSE
    /\ inboxCalls = NoCalls /\ inboxSteps = 0
    /\ calm = FALSE

\* Ghost: another step overlaps every call that waits.
Overlapped(calls) == [s \in Slots |-> IF calls[s].op = "idle" THEN NoCall
                                      ELSE [calls[s] EXCEPT !.alone = FALSE]]

Happens == inboxSteps < InboxSteps /\ inboxSteps' = inboxSteps + 1

\* A handler sends its request.
Send(calls, call) ==
    /\ Happens
    /\ Free(calls) # {}
    /\ inboxCalls' = Begin(calls, call)

FinishRead(s) == inboxCalls' = End(inboxCalls, s) /\ UNCHANGED inboxSteps

Stay == UNCHANGED <<inboxCalls, inboxSteps>>

Quiet == Busy(inboxCalls) = {} /\ events = <<>>

-----------------------------------------------------------------------------
(* The backend stores, repeats and resolves notifications and publishes them *)

Publish(n, missed) ==
    /\ events' = IF streamOn /\ Len(events) < QueueMax
                 THEN Append(events, [id |-> n, copy |-> notice'[n]]) ELSE events
    /\ calm' = (calm /\ Busy(inboxCalls) = {} /\ streamOn /\ Len(events) < QueueMax /\ ~missed)
    /\ inboxCalls' = Overlapped(inboxCalls) /\ Happens
    /\ UNCHANGED <<gone, streamOn, items, badge, cursor, view, known, streamed, page>>

NewNotice(n) ==
    /\ n \notin ToSet(feed) \cup gone
    /\ feed' = <<n>> \o feed
    /\ UNCHANGED notice
    /\ Publish(n, FALSE)

\* The same issue again: its row is unread and the first of the list.  Ghost: a
\* page that never saw the row cannot tell that it was read before.
RepeatNotice(n) ==
    /\ n \in ToSet(feed) \cap Issues
    /\ ~notice[n].resolved /\ notice[n].times < Repeats
    /\ notice' = [notice EXCEPT ![n].times = @ + 1, ![n].read = FALSE]
    /\ feed' = <<n>> \o SelectSeq(feed, LAMBDA m : m # n)
    /\ Publish(n, notice[n].read /\ n \notin DOMAIN known)

\* The issue is over.  Ghost: a page that never saw the unread row counts it as new.
ResolveNotice(n) ==
    /\ n \in ToSet(feed) \cap Issues /\ ~notice[n].resolved
    /\ notice' = [notice EXCEPT ![n].resolved = TRUE]
    /\ UNCHANGED feed
    /\ Publish(n, ~notice[n].read /\ notice[n].times = 1 /\ n \notin DOMAIN known)

-----------------------------------------------------------------------------
(* Loading *)

\* Ghost: loads that were overtaken disturb nobody.
Undisturbed(calls) ==
    /\ events = <<>>
    /\ Busy(calls) = Waiting(calls, {"load"})

StartLoad(f, then, calls) ==
    LET call == [op |-> "load", status |-> f, after |-> None, then |-> then,
                 answer |-> Unanswered, alone |-> Undisturbed(calls)]
    IN /\ Send(calls, call)
       /\ newest' = NextSlot(calls)
       /\ filter' = f /\ loading' = TRUE /\ loadError' = FALSE
       /\ calm' = (calm /\ Undisturbed(calls))

\* The effect of NotificationsPage loads on the first visit and when the status
\* in the URL changes; a retry loads the same status again.
VisitInbox(f) ==
    /\ f \in Filters /\ (f # filter \/ ~loaded \/ loadError)
    /\ StartLoad(f, "nothing", inboxCalls)
    /\ opened' = IF f # filter THEN None ELSE opened
    /\ UNCHANGED <<table, events, streamOn, items, badge, cursor, loadingMore, loaded,
                   known, streamed, clearing>>

\* The open listener of the stream reloads, but not within a second of a load.
ReopenStream ==
    /\ ~streamOn /\ streamOn' = TRUE
    /\ \/ loaded /\ StartLoad(filter, "nothing", inboxCalls)
       \/ Stay /\ UNCHANGED <<newest, filter, loading, loadError, calm>>
    /\ UNCHANGED <<table, events, items, badge, cursor, loadingMore, loaded, known,
                   streamed, page>>

BreakStream ==
    /\ streamOn /\ streamOn' = FALSE /\ Happens
    /\ events' = <<>> /\ calm' = (calm /\ events = <<>>)
    /\ UNCHANGED <<table, items, badge, cursor, view, known, streamed, page,
                   inboxCalls>>

\* faulty: the versions are not compared
NotCompared(s) == TRUE

\* version === requestVersionRef.current
Current(s) == newest = s

UnreadState(rows) == [n \in DOMAIN rows |-> ~rows[n].read]

LandLoad(s) ==
    LET call == inboxCalls[s] IN
    /\ call.op = "load" /\ s \in Answered(inboxCalls)
    /\ IF Current(s) /\ call.answer.kind = "ok"
       THEN /\ items' = call.answer.body.rows
            /\ known' = UnreadState(call.answer.body.rows)
            /\ badge' = call.answer.body.unread
            /\ cursor' = call.answer.body.next
            /\ loaded' = TRUE
            /\ calm' = (calm \/ call.alone)
       ELSE /\ calm' = (calm /\ ~Current(s))
            /\ UNCHANGED <<items, known, badge, cursor, loaded>>
    /\ loadError' = (loadError \/ (Current(s) /\ call.answer.kind # "ok"))
    /\ loading' = (loading /\ ~Current(s))
    /\ FinishRead(s)
    /\ clearing' = (clearing /\ call.then # "clear")
    /\ UNCHANGED <<table, events, streamOn, filter, newest, loadingMore, streamed, opened>>

LoadMore ==
    /\ cursor # None /\ ~loadingMore
    /\ Send(Overlapped(inboxCalls), [op |-> "more", status |-> filter, after |-> cursor,
                                     answer |-> Unanswered, alone |-> FALSE])
    /\ loadingMore' = TRUE /\ loadError' = FALSE
    /\ calm' = (calm /\ Quiet)
    /\ UNCHANGED <<table, events, streamOn, items, badge, cursor, filter, newest,
                   loading, loaded, known, streamed, page>>

LandMore(s) ==
    LET call == inboxCalls[s] IN
    /\ call.op = "more" /\ s \in Answered(inboxCalls)
    /\ IF call.answer.kind = "ok"
       THEN /\ items' = call.answer.body.rows @@ items
            /\ known' = UnreadState(call.answer.body.rows) @@ known
            /\ badge' = call.answer.body.unread
            /\ cursor' = call.answer.body.next
            /\ UNCHANGED <<loadError, calm>>
       ELSE /\ loadError' = TRUE /\ calm' = FALSE
            /\ UNCHANGED <<items, known, badge, cursor>>
    /\ loadingMore' = FALSE
    /\ FinishRead(s)
    /\ UNCHANGED <<table, events, streamOn, filter, newest, loading, loaded, streamed, page>>

-----------------------------------------------------------------------------
(* Reading and clearing *)

\* The notices the page lists, and what its body shows: the detail keeps the copy
\* that was clicked when the list drops it.
Listed == {n \in DOMAIN items : Matches(filter, n, items[n])}

InboxBody ==
    CASE opened # None -> "detail"
      [] loading /\ ~loaded -> "loading"
      [] loadError /\ DOMAIN items = {} -> "failed"
      [] Listed = {} -> IF loading THEN "filtering" ELSE "empty"
      [] OTHER -> "list"

\* The rows: buttons that open their notice, read or not.
InboxRows == IF InboxBody = "list" THEN Listed ELSE {}

\* Opening a notice marks it read; the closure holds the list it was clicked in.
OpenNotice(n) ==
    /\ n \in InboxRows
    /\ opened' = n
    /\ IF items[n].read
       THEN Stay /\ UNCHANGED calm
       ELSE /\ Send(Overlapped(inboxCalls), [op |-> "read", id |-> n, alone |-> FALSE,
                                             answer |-> Unanswered])
            /\ calm' = (calm /\ Quiet)
    /\ UNCHANGED <<table, events, streamOn, items, badge, cursor, view, known, streamed, clearing>>

BackToList ==
    /\ opened # None /\ opened' = None
    /\ UNCHANGED <<table, events, streamOn, items, badge, cursor, view, known, streamed,
                   clearing, calm>>
    /\ Stay

\* faulty: Math.max is left out
LessUnclamped(count) == count - 1

Less(count) == IF count = 0 THEN 0 ELSE count - 1

\* faulty: the badge stays as it was
BadgeKept == badge

\* Only a notice that was unread in the list of the click sends the call, so its
\* answer always takes one off the badge, and two calls for one notice take two.
BadgeAfterRead == Less(badge)

LandRead(s) ==
    LET call == inboxCalls[s] IN
    /\ call.op = "read" /\ s \in Answered(inboxCalls)
    /\ IF call.answer.kind = "ok"
       THEN /\ items' = IF filter = "unread" THEN [n \in DOMAIN items \ {call.id} |-> items[n]]
                        ELSE [n \in DOMAIN items |->
                                 IF n = call.id THEN call.answer.body ELSE items[n]]
            /\ known' = (call.id :> FALSE) @@ known
            /\ badge' = BadgeAfterRead
            /\ UNCHANGED calm
       ELSE calm' = FALSE /\ UNCHANGED <<items, known, badge>>
    /\ FinishRead(s)
    /\ UNCHANGED <<table, events, streamOn, cursor, view, streamed, page>>

\* faulty: the known states keep their unread marks
KnownAfterReadAll == known

KnownRead == [n \in DOMAIN known |-> FALSE]

\* The two actions of the page's header.
HeaderCall(op) ==
    /\ ~clearing /\ clearing' = TRUE
    /\ Send(Overlapped(inboxCalls), [op |-> op, answer |-> Unanswered, alone |-> FALSE])
    /\ calm' = (calm /\ Quiet)
    /\ UNCHANGED <<table, events, streamOn, items, badge, cursor, view, known, streamed, opened>>

ReadAll == badge > 0 /\ HeaderCall("readAll")

ClearResolved == HeaderCall("clear")

LandReadAll(s) ==
    LET call == inboxCalls[s] IN
    /\ call.op = "readAll" /\ s \in Answered(inboxCalls)
    /\ IF call.answer.kind = "ok"
       THEN /\ items' = IF filter = "unread" THEN <<>>
                        ELSE [n \in DOMAIN items |-> [items[n] EXCEPT !.read = TRUE]]
            /\ known' = KnownRead
            /\ badge' = 0
            /\ UNCHANGED calm
       ELSE calm' = FALSE /\ UNCHANGED <<items, known, badge>>
    /\ clearing' = FALSE
    /\ FinishRead(s)
    /\ UNCHANGED <<table, events, streamOn, cursor, view, streamed, opened>>

\* clearResolved loads the list again and the page waits for that too.
LandClear(s) ==
    LET call == inboxCalls[s] IN
    /\ call.op = "clear" /\ s \in Answered(inboxCalls)
    /\ IF call.answer.kind = "ok"
       THEN StartLoad(filter, "clear", End(inboxCalls, s)) /\ UNCHANGED clearing
       ELSE /\ clearing' = FALSE /\ calm' = FALSE
            /\ FinishRead(s)
            /\ UNCHANGED <<filter, newest, loading, loadError>>
    /\ UNCHANGED <<table, events, streamOn, items, badge, cursor, loadingMore, loaded,
                   known, streamed, opened>>

-----------------------------------------------------------------------------
(* The backend answers *)

Answer(s, answer) ==
    inboxCalls' = [inboxCalls EXCEPT ![s].answer = answer] /\ UNCHANGED inboxSteps

ServeInbox(s) ==
    LET call == inboxCalls[s] IN
    /\ s \in Busy(inboxCalls) \ Answered(inboxCalls)
    /\ \/ /\ call.op \in {"load", "more"}
          /\ Answer(s, InboxQuery(call))
          /\ UNCHANGED table
       \/ /\ call.op = "read" /\ call.id \in ToSet(feed)
          /\ notice' = [notice EXCEPT ![call.id].read = TRUE]
          /\ Answer(s, Ok(notice'[call.id]))
          /\ UNCHANGED <<feed, gone>>
       \/ /\ call.op = "readAll"
          /\ notice' = [n \in Notices |->
                           IF n \in ToSet(feed) THEN [notice[n] EXCEPT !.read = TRUE]
                           ELSE notice[n]]
          /\ Answer(s, Ok(None))
          /\ UNCHANGED <<feed, gone>>
       \/ /\ call.op = "clear"
          /\ feed' = SelectSeq(feed, LAMBDA n : ~notice[n].resolved)
          /\ gone' = gone \cup {n \in ToSet(feed) : notice[n].resolved}
          /\ Answer(s, Ok(None))
          /\ UNCHANGED notice
    /\ UNCHANGED <<events, streamOn, items, badge, cursor, view, known, streamed, page, calm>>

\* The page treats a refusal like a lost answer.
LoseInboxAnswer(s) ==
    /\ s \in Busy(inboxCalls) /\ inboxCalls[s].answer # Lost
    /\ inboxCalls' = LoseAnswer(inboxCalls, s) /\ UNCHANGED inboxSteps
    /\ UNCHANGED <<table, events, streamOn, items, badge, cursor, view, known, streamed, page, calm>>

-----------------------------------------------------------------------------
(* The stream *)

\* faulty: a repetition keeps the version
VersionOfMarks(copy) == <<copy.read, copy.resolved>>

\* lastOccurredAt, readAt and resolvedAt: a repetition moves the first.
Version(copy) == copy

\* faulty: a repetition is taken for a new notice
CountOfEveryUnread(n, copy) == IF ~copy.read THEN badge + 1 ELSE badge

\* A notice that turns unread counts one more, one that turns read one less; of a
\* notice this page has not seen only the first occurrence counts.
CountOf(n, copy) ==
    CASE ~copy.read /\ n \in DOMAIN known /\ ~known[n] -> badge + 1
      [] copy.read /\ n \in DOMAIN known /\ known[n] -> Less(badge)
      [] ~copy.read /\ n \notin DOMAIN known /\ copy.times = 1 -> badge + 1
      [] OTHER -> badge

ReceiveNotice ==
    /\ events # <<>>
    /\ LET n == Head(events).id
           copy == Head(events).copy
           fresh == n \notin DOMAIN streamed \/ streamed[n] # Version(copy)
       IN IF fresh
          THEN /\ streamed' = (n :> Version(copy)) @@ streamed
               /\ badge' = CountOf(n, copy)
               /\ known' = (n :> ~copy.read) @@ known
               /\ items' = IF Matches(filter, n, copy)
                           THEN (n :> copy) @@ items
                           ELSE [m \in DOMAIN items \ {n} |-> items[m]]
          ELSE UNCHANGED <<streamed, badge, known, items>>
    /\ events' = Tail(events)
    /\ calm' = (calm /\ Busy(inboxCalls) = {})
    /\ inboxCalls' = Overlapped(inboxCalls) /\ UNCHANGED inboxSteps
    /\ UNCHANGED <<table, streamOn, cursor, view, page>>

-----------------------------------------------------------------------------
InboxNext ==
    \/ \E n \in Notices : NewNotice(n) \/ RepeatNotice(n) \/ ResolveNotice(n) \/ OpenNotice(n)
    \/ \E f \in Filters : VisitInbox(f)
    \/ BreakStream \/ ReopenStream \/ ReceiveNotice
    \/ LoadMore \/ ReadAll \/ ClearResolved \/ BackToList
    \/ \E s \in Slots : \/ LandLoad(s) \/ LandMore(s) \/ LandRead(s)
                        \/ LandReadAll(s) \/ LandClear(s)
                        \/ ServeInbox(s) \/ LoseInboxAnswer(s)

InboxSpec == InboxInit /\ [][InboxNext]_inboxVars

-----------------------------------------------------------------------------
Copies == [read : BOOLEAN, resolved : BOOLEAN, times : 1..Repeats]

\* The shape of the inbox's state (notification-context.tsx:68-87).
InboxTypeOK ==
    /\ ToSet(feed) \subseteq Notices /\ gone \subseteq Notices \ ToSet(feed)
    /\ notice \in [Notices -> Copies]
    /\ Len(events) <= QueueMax /\ badge \in Nat
    /\ DOMAIN items \subseteq Notices /\ \A n \in DOMAIN items : items[n] \in Copies
    /\ DOMAIN known \subseteq Notices /\ DOMAIN streamed \subseteq Notices
    /\ cursor \in Notices \cup {None} /\ opened \in Notices \cup {None}
    /\ filter \in Filters /\ newest \in Slots \cup {None}
    /\ \A flag \in {streamOn, loading, loadingMore, loaded, loadError, clearing, calm} :
           flag \in BOOLEAN
    /\ \A s \in Slots : inboxCalls[s].op \in
           {"idle", "load", "more", "read", "readAll", "clear"}

\* No spinner outlives its request and no request runs without its spinner: the
\* list is loading exactly while the latest load waits, "more" while a next page
\* does, and the header is locked exactly while its action, or the reload of a
\* clear, waits (the finally blocks of notification-context.tsx:127-129, 153-155
\* and notifications-page.tsx:127-149).
InboxSpinnersAreLive ==
    /\ loading <=> newest # None /\ inboxCalls[newest].op = "load"
    /\ loadingMore <=> Waiting(inboxCalls, {"more"}) # {}
    /\ clearing <=> \E s \in Busy(inboxCalls) :
                       \/ inboxCalls[s].op \in {"readAll", "clear"}
                       \/ inboxCalls[s].op = "load" /\ inboxCalls[s].then = "clear"

\* When nothing is on its way and nothing overlapped since the last clean load, the
\* badge is the number of unread rows of the backend, however the loads, pages,
\* marks and streamed changes alternated (notification-context.tsx:158-269).
BadgeIsExact == calm /\ loaded /\ Quiet => badge = UnreadRows

\* In the same states the list holds current copies of rows that match the filter
\* and, once no page is left, all of them: no answer of a filter that was left and
\* no dropped repetition stays in it (notification-context.tsx:100-156, 231-269).
ListIsExact ==
    calm /\ loaded /\ Quiet =>
        LET rows == {n \in ToSet(feed) : Matches(filter, n, notice[n])} IN
        /\ DOMAIN items \subseteq rows
        /\ \A n \in DOMAIN items : items[n] = notice[n]
        /\ cursor = None => DOMAIN items = rows
=============================================================================
