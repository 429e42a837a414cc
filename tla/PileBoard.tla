------------------------------ MODULE PileBoard ------------------------------
(***************************************************************************)
(* The piles of a user in the web console: DashboardProvider keeps the     *)
(* newest snapshot, which answers of requests and the frames of the event  *)
(* stream bring in any order, and DashboardWorkbench lists, opens, edits,  *)
(* reorders and removes piles.                                             *)
(***************************************************************************)
EXTENDS HttpCalls, Integers, SequencesExt

CONSTANTS BoardPiles,  \* piles of the account; a total order of them is Rank
          PileStates,  \* portCounts, as far as the page tells piles apart: a port is
                       \* "idle", none is ("charging"), or the pile is "offline"
          FramesMax,  \* snapshots the channel of a stream holds, 8 in the code
          BoardSteps  \* bound: requests of the page and changes around it

ASSUME BoardAssumption ==
    /\ IsFiniteSet(BoardPiles) /\ None \notin BoardPiles
    /\ PileStates \subseteq {"idle", "charging", "offline"} /\ "idle" \in PileStates
    /\ FramesMax \in Nat \ {0} /\ BoardSteps \in Nat

VARIABLES
    pileTable,     \* the piles of the backend: [sort, edits, state]; one that was just added
                   \* is "unread"
    now,           \* its clock, in the milliseconds that the page compares: the last change
    tied,          \* ghost: the last change was made in the millisecond of the one before
    link,          \* the EventSource: closed, connecting, open, error or dead
    frames,        \* snapshots on their way through the stream
    shown,         \* the snapshot of the provider
    stamp,         \* lastServerStampRef
    selectedPile,  \* ?pile= of the address
    portFilter,    \* ?status= of the address
    modal,         \* the open dialog of PileDetail
    cookieLock,    \* ManualCookieForm, in the dialog that adds a pile: the update it waits for
    boardLoading, boardError,   \* of the session's first load
    refreshing, reordering, refreshError,
    boardCalls,
    boardSteps,
    dropped        \* ghost: a full channel refused a frame of this connection

boardVars == <<pileTable, now, tied, link, frames, shown, stamp, selectedPile, portFilter, modal, cookieLock,
               boardLoading, boardError, refreshing, reordering, refreshError, boardCalls,
               boardSteps, dropped>>

backend == <<pileTable, now, tied>>
stream == <<link, frames, dropped>>
address == <<selectedPile, portFilter>>
flags == <<boardLoading, boardError, refreshing, reordering, refreshError>>
desk == <<address, modal, cookieLock, flags>>

\* Ties of the sort order are broken by the id.
Rank == CHOOSE r \in [BoardPiles -> 1..Cardinality(BoardPiles)] : IsInjective(r)

Before(t, p, q) == \/ t[p].sort < t[q].sort
                   \/ t[p].sort = t[q].sort /\ Rank[p] < Rank[q]

\* The piles of a snapshot in the order it lists them.
Order(t) == SetToSortSeq(DOMAIN t, LAMBDA p, q : Before(t, p, q))

Snapshot == [table |-> pileTable, at |-> now]

Started == [table |-> <<>>, at |-> 0]

BoardInit ==
    /\ \E old \in SUBSET BoardPiles : pileTable = [p \in old |-> [sort |-> 0, edits |-> 0, state |-> "idle"]]
    /\ now = 1 /\ tied = FALSE
    /\ link = "closed" /\ frames = <<>> /\ dropped = FALSE
    /\ shown = Started /\ stamp = 0
    /\ selectedPile = None /\ portFilter = "all" /\ modal = None /\ cookieLock = None
    /\ boardLoading = TRUE /\ boardError = FALSE
    /\ refreshing = FALSE /\ reordering = FALSE /\ refreshError = FALSE
    /\ boardCalls = NoCalls /\ boardSteps = 0

BoardHappens == boardSteps < BoardSteps /\ boardSteps' = boardSteps + 1

SendBoard(call) ==
    /\ BoardHappens /\ Free(boardCalls) # {}
    /\ boardCalls' = Begin(boardCalls, With([answer |-> Unanswered], call))

-----------------------------------------------------------------------------
(* What the page shows *)

\* selectWorkbenchPiles: the piles whose ports the filter asks for.
ListedPiles(t, filter) ==
    SelectSeq(Order(t), LAMBDA p : filter = "all" \/ t[p].state = filter)

\* selected: by the address, or the first that is listed.
DetailOf(t, select, filter) ==
    IF select # None THEN IF select \in DOMAIN t THEN select ELSE None
    ELSE IF ListedPiles(t, filter) = <<>> THEN None ELSE Head(ListedPiles(t, filter))

DetailPile == DetailOf(shown.table, selectedPile, portFilter)

\* The list and the detail beside it.
BoardBody ==
    CASE boardLoading /\ shown.table = <<>> -> "loading"
      [] boardError /\ shown.table = <<>> -> "failed"
      [] OTHER -> "piles"

\* faulty: only what a request said makes the snapshot old
StaleByRequest == boardError \/ refreshError

\* What is shown is called the last snapshot and not the present state.
Stale == boardError \/ refreshError \/ link \in {"error", "dead"}

\* What the row of a pile says of it,
RowState(p) ==
    CASE shown.table[p].state = "unread" -> "waiting for the first read"
      [] shown.table[p].state = "offline" -> "unreachable"
      [] Stale -> "last idle"
      [] OTHER -> "idle now"

\* the banner of its detail, which offers the reminder once the ports were read,
BannerState(p) ==
    CASE shown.table[p].state = "unread" -> "not read"
      [] shown.table[p].state = "offline" -> "offline"
      [] Stale -> "at the last read"
      [] OTHER -> "idle now"

\* and the rows of its ports, of which an offline pile shows the last state.
PortState(p) ==
    CASE shown.table[p].state = "unread" -> "no ports"
      [] Stale \/ shown.table[p].state = "offline" -> "last state"
      [] OTHER -> "idle now"

\* and the facts of the port that is selected.
InspectorState(p) ==
    IF Stale \/ shown.table[p].state = "offline" THEN "last state" ELSE "idle now"

\* The line under the title tells how many of them have an idle port.
Heading ==
    CASE boardLoading -> "reading"
      [] Stale -> "last snapshot"
      [] OTHER -> "idle now"

SaysNow(p) == "idle now" \in {RowState(p), BannerState(p), PortState(p), InspectorState(p), Heading}

\* A dialog covers the page.
Bare == modal = None /\ cookieLock = None

\* faulty: the dialog outlives the detail it belongs to
KeepsModal(detail) == modal

\* PileDetail is keyed by its pile: its dialog goes with it.
Remount(detail) == IF modal # None /\ modal.pile # detail THEN None ELSE modal

-----------------------------------------------------------------------------
(* Snapshots *)

\* faulty: an older snapshot is shown too
AnyAge(next) == TRUE

\* A slow answer may come after a newer frame: it is dropped.
NotOlder(next) == next.at >= stamp

\* applySnapshot
Apply(next) ==
    IF NotOlder(next) THEN stamp' = next.at /\ shown' = next ELSE UNCHANGED <<stamp, shown>>

Redraw == modal' = Remount(DetailOf(shown'.table, selectedPile', portFilter'))

\* Retry: nothing could be read, or the address names a pile that is not listed.
RetryOffered ==
    \/ BoardBody = "failed"
    \/ BoardBody = "piles" /\ selectedPile # None /\ DetailPile = None

\* load of DashboardSession, or again by the button: it connects the stream.
LoadPiles ==
    /\ Waiting(boardCalls, {"load"}) = {} /\ (link = "closed" \/ (Bare /\ RetryOffered))
    /\ SendBoard([op |-> "load"])
    /\ boardLoading' = TRUE /\ boardError' = FALSE
    /\ UNCHANGED <<cookieLock, backend, stream, shown, stamp, address, modal, refreshing, reordering,
                   refreshError>>

LandBoard(s) ==
    LET call == boardCalls[s] IN
    /\ call.op = "load" /\ call.answer # Unanswered
    /\ IF call.answer.kind = "ok" THEN Apply(call.answer.body) ELSE UNCHANGED <<stamp, shown>>
    /\ boardLoading' = FALSE /\ boardError' = (call.answer.kind # "ok")
    /\ link' = IF link = "closed" THEN "connecting" ELSE link
    /\ boardCalls' = End(boardCalls, s)
    /\ UNCHANGED address /\ Redraw
    /\ UNCHANGED <<cookieLock, backend, frames, dropped, refreshing, reordering, refreshError, boardSteps>>

-----------------------------------------------------------------------------
(* The event stream.  One that was refused for good is never replaced. *)

\* faulty: a stream starts with the next change
NoFrame == <<>>

\* Subscribe puts the present snapshot into the new channel.
FirstFrame == <<Snapshot>>

StreamOpens ==
    /\ link \in {"connecting", "error"} /\ link' = "open"
    /\ frames' = FirstFrame /\ dropped' = FALSE
    /\ UNCHANGED <<backend, shown, stamp, desk, boardCalls, boardSteps>>

ReceiveFrame ==
    /\ link = "open" /\ frames # <<>>
    /\ Apply(Head(frames)) /\ frames' = Tail(frames)
    /\ UNCHANGED address /\ Redraw
    /\ UNCHANGED <<cookieLock, backend, link, dropped, flags, boardCalls, boardSteps>>

\* The connection breaks: EventSource tries again, unless the backend refused it.
StreamFails ==
    /\ link \in {"connecting", "open"} /\ BoardHappens
    /\ link' \in {"error", "dead"} /\ frames' = <<>>
    /\ UNCHANGED <<backend, dropped, shown, stamp, desk, boardCalls>>

-----------------------------------------------------------------------------
(* The page *)

\* The way back from a detail to the list.
LeavesDetail(p) == p = None

Select(p) ==
    /\ Bare /\ BoardBody = "piles" /\ p # selectedPile
    /\ p \in Range(ListedPiles(shown.table, portFilter)) \/ LeavesDetail(p)
    /\ selectedPile' = p
    /\ UNCHANGED <<cookieLock, backend, stream, shown, stamp, portFilter, modal, flags, boardCalls, boardSteps>>

ChooseFilter(filter) ==
    /\ Bare /\ filter # portFilter
    /\ portFilter' = filter /\ selectedPile' = None
    /\ UNCHANGED <<cookieLock, backend, stream, shown, stamp, modal, flags, boardCalls, boardSteps>>

RefreshOffered == ~refreshing /\ ~boardLoading

\* refresh
Refresh ==
    /\ Bare /\ RefreshOffered
    /\ SendBoard([op |-> "refresh"])
    /\ refreshing' = TRUE /\ refreshError' = FALSE
    /\ UNCHANGED <<cookieLock, backend, stream, shown, stamp, address, modal, boardLoading, boardError, reordering>>

LandRefresh(s) ==
    LET call == boardCalls[s] IN
    /\ call.op = "refresh" /\ call.answer # Unanswered
    /\ IF call.answer.kind = "ok" THEN Apply(call.answer.body) ELSE UNCHANGED <<stamp, shown>>
    /\ refreshError' = (call.answer.kind # "ok") /\ refreshing' = FALSE
    /\ boardCalls' = End(boardCalls, s)
    /\ UNCHANGED address /\ Redraw
    /\ UNCHANGED <<cookieLock, backend, stream, boardLoading, boardError, reordering, boardSteps>>

\* The arrows of a row, but for the first and the last.
MayMove(p, next) ==
    /\ ~reordering /\ p \in Range(ListedPiles(shown.table, portFilter))
    /\ next \in 1..Cardinality(DOMAIN shown.table)

\* move: the order that is shown with two neighbours swapped.
Move(p, direction) ==
    LET ids == Order(shown.table)
        index == CHOOSE i \in DOMAIN ids : ids[i] = p
        next == index + direction
    IN
    /\ Bare /\ BoardBody = "piles" /\ p \in DOMAIN shown.table /\ MayMove(p, next)
    /\ SendBoard([op |-> "order", ids |-> [ids EXCEPT ![index] = ids[next], ![next] = p]])
    /\ reordering' = TRUE
    /\ UNCHANGED <<cookieLock, backend, stream, shown, stamp, address, modal, boardLoading, boardError, refreshing,
                   refreshError>>

LandOrder(s) ==
    LET call == boardCalls[s] IN
    /\ call.op = "order" /\ call.answer # Unanswered
    /\ IF call.answer.kind = "ok" THEN Apply(call.answer.body) ELSE UNCHANGED <<stamp, shown>>
    /\ reordering' = FALSE
    /\ boardCalls' = End(boardCalls, s)
    /\ UNCHANGED address /\ Redraw
    /\ UNCHANGED <<cookieLock, backend, stream, boardLoading, boardError, refreshing, refreshError, boardSteps>>

CookieFormFree == cookieLock = None

\* save of ManualCookieForm
SaveCookie ==
    /\ Bare /\ CookieFormFree /\ ~boardLoading
    /\ SendBoard([op |-> "cookie"])
    /\ cookieLock' = NextSlot(boardCalls)
    /\ UNCHANGED <<backend, stream, shown, stamp, address, modal, flags>>

\* The form is folded up or its dialog closed: its lock goes with it, the update goes on.
HideCookieForm ==
    /\ cookieLock # None /\ cookieLock' = None
    /\ UNCHANGED <<backend, stream, shown, stamp, address, modal, flags, boardCalls, boardSteps>>

\* updateCookie
LandCookie(s) ==
    LET call == boardCalls[s] IN
    /\ call.op = "cookie" /\ call.answer # Unanswered
    /\ IF call.answer.kind = "ok" THEN Apply(call.answer.body) ELSE UNCHANGED <<stamp, shown>>
    /\ cookieLock' = IF cookieLock = s THEN None ELSE cookieLock
    /\ boardCalls' = End(boardCalls, s)
    /\ UNCHANGED address /\ Redraw
    /\ UNCHANGED <<backend, stream, flags, boardSteps>>

\* The menu of PileDetail.
OpenModal(kind) ==
    /\ Bare /\ BoardBody = "piles" /\ DetailPile # None
    /\ modal' = [kind |-> kind, pile |-> DetailPile, saving |-> None]
    /\ UNCHANGED <<cookieLock, backend, stream, shown, stamp, address, flags, boardCalls, boardSteps>>

CloseModal ==
    /\ modal # None /\ modal.saving = None /\ modal' = None
    /\ UNCHANGED <<cookieLock, backend, stream, shown, stamp, address, flags, boardCalls, boardSteps>>

\* save and remove: an edit sends the place of the pile as it is shown.
SubmitModal ==
    /\ modal # None /\ modal.saving = None
    /\ SendBoard([op |-> modal.kind, pile |-> modal.pile, sort |-> shown.table[modal.pile].sort])
    /\ modal' = [modal EXCEPT !.saving = NextSlot(boardCalls)]
    /\ UNCHANGED <<cookieLock, backend, stream, shown, stamp, address, flags>>

OwnModal(s) == modal # None /\ modal.saving = s

\* faulty: only a success unlocks the dialog
TellSuccess(s, done) == IF OwnModal(s) /\ done THEN None ELSE modal

\* The dialog that was confirmed is told: it closes, or shows the error.
Tell(s, done) ==
    IF ~OwnModal(s) THEN modal ELSE IF done THEN None ELSE [modal EXCEPT !.saving = None]

\* faulty: the change is never read back
NeverFetches == FALSE

\* syncAfterMutation: an open stream brings the change.
Fetches == link # "open"

\* The handler of a change goes on to a read: of syncAfterMutation, or the last of a removal.
GoesOn(s, op, change, since) ==
    boardCalls' = [boardCalls EXCEPT ![s] =
        [op |-> op, of |-> change, since |-> since, answer |-> Unanswered]]

LandChange(s) ==
    LET call == boardCalls[s] IN
    /\ call.op \in {"edit", "remove"} /\ call.answer # Unanswered
    /\ IF call.answer.kind = "ok" /\ (Fetches \/ call.op = "remove")
       THEN /\ GoesOn(s, IF Fetches THEN "sync" ELSE "settle", call.op, call.answer.body)
            /\ UNCHANGED modal
       ELSE /\ boardCalls' = End(boardCalls, s)
            /\ modal' = Tell(s, call.answer.kind = "ok")
    /\ UNCHANGED <<cookieLock, backend, stream, shown, stamp, address, flags, boardSteps>>

\* A read of syncAfterMutation that fails is the error of the dialog, of a removal too.
LandSync(s) ==
    LET call == boardCalls[s]
        read == call.answer.kind = "ok"
    IN
    /\ call.op = "sync" /\ call.answer # Unanswered
    /\ IF read THEN Apply(call.answer.body) ELSE UNCHANGED <<stamp, shown>>
    /\ UNCHANGED address
    /\ IF read /\ call.of = "remove"
       THEN GoesOn(s, "settle", call.of, call.since) /\ Redraw
       ELSE /\ boardCalls' = End(boardCalls, s)
            /\ IF OwnModal(s) THEN modal' = Tell(s, read) ELSE Redraw
    /\ UNCHANGED <<cookieLock, backend, stream, flags, boardSteps>>

\* The last read of a removal may fail: it ends, and closes the detail that is open by then.
LandSettle(s) ==
    LET call == boardCalls[s] IN
    /\ call.op = "settle" /\ call.answer # Unanswered
    /\ IF call.answer.kind = "ok" THEN Apply(call.answer.body) ELSE UNCHANGED <<stamp, shown>>
    /\ selectedPile' = None /\ UNCHANGED portFilter
    /\ IF OwnModal(s) THEN modal' = Tell(s, TRUE) ELSE Redraw
    /\ boardCalls' = End(boardCalls, s)
    /\ UNCHANGED <<cookieLock, backend, stream, flags, boardSteps>>

-----------------------------------------------------------------------------
(* The backend *)

\* A change is stamped with the wall clock, which may be in the same millisecond still.
Ticks == now' \in {now, now + 1} /\ tied' = (now' = now)

\* publishLocked: a full channel misses the frame.
PublishFrame ==
    IF link # "open" THEN UNCHANGED <<frames, dropped>>
    ELSE IF Len(frames) < FramesMax
    THEN frames' = Append(frames, [table |-> pileTable', at |-> now']) /\ UNCHANGED dropped
    ELSE dropped' = TRUE /\ UNCHANGED frames

AnswerBoard(s, answer) ==
    /\ boardCalls[s].answer = Unanswered
    /\ boardCalls' = [boardCalls EXCEPT ![s].answer = answer]
    /\ UNCHANGED <<link, shown, stamp, desk, boardSteps>>

ServeRead(s) ==
    /\ boardCalls[s].op \in {"load", "sync", "settle"}
    /\ AnswerBoard(s, Ok(Snapshot))
    /\ UNCHANGED <<backend, frames, dropped>>

\* The provider is asked, for a new cookie too: what a pile reports may have changed.
ServeRefresh(s) ==
    /\ boardCalls[s].op \in {"refresh", "cookie"}
    /\ \E p \in DOMAIN pileTable, state \in PileStates : pileTable' = [pileTable EXCEPT ![p].state = state]
    /\ Ticks
    /\ AnswerBoard(s, Ok([table |-> pileTable', at |-> now']))
    /\ PublishFrame

\* ReorderPiles takes exactly the piles there are.
ServeOrder(s) ==
    LET call == boardCalls[s] IN
    /\ call.op = "order"
    /\ IF Range(call.ids) = DOMAIN pileTable
       THEN /\ pileTable' = [p \in DOMAIN pileTable |->
                            [pileTable[p] EXCEPT !.sort = CHOOSE i \in DOMAIN call.ids : call.ids[i] = p]]
            /\ Ticks
            /\ AnswerBoard(s, Ok([table |-> pileTable', at |-> now']))
            /\ PublishFrame
       ELSE AnswerBoard(s, Refused("order")) /\ UNCHANGED <<backend, frames, dropped>>

ServeChange(s) ==
    LET call == boardCalls[s] IN
    /\ call.op \in {"edit", "remove"}
    /\ IF call.pile \in DOMAIN pileTable
       THEN /\ pileTable' = IF call.op = "remove" THEN [p \in DOMAIN pileTable \ {call.pile} |-> pileTable[p]]
                        ELSE [pileTable EXCEPT ![call.pile].edits = @ + 1, ![call.pile].sort = call.sort]
            /\ Ticks
            /\ AnswerBoard(s, Ok(now'))
            /\ PublishFrame
       ELSE AnswerBoard(s, Refused("unknown")) /\ UNCHANGED <<backend, frames, dropped>>

LoseBoardAnswer(s) ==
    /\ s \in Busy(boardCalls) /\ boardCalls[s].answer # Lost
    /\ boardCalls' = LoseAnswer(boardCalls, s)
    /\ UNCHANGED <<backend, stream, shown, stamp, desk, boardSteps>>

\* A check of the scheduler, another tab, or a pile that is added.
ChangeElsewhere ==
    /\ BoardHappens /\ Ticks
    /\ \/ \E p \in DOMAIN pileTable, state \in PileStates : pileTable' = [pileTable EXCEPT ![p].state = state]
       \/ \E p \in DOMAIN pileTable : pileTable' = [q \in DOMAIN pileTable \ {p} |-> pileTable[q]]
       \/ \E p \in BoardPiles \ DOMAIN pileTable :
             pileTable' = [q \in {p} \cup DOMAIN pileTable |->
                   IF q = p THEN [sort |-> 0, edits |-> 0, state |-> "unread"] ELSE pileTable[q]]
    /\ PublishFrame
    /\ UNCHANGED <<link, shown, stamp, desk, boardCalls>>

-----------------------------------------------------------------------------
BoardNext ==
    \/ LoadPiles \/ StreamOpens \/ ReceiveFrame \/ StreamFails
    \/ Refresh \/ CloseModal \/ SubmitModal \/ SaveCookie \/ HideCookieForm \/ ChangeElsewhere
    \/ \E p \in BoardPiles \cup {None} : Select(p)
    \/ \E filter \in {"all", "idle"} : ChooseFilter(filter)
    \/ \E p \in BoardPiles, direction \in {-1, 1} : Move(p, direction)
    \/ \E kind \in {"edit", "remove"} : OpenModal(kind)
    \/ \E s \in Slots : \/ LandBoard(s) \/ LandRefresh(s) \/ LandOrder(s) \/ LandCookie(s)
                        \/ LandChange(s)
                        \/ LandSync(s) \/ LandSettle(s) \/ ServeRead(s) \/ ServeRefresh(s) \/ ServeOrder(s)
                        \/ ServeChange(s) \/ LoseBoardAnswer(s)

BoardSpec == BoardInit /\ [][BoardNext]_boardVars

-----------------------------------------------------------------------------
\* The shown snapshot carries the newest stamp, and a dialog belongs to the pile
\* whose detail is shown (dashboard-context.tsx:98-106, dashboard-workbench.tsx:549).
BoardTypeOK ==
    /\ DOMAIN shown.table \subseteq BoardPiles /\ stamp = shown.at /\ stamp <= now
    /\ Len(frames) <= FramesMax
    /\ link \in {"closed", "connecting", "open", "error", "dead"}
    /\ modal # None => modal.pile = DetailPile /\ modal.kind \in {"edit", "remove"}

\* A slow answer never brings back data of an earlier millisecond than that of a frame or
\* answer that replaced it (dashboard-context.tsx:98-106).
NeverOlder == [][stamp' >= stamp /\ shown'.at >= shown.at]_boardVars

\* Beside an open stream whose frames have all come and fitted into the channel, the piles
\* that are shown are of the millisecond of the last change, and are the backend's unless
\* that millisecond saw another change, whichever answers are still on their way
\* (dashboard-context.tsx:98-136, 231-264).
ConnectedIsCurrent ==
    link = "open" /\ frames = <<>> /\ ~dropped =>
        shown.at = now /\ (~tied => shown.table = pileTable)

\* A pile whose state is not what the page shows is marked as last read, unless a frame
\* with its state is on its way or the channel lost it, the stream was never open, or the
\* last two changes were made in one millisecond
\* (dashboard-workbench.tsx:122-128, 425-480, 657-740).
BehindIsMarked ==
    \A p \in DOMAIN shown.table :
        SaysNow(p) /\ link \notin {"closed", "connecting"} /\ frames = <<>> /\ ~dropped /\ ~tied
            => p \in DOMAIN pileTable /\ pileTable[p].state = shown.table[p].state

\* When a change was made: what the backend answered.
Since(call) == IF call.op \in {"sync", "settle"} THEN call.since ELSE call.answer.body

\* A removal ends well with its last read, whether or not that one failed.
EndsWell(call) == call.op = "settle" \/ call.answer.kind = "ok"

\* A change that ends well is shown, to the millisecond, or a frame with it is on its way;
\* only a removal whose last read failed may leave the pile on a page that is marked as old,
\* after its stream broke (dashboard-context.tsx:128-136, 156-185,
\* dashboard-workbench.tsx:615-651).
ChangesAreShown ==
    [][\A s \in Slots :
          LET call == boardCalls[s] IN
          /\ call.op \in {"edit", "remove", "sync", "settle"} /\ boardCalls'[s] = NoCall
          /\ EndsWell(call)
          => \/ stamp' >= Since(call)
             \/ link' = "open" /\ (dropped' \/ \E i \in DOMAIN frames' : frames'[i].at >= Since(call))
             \/ call.op = "settle" /\ call.answer.kind # "ok" /\ link' \in {"error", "dead"}
      ]_boardVars

\* A button or a dialog is locked exactly while its request waits
\* (dashboard-workbench.tsx:160-205, 615-651).
BoardLocksAreLive ==
    /\ refreshing <=> Waiting(boardCalls, {"refresh"}) # {}
    /\ reordering <=> Waiting(boardCalls, {"order"}) # {}
    /\ modal # None /\ modal.saving # None
          => boardCalls[modal.saving].op \in {"edit", "remove", "sync", "settle"}
    /\ cookieLock # None => boardCalls[cookieLock].op = "cookie"
=============================================================================
