------------------------- MODULE AnnouncementReader -------------------------
(***************************************************************************)
(* What a user reads of the announcements: the strip with the one he has   *)
(* to see, which refreshes itself, and the reader, which shows all of them *)
(* or the text of one, notices that it was changed, and confirms it.  A    *)
(* confirmation holds for a reminder: an administrator who reminds again   *)
(* makes the announcement pending for everybody.                           *)
(***************************************************************************)
EXTENDS HttpCalls

CONSTANTS
    Notes,        \* published announcements
    Important,    \* those whose summary stays when they are confirmed
    Timed,        \* those that end by themselves
    ReaderSteps   \* bound: requests of the user, changes of the administrators

ASSUME ReaderAssumption ==
    /\ IsFiniteSet(Notes) /\ Notes # {} /\ "all" \notin Notes
    /\ Important \subseteq Notes /\ Timed \subseteq Notes /\ ReaderSteps \in Nat

VARIABLES
    wall,        \* the backend: [status, version, reminder] of each announcement
    acks,        \* and the reminders <<announcement, reminder>> the user confirmed
    atNote,      \* selection: None, "all" or an announcement
    data,        \* the announcement that is shown: [id, version, reminder, status, acknowledged]
    entries,     \* or the list of all, None while neither is there
    readerError, changed,
    acking,      \* busy and its lock: a confirmation waits for its answer
    summary,     \* of the strip: None or [item, ends]
    stripError,
    lately,      \* the last refresh is less than a minute old
    due, timer,  \* the boundary has passed; the timer that waits for it is set
    reachable,   \* navigator.onLine
    noteCalls, noteSteps,
    seen, told   \* ghosts: the versions <<id, version>> shown, the reminders confirmed on screen

strip == <<summary, stripError, lately, due, timer>>
reader == <<atNote, data, entries, readerError, changed, acking>>
readerVars == <<wall, acks, reader, strip, reachable, noteCalls, noteSteps, seen, told>>

NoteSummary == [op |-> "summary", answer |-> Unanswered]

ReadOf(id) == [op |-> "read", id |-> id, answer |-> Unanswered]

ReaderInit ==
    /\ wall = [p \in Notes |-> [status |-> "active", version |-> 1, reminder |-> 1]]
    /\ acks = {} /\ atNote = None /\ data = None /\ entries = None
    /\ readerError = FALSE /\ changed = FALSE /\ acking = FALSE
    /\ summary = None /\ stripError = FALSE /\ lately = TRUE /\ due = FALSE /\ timer = FALSE
    /\ reachable = TRUE
    /\ noteCalls = Begin(NoCalls, NoteSummary)
    /\ noteSteps = 0 /\ seen = {} /\ told = {}

NoteStep == noteSteps < ReaderSteps /\ noteSteps' = noteSteps + 1

Notices(ops) == Waiting(noteCalls, ops)

-----------------------------------------------------------------------------
(* The strip *)

\* The request of an effect that is over is aborted, and nothing follows it.
Aborted(calls, ops) == [s \in Slots |-> IF calls[s].op \in ops THEN NoCall ELSE calls[s]]

\* faulty: a refresh that is on its way goes on
KeepsOlder(calls) == calls

Supersedes(calls) == Aborted(calls, {"summary"})

\* load
LoadSummary(calls) ==
    /\ Free(Supersedes(calls)) # {}
    /\ noteCalls' = Begin(Supersedes(calls), NoteSummary)
    /\ lately' = TRUE
    /\ UNCHANGED <<summary, stripError>>

Beside == <<wall, acks, reader, reachable, seen, told>>

\* faulty: only the boundary makes a refresh due
OnlyAtBoundary == due

MayRefresh == due \/ ~lately

\* The timer of five minutes, and the page that is seen or connected again.
Wake ==
    /\ reachable /\ Notices({"summary"}) = {} /\ MayRefresh
    /\ LoadSummary(noteCalls)
    /\ UNCHANGED <<Beside, due, timer, noteSteps>>

MinutePasses ==
    /\ lately /\ lately' = FALSE
    /\ UNCHANGED <<Beside, summary, stripError, due, timer, noteCalls, noteSteps>>

\* An announcement starts or ends; a hidden page remembers it for its next refresh.
BoundaryPasses ==
    /\ timer /\ \A p \in Timed : wall[p].status # "active"
    /\ timer' = FALSE /\ due' = TRUE
    /\ \/ reachable /\ LoadSummary(noteCalls)
       \/ UNCHANGED <<summary, stripError, lately, noteCalls>>
    /\ UNCHANGED <<Beside, noteSteps>>

RetrySummary ==
    /\ stripError /\ reachable /\ atNote = None /\ NoteStep
    /\ LoadSummary(noteCalls)
    /\ UNCHANGED <<Beside, due, timer>>

LandSummary(s) ==
    LET call == noteCalls[s] IN
    /\ call.op = "summary" /\ call.answer # Unanswered
    /\ noteCalls' = End(noteCalls, s)
    /\ stripError' = ~Succeeds(call)
    /\ IF Succeeds(call)
       THEN summary' = call.answer.body /\ due' = FALSE /\ timer' = call.answer.body.ends
       ELSE UNCHANGED <<summary, due, timer>>
    /\ UNCHANGED <<Beside, lately, noteSteps>>

-----------------------------------------------------------------------------
(* The reader *)

\* A confirmation goes on when the reader turns to something else, and what it is about is
\* not shown when it ends.
LeftBehind(call, next) == [call EXCEPT !.left = TRUE, !.closed = @ \/ next = None]

LeftCalls(calls, next) ==
    [s \in Slots |-> IF calls[s].op = "acknowledge" THEN LeftBehind(calls[s], next)
                     ELSE Aborted(calls, {"read", "check"})[s]]

\* The version of the effect moves on; a closed reader forgets its lock too.
Select(next, calls) ==
    /\ Free(LeftCalls(calls, next)) # {}
    /\ atNote' = next /\ data' = None /\ entries' = None
    /\ readerError' = FALSE /\ changed' = FALSE
    /\ acking' = (acking /\ next # None)
    /\ noteCalls' = IF next = None THEN LeftCalls(calls, next)
                    ELSE Begin(LeftCalls(calls, next), ReadOf(next))

Outside == <<wall, acks, strip, reachable, seen, told>>

SelectNote(next) ==
    /\ next # atNote
    /\ CASE next = None -> TRUE
         [] next = "all" -> TRUE
         [] atNote = None -> ~stripError /\ summary # None /\ summary.item # None /\ next = summary.item.id
         [] OTHER -> atNote = "all" /\ Notices({"read"}) = {} /\ entries # None /\ next \in entries
    /\ NoteStep /\ Select(next, noteCalls)
    /\ UNCHANGED Outside

ReloadNote ==
    /\ atNote # None /\ Notices({"read"}) = {} /\ (readerError \/ changed) /\ reachable /\ ~acking
    /\ NoteStep /\ Free(noteCalls) # {}
    /\ noteCalls' = Begin(noteCalls, ReadOf(atNote))
    /\ readerError' = FALSE /\ changed' = FALSE
    /\ UNCHANGED <<Outside, atNote, data, entries, acking>>

\* What is shown is replaced, and a check of what was shown before is aborted.
LandRead(s) ==
    LET call == noteCalls[s]
        row == call.answer.body
    IN
    /\ call.op = "read" /\ call.answer # Unanswered
    /\ noteCalls' = Aborted(End(noteCalls, s), {"check"})
    /\ CASE ~Succeeds(call) -> data' = None /\ entries' = None /\ readerError' = TRUE /\ UNCHANGED seen
         [] Succeeds(call) /\ call.id = "all" -> entries' = row /\ UNCHANGED <<data, readerError, seen>>
         [] OTHER -> /\ data' = row /\ seen' = seen \cup {<<row.id, row.version>>}
                     /\ UNCHANGED <<entries, readerError>>
    /\ UNCHANGED <<wall, acks, strip, reachable, told, atNote, changed, acking, noteSteps>>

\* Every minute, and when the page is seen again; two at a time would tell the same.
CheckNote ==
    /\ data # None /\ reachable /\ Notices({"check"}) = {} /\ Free(noteCalls) # {}
    /\ noteCalls' = Begin(noteCalls, [op |-> "check", id |-> data.id, answer |-> Unanswered])
    /\ UNCHANGED <<Outside, reader, noteSteps>>

\* faulty: another text of the same announcement goes unnoticed
OtherStatus(row) == row.status # data.status

Differs(row) == row.version # data.version \/ row.status # data.status

LandNoteCheck(s) ==
    LET call == noteCalls[s] IN
    /\ call.op = "check" /\ call.answer # Unanswered
    /\ noteCalls' = End(noteCalls, s)
    /\ changed' = (changed \/ ~Succeeds(call) \/ Differs(call.answer.body))
    /\ UNCHANGED <<Outside, atNote, data, entries, readerError, acking, noteSteps>>

\* faulty: a second confirmation does not wait for the first
WithoutLock ==
    /\ data # None /\ Notices({"read"}) = {} /\ reachable
    /\ ~changed /\ ~data.acknowledged /\ data.status = "active"

MayAcknowledge ==
    /\ data # None /\ Notices({"read"}) = {} /\ reachable
    /\ ~acking /\ ~changed /\ ~data.acknowledged /\ data.status = "active"

Acknowledge ==
    /\ MayAcknowledge /\ NoteStep /\ Free(noteCalls) # {}
    /\ noteCalls' = Begin(noteCalls, [op |-> "acknowledge", shown |-> data, left |-> FALSE,
                                      closed |-> FALSE, answer |-> Unanswered])
    /\ acking' = TRUE /\ readerError' = FALSE
    /\ UNCHANGED <<Outside, atNote, data, entries, changed>>

\* faulty: the confirmation of another announcement is shown too
AnyPage(call) == ~call.closed

SamePage(call) == ~call.left

\* The strip is refreshed, whether a refresh is on its way or not.
LandAcknowledge(s) ==
    LET call == noteCalls[s]
        calls == End(noteCalls, s)
    IN
    /\ call.op = "acknowledge" /\ call.answer # Unanswered
    /\ acking' = (acking /\ call.closed)
    /\ IF ~SamePage(call)
       THEN noteCalls' = calls /\ UNCHANGED <<strip, data, readerError, changed, told>>
       ELSE IF ~Succeeds(call)
       THEN /\ noteCalls' = calls /\ readerError' = TRUE /\ changed' = TRUE
            /\ UNCHANGED <<strip, data, told>>
       ELSE /\ data' = [call.shown EXCEPT !.acknowledged = TRUE]
            /\ UNCHANGED <<readerError, changed, due, timer>>
            /\ IF reachable
               THEN /\ LoadSummary(Aborted(calls, {"check"}))
                    /\ told' = told \cup {<<call.shown.id, call.shown.reminder>>}
               ELSE noteCalls' = Aborted(calls, {"check"}) /\ UNCHANGED <<summary, stripError, lately, told>>
    /\ UNCHANGED <<wall, acks, reachable, seen, atNote, entries, noteSteps>>

GoOffline ==
    /\ reachable /\ NoteStep /\ reachable' = FALSE
    /\ UNCHANGED <<wall, acks, reader, strip, noteCalls, seen, told>>

GoOnline ==
    /\ ~reachable /\ reachable' = TRUE
    /\ UNCHANGED <<wall, acks, reader, strip, noteCalls, noteSteps, seen, told>>

-----------------------------------------------------------------------------
(* The backend *)

Acked(p) == <<p, wall[p].reminder>> \in acks

\* One of the active announcements that are pending or important, an important one first,
\* and whether one of the active ones will end.
SummaryOfWall ==
    LET active == {p \in Notes : wall[p].status = "active"}
        offered == {p \in active : ~Acked(p) \/ p \in Important}
        first == IF offered \cap Important # {} THEN offered \cap Important ELSE offered
        item == CHOOSE p \in first : TRUE
    IN [item |-> IF first = {} THEN None
                 ELSE [id |-> item, reminder |-> wall[item].reminder, acknowledged |-> Acked(item)],
        ends |-> active \cap Timed # {}]

Readable == {p \in Notes : wall[p].status \in {"active", "ended"}}

NoteOf(p) == [id |-> p, version |-> wall[p].version, reminder |-> wall[p].reminder,
              status |-> wall[p].status, acknowledged |-> Acked(p)]

\* faulty: the reminder alone is compared
SameReminder(p, shown) == wall[p].reminder = shown.reminder

SameText(p, shown) == wall[p].version = shown.version /\ wall[p].reminder = shown.reminder

TellNote(s, answer) ==
    /\ noteCalls[s].answer = Unanswered
    /\ noteCalls' = [noteCalls EXCEPT ![s].answer = answer]
    /\ UNCHANGED <<wall, reader, strip, reachable, noteSteps, seen, told>>

ServeNote(s) ==
    LET call == noteCalls[s] IN
    /\ s \in Busy(noteCalls)
    /\ \/ call.op = "summary" /\ TellNote(s, Ok(SummaryOfWall)) /\ UNCHANGED acks
       \/ call.op = "read" /\ call.id = "all" /\ TellNote(s, Ok(Readable)) /\ UNCHANGED acks
       \/ call.op \in {"read", "check"} /\ call.id \in Readable
          /\ TellNote(s, Ok(NoteOf(call.id))) /\ UNCHANGED acks
       \/ /\ call.op = "acknowledge"
          /\ wall[call.shown.id].status = "active" /\ SameText(call.shown.id, call.shown)
          /\ acks' = acks \cup {<<call.shown.id, call.shown.reminder>>}
          /\ TellNote(s, Ok(None))

RefuseNote(s) ==
    s \in Busy(noteCalls) /\ TellNote(s, Refused("unavailable")) /\ UNCHANGED acks

LoseNoteAnswer(s) ==
    /\ s \in Busy(noteCalls) /\ noteCalls[s].answer # Lost
    /\ noteCalls' = LoseAnswer(noteCalls, s)
    /\ UNCHANGED <<wall, acks, reader, strip, reachable, noteSteps, seen, told>>

\* Of the administrators: another text, one that reminds again, or no text any more.
ChangeNote(p, next) ==
    /\ wall[p].status = "active" /\ NoteStep
    /\ wall' = [wall EXCEPT ![p] = next]
    /\ UNCHANGED <<acks, reader, strip, reachable, noteCalls, seen, told>>

EditNote(p) == ChangeNote(p, [wall[p] EXCEPT !.version = @ + 1])
RemindAgain(p) == ChangeNote(p, [wall[p] EXCEPT !.version = @ + 1, !.reminder = @ + 1])
WithdrawNote(p) == ChangeNote(p, [wall[p] EXCEPT !.version = @ + 1, !.status = "withdrawn"])
NoteEnds(p) == p \in Timed /\ ChangeNote(p, [wall[p] EXCEPT !.status = "ended"])

-----------------------------------------------------------------------------
LandNote(s) == LandSummary(s) \/ LandRead(s) \/ LandNoteCheck(s) \/ LandAcknowledge(s)

NoteAnswer(s) == ServeNote(s) \/ RefuseNote(s) \/ LoseNoteAnswer(s)

ReaderNext ==
    \/ Wake \/ MinutePasses \/ BoundaryPasses \/ RetrySummary
    \/ \E next \in Notes \cup {None, "all"} : SelectNote(next)
    \/ ReloadNote \/ CheckNote \/ Acknowledge \/ GoOffline \/ GoOnline
    \/ \E s \in Slots : LandNote(s) \/ NoteAnswer(s)
    \/ \E p \in Notes : EditNote(p) \/ RemindAgain(p) \/ WithdrawNote(p) \/ NoteEnds(p)

\* The headers of an answer arrive, or the timer of the client ends the request.
AnswerBegins(s) == s \in Busy(noteCalls) /\ noteCalls[s].answer = Unanswered /\ NoteAnswer(s)

\* A request that failed is over.
LandFailure(s) == s \in Busy(noteCalls) /\ noteCalls[s].answer = Lost /\ LandNote(s)

\* The page is looked at and its timers run, the browser is connected again at some time,
\* and a request is given up when no headers come.  The timer of the client ends with the
\* headers: that the body after them arrives is granted by nothing (http.ts:118-131, 148).
ReaderFairness ==
    /\ WF_readerVars(Wake) /\ WF_readerVars(MinutePasses) /\ WF_readerVars(CheckNote)
    /\ WF_readerVars(GoOnline)
    /\ \A s \in Slots : WF_readerVars(AnswerBegins(s)) /\ WF_readerVars(LandFailure(s))

ReaderSpec == ReaderInit /\ [][ReaderNext]_readerVars /\ ReaderFairness

-----------------------------------------------------------------------------
\* A text is confirmed only after the reader has shown it: an announcement that was edited
\* since is refused, for the same reminder too (announcement-reader.tsx:115-142,
\* announcements.go:166-197).
ReadBeforeAck ==
    [][\A p \in Notes : <<p, wall[p].reminder>> \in acks' \ acks => <<p, wall[p].version>> \in seen]_readerVars

\* The reader shows the announcement that is selected, and one as confirmed only when the
\* backend has its confirmation (announcement-reader.tsx:39-86, 128-132).
ReaderIsOfSelection ==
    data # None => /\ data.id = atNote
                   /\ data.acknowledged => <<data.id, data.reminder>> \in acks

\* An announcement the reader showed as confirmed is pending in the strip no more, however
\* the refreshes of the strip overtake each other (announcement-strip.tsx:33-68).
AckedIsNotPending ==
    Notices({"summary"}) = {} /\ ~stripError /\ summary # None /\ summary.item # None =>
        summary.item.acknowledged \/ <<summary.item.id, summary.item.reminder>> \notin told

\* One confirmation waits at a time while the reader stays open, and it waits for it
\* (announcement-reader.tsx:115-142).
AckLockIsLive ==
    Cardinality({s \in Notices({"acknowledge"}) : ~noteCalls[s].closed}) = IF acking THEN 1 ELSE 0

\* The strip lets go of an announcement that is withdrawn or over, or says that it could not
\* be refreshed (announcement-strip.tsx:33-41, 69-104).
StripForgets ==
    \A p \in Notes : wall[p].status # "active" ~>
        (stripError \/ summary = None \/ summary.item = None \/ summary.item.id # p)

\* A reader who keeps a text open learns that it is no longer the current one
\* (announcement-reader.tsx:87-114).
ReaderNotices ==
    \A p \in Notes : (data # None /\ data.id = p /\ data.version # wall[p].version)
                     ~> (changed \/ data = None \/ data.version = wall[p].version)

\* What the reader and the strip show is so: the announcement of the selection, confirmed
\* only where the backend has it, pending no more once it was, and one confirmation at a time
\* (announcement-reader.tsx:39-142, announcement-strip.tsx:33-68).
ReaderIsSound == ReaderIsOfSelection /\ AckedIsNotPending /\ AckLockIsLive

\* The headers of the answer came, and its body did not yet.
Hangs(s) == s \in Busy(noteCalls) /\ noteCalls[s].answer \notin {Unanswered, Lost}

\* No body stalls for ever.
NothingHangs == \A s \in Slots : []<>~Hangs(s)

\* Unless the body of an answer stalls for ever, which keeps the strip from asking again, the
\* strip and the reader keep up with the announcements: one that is over is let go of, and an
\* edit under the reader's eyes is told (announcement-strip.tsx:33-104,
\* announcement-reader.tsx:87-114).
ReaderKeepsUp == NothingHangs => StripForgets /\ ReaderNotices
=============================================================================
