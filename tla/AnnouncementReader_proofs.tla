---------------------- MODULE AnnouncementReader_proofs ----------------------
(***************************************************************************)
(* What a user is shown of the announcements and what he confirms.         *)
(***************************************************************************)
EXTENDS AnnouncementReader, FiniteSetTheorems, TLAPS

-----------------------------------------------------------------------------
(* The shape of the state *)

NoteRow == [status : {"active", "ended", "withdrawn"}, version : Nat, reminder : Nat]

Shown == [id : Notes, version : Nat, reminder : Nat, status : {"active", "ended", "withdrawn"},
          acknowledged : BOOLEAN]

Items == [id : Notes, reminder : Nat, acknowledged : BOOLEAN]

Summaries == [item : Items \cup {None}, ends : BOOLEAN]

Answers(bodies) ==
    {Unanswered, Lost, Refused("unavailable")} \cup {Ok(body) : body \in bodies}

SummaryCalls == [op : {"summary"}, answer : Answers(Summaries)]
ReadCalls == [op : {"read"}, id : Notes \cup {None, "all"}, answer : Answers(Shown \cup SUBSET Notes)]
CheckCalls == [op : {"check"}, id : Notes, answer : Answers(Shown)]
AckCalls == [op : {"acknowledge"}, shown : Shown, left : BOOLEAN, closed : BOOLEAN,
             answer : Answers({None})]

Calls == {NoCall} \cup SummaryCalls \cup ReadCalls \cup CheckCalls \cup AckCalls

ReaderTypeInv ==
    /\ wall \in [Notes -> NoteRow]
    /\ atNote \in Notes \cup {None, "all"}
    /\ data \in Shown \cup {None}
    /\ acking \in BOOLEAN
    /\ noteCalls \in [Slots -> Calls]

-----------------------------------------------------------------------------
(* What a call and the page know *)

\* A confirmation of this reminder is with the backend.
Confirmed(shown) == <<shown.id, shown.reminder>> \in acks

ReadIsSound(call) ==
    /\ call.id = atNote
    /\ Succeeds(call) /\ call.id # "all" =>
           /\ call.answer.body \in Shown /\ call.answer.body.id = call.id
           /\ call.answer.body.acknowledged => Confirmed(call.answer.body)

\* What is pending was not shown as confirmed.
NotTold(page) == page.item # None => page.item.acknowledged \/ <<page.item.id, page.item.reminder>> \notin told

AckIsSound(call) ==
    /\ <<call.shown.id, call.shown.version>> \in seen
    /\ ~call.left => call.shown.id = atNote
    /\ Succeeds(call) => Confirmed(call.shown)

CallIsSound(call) ==
    /\ call.op = "read" => ReadIsSound(call)
    /\ call.op = "summary" /\ Succeeds(call) => NotTold(call.answer.body)
    /\ call.op = "acknowledge" => AckIsSound(call)

CallsAreSound == \A s \in Slots : CallIsSound(noteCalls[s])

ShownWasSeen == data # None => <<data.id, data.version>> \in seen

ToldIsConfirmed == told \subseteq acks

IsOpen(call) == call.op = "acknowledge" /\ ~call.closed

OneConfirms ==
    /\ acking <=> \E s \in Slots : IsOpen(noteCalls[s])
    /\ \A s, t \in Slots : IsOpen(noteCalls[s]) /\ IsOpen(noteCalls[t]) => s = t

SoundInv == CallsAreSound /\ ReaderIsOfSelection /\ ShownWasSeen /\ ToldIsConfirmed

ReaderInv == ReaderTypeInv /\ SoundInv /\ AckedIsNotPending /\ OneConfirms

-----------------------------------------------------------------------------
(* What the operators do *)

LEMMA Begun ==
    ASSUME NEW calls \in [Slots -> Calls], Free(calls) # {}, NEW call
    PROVE  \E n \in Slots : calls[n].op = "idle" /\ Begin(calls, call) = [calls EXCEPT ![n] = call]
<1>1. NextSlot(calls) \in Slots /\ calls[NextSlot(calls)].op = "idle"
    BY DEF NextSlot, Free, Busy
<1> QED BY <1>1 DEF Begin

LEMMA CallShapes ==
    ASSUME NEW call \in Calls
    PROVE  /\ call.op \in {"idle", "summary", "read", "check", "acknowledge"}
           /\ call.op = "idle" => call = NoCall
           /\ call.op = "summary" => call \in SummaryCalls
           /\ call.op = "read" => call \in ReadCalls
           /\ call.op = "check" => call \in CheckCalls
           /\ call.op = "acknowledge" => call \in AckCalls
BY DEF Calls, NoCall, SummaryCalls, ReadCalls, CheckCalls, AckCalls

LEMMA AnswerShapes ==
    ASSUME NEW bodies, NEW answer \in Answers(bodies)
    PROVE  answer.kind = "ok" => answer.body \in bodies
BY DEF Answers, Unanswered, Lost, Refused, Ok

\* The answer of a call can become lost or refused, and its own kind of answer.
LEMMA Retold ==
    ASSUME NEW call \in Calls, call.op # "idle", NEW answer,
           \/ answer = Lost \/ answer = Refused("unavailable")
           \/ call.op = "summary" /\ answer \in Answers(Summaries)
           \/ call.op = "read" /\ answer \in Answers(Shown \cup SUBSET Notes)
           \/ call.op = "check" /\ answer \in Answers(Shown)
           \/ call.op = "acknowledge" /\ answer \in Answers({None})
    PROVE  /\ [call EXCEPT !.answer = answer] \in Calls
           /\ [call EXCEPT !.answer = answer].op = call.op
           /\ [call EXCEPT !.answer = answer].answer = answer
           /\ call.op = "read" => [call EXCEPT !.answer = answer].id = call.id
           /\ call.op = "acknowledge" =>
                 /\ [call EXCEPT !.answer = answer].shown = call.shown
                 /\ [call EXCEPT !.answer = answer].left = call.left
                 /\ [call EXCEPT !.answer = answer].closed = call.closed
<1>0. \A bodies : Lost \in Answers(bodies) /\ Refused("unavailable") \in Answers(bodies)
    BY DEF Answers
<1>1. CASE call.op = "summary"
    BY <1>0, <1>1, CallShapes DEF SummaryCalls, Calls
<1>2. CASE call.op = "read"
    BY <1>0, <1>2, CallShapes DEF ReadCalls, Calls
<1>3. CASE call.op = "check"
    BY <1>0, <1>3, CallShapes DEF CheckCalls, Calls
<1>4. CASE call.op = "acknowledge"
    BY <1>0, <1>4, CallShapes DEF AckCalls, Calls
<1> QED BY <1>1, <1>2, <1>3, <1>4, CallShapes

LEMMA AbortedCalls ==
    ASSUME NEW calls \in [Slots -> Calls], NEW ops
    PROVE  /\ Aborted(calls, ops) \in [Slots -> Calls]
           /\ \A s \in Slots : Aborted(calls, ops)[s] = IF calls[s].op \in ops THEN NoCall ELSE calls[s]
BY DEF Aborted, Calls

LEMMA EndedCalls ==
    ASSUME NEW calls \in [Slots -> Calls], NEW s \in Slots
    PROVE  /\ End(calls, s) \in [Slots -> Calls]
           /\ \A t \in Slots : End(calls, s)[t] = IF t = s THEN NoCall ELSE calls[t]
BY DEF End, Calls

LEMMA LeftCall ==
    ASSUME NEW call \in AckCalls, NEW next
    PROVE  /\ LeftBehind(call, next) \in AckCalls
           /\ LeftBehind(call, next).shown = call.shown
           /\ LeftBehind(call, next).answer = call.answer
           /\ LeftBehind(call, next).left
           /\ LeftBehind(call, next).closed = (call.closed \/ next = None)
BY DEF LeftBehind, AckCalls

\* A call that begins takes a free slot and leaves the others as they are.
LEMMA CallBegun ==
    ASSUME NEW calls \in [Slots -> Calls], Free(calls) # {}, NEW call \in Calls
    PROVE  /\ Begin(calls, call) \in [Slots -> Calls]
           /\ \E n \in Slots : /\ calls[n].op = "idle" /\ Begin(calls, call)[n] = call
                               /\ \A t \in Slots \ {n} : Begin(calls, call)[t] = calls[t]
           /\ \A t \in Slots : Begin(calls, call)[t] = calls[t] \/ Begin(calls, call)[t] = call
BY Begun

\* A refresh of the strip replaces those that are on their way.
LEMMA SummaryBegun ==
    ASSUME NEW calls \in [Slots -> Calls], Free(Supersedes(calls)) # {}, NEW after,
           after = Begin(Supersedes(calls), NoteSummary)
    PROVE  /\ after \in [Slots -> Calls]
           /\ \A t \in Slots : \/ after[t] = calls[t] /\ calls[t].op # "summary"
                               \/ after[t] \in {NoCall, NoteSummary} /\ calls[t].op \in {"idle", "summary"}
           /\ \E t \in Slots : after[t] = NoteSummary
<1>1. /\ Supersedes(calls) \in [Slots -> Calls]
      /\ \A t \in Slots : Supersedes(calls)[t] = IF calls[t].op = "summary" THEN NoCall ELSE calls[t]
    BY AbortedCalls DEF Supersedes
<1>2. NoteSummary \in Calls
    BY DEF NoteSummary, Calls, SummaryCalls, Answers
<1>3. after \in [Slots -> Calls]
    BY <1>1, <1>2, CallBegun
<1>4. PICK n \in Slots : /\ Supersedes(calls)[n].op = "idle" /\ after[n] = NoteSummary
                         /\ \A t \in Slots \ {n} : after[t] = Supersedes(calls)[t]
    <2> DEFINE old == Supersedes(calls)
    <2>1. old \in [Slots -> Calls] /\ Free(old) # {}
        BY <1>1
    <2>2. after = Begin(old, NoteSummary)
        OBVIOUS
    <2> HIDE DEF old
    <2>3. \E n \in Slots : /\ old[n].op = "idle" /\ Begin(old, NoteSummary)[n] = NoteSummary
                           /\ \A t \in Slots \ {n} : Begin(old, NoteSummary)[t] = old[t]
        BY <1>2, <2>1, CallBegun
    <2> QED BY <2>2, <2>3 DEF old
<1>5. \A t \in Slots : \/ after[t] = calls[t] /\ calls[t].op # "summary"
                       \/ after[t] \in {NoCall, NoteSummary} /\ calls[t].op \in {"idle", "summary"}
    BY <1>1, <1>4 DEF NoCall
<1> QED BY <1>3, <1>4, <1>5

\* A reader of something else: what was on its way for it is aborted, a confirmation goes on.
LEMMA SelectedCalls ==
    ASSUME NEW calls \in [Slots -> Calls], NEW next
    PROVE  /\ LeftCalls(calls, next) \in [Slots -> Calls]
           /\ \A s \in Slots :
                 /\ calls[s].op = "acknowledge" => LeftCalls(calls, next)[s] = LeftBehind(calls[s], next)
                 /\ calls[s].op \in {"idle", "summary"} => LeftCalls(calls, next)[s] = calls[s]
                 /\ calls[s].op \in {"read", "check"} => LeftCalls(calls, next)[s] = NoCall
<1>1. ASSUME NEW s \in Slots
      PROVE  /\ LeftCalls(calls, next)[s] \in Calls
             /\ calls[s].op = "acknowledge" => LeftCalls(calls, next)[s] = LeftBehind(calls[s], next)
             /\ calls[s].op \in {"idle", "summary"} => LeftCalls(calls, next)[s] = calls[s]
             /\ calls[s].op \in {"read", "check"} => LeftCalls(calls, next)[s] = NoCall
    <2>1. calls[s].op = "acknowledge" => LeftBehind(calls[s], next) \in Calls
        BY CallShapes, LeftCall DEF Calls
    <2> QED BY <2>1, AbortedCalls DEF LeftCalls
<1>2. LeftCalls(calls, next) \in [Slots -> Calls]
    BY <1>1 DEF LeftCalls
<1> QED BY <1>1, <1>2

-----------------------------------------------------------------------------
(* The shape is kept *)

LEMMA SummaryOfWallType ==
    ASSUME ReaderTypeInv
    PROVE  SummaryOfWall \in Summaries
<1> DEFINE active == {p \in Notes : wall[p].status = "active"}
           offered == {p \in active : ~Acked(p) \/ p \in Important}
           first == IF offered \cap Important # {} THEN offered \cap Important ELSE offered
           item == CHOOSE p \in first : TRUE
<1>0. first # {} => item \in first
    OBVIOUS
<1>1. first \subseteq Notes
    OBVIOUS
<1>3. SummaryOfWall = [item |-> IF first = {} THEN None
                                ELSE [id |-> item, reminder |-> wall[item].reminder, acknowledged |-> Acked(item)],
                       ends |-> active \cap Timed # {}]
    BY DEF SummaryOfWall
<1> HIDE DEF item, first
<1>2. first # {} => [id |-> item, reminder |-> wall[item].reminder, acknowledged |-> Acked(item)] \in Items
    BY <1>0, <1>1 DEF ReaderTypeInv, NoteRow, Items, Acked
<1> QED BY <1>2, <1>3 DEF Summaries

LEMMA NoteOfType ==
    ASSUME ReaderTypeInv, NEW p \in Notes
    PROVE  NoteOf(p) \in Shown
BY DEF NoteOf, ReaderTypeInv, NoteRow, Shown, Acked

\* The calls after an answer of the backend.
LEMMA AnswerKeepsType ==
    ASSUME ReaderTypeInv, NEW s \in Slots, ServeNote(s) \/ RefuseNote(s) \/ LoseNoteAnswer(s)
    PROVE  /\ noteCalls[s] \in Calls /\ noteCalls[s].op # "idle"
           /\ \E answer :
                 /\ noteCalls' = [noteCalls EXCEPT ![s].answer = answer]
                 /\ \/ answer = Lost \/ answer = Refused("unavailable")
                    \/ noteCalls[s].op = "summary" /\ answer = Ok(SummaryOfWall)
                    \/ noteCalls[s].op = "read" /\ noteCalls[s].id = "all" /\ answer = Ok(Readable)
                    \/ noteCalls[s].op \in {"read", "check"} /\ noteCalls[s].id \in Readable
                       /\ answer = Ok(NoteOf(noteCalls[s].id))
                    \/ noteCalls[s].op = "acknowledge" /\ answer = Ok(None)
           /\ UNCHANGED <<wall, reader, strip, reachable, noteSteps, seen, told>>
<1>1. noteCalls[s] \in Calls
    BY DEF ReaderTypeInv
<1>2. CASE ServeNote(s)
    BY <1>1, <1>2 DEF ServeNote, TellNote, Busy
<1>3. CASE RefuseNote(s)
    BY <1>1, <1>3 DEF RefuseNote, TellNote, Busy
<1>4. CASE LoseNoteAnswer(s)
    BY <1>1, <1>4 DEF LoseNoteAnswer, LoseAnswer, Busy
<1> QED BY <1>2, <1>3, <1>4

LEMMA TypeOfAnswer ==
    ASSUME ReaderTypeInv, NEW s \in Slots, ServeNote(s) \/ RefuseNote(s) \/ LoseNoteAnswer(s)
    PROVE  ReaderTypeInv'
<1>1. PICK answer : /\ noteCalls' = [noteCalls EXCEPT ![s].answer = answer]
                    /\ \/ answer = Lost \/ answer = Refused("unavailable")
                       \/ noteCalls[s].op = "summary" /\ answer = Ok(SummaryOfWall)
                       \/ noteCalls[s].op = "read" /\ noteCalls[s].id = "all" /\ answer = Ok(Readable)
                       \/ noteCalls[s].op \in {"read", "check"} /\ noteCalls[s].id \in Readable
                          /\ answer = Ok(NoteOf(noteCalls[s].id))
                       \/ noteCalls[s].op = "acknowledge" /\ answer = Ok(None)
    BY AnswerKeepsType
<1>2. noteCalls[s] \in Calls /\ noteCalls[s].op # "idle"
    BY AnswerKeepsType
<1>3. UNCHANGED <<wall, atNote, data, acking>>
    BY AnswerKeepsType DEF reader
<1>4. Readable \in SUBSET Notes /\ \A p \in Notes : NoteOf(p) \in Shown
    BY NoteOfType DEF Readable
<1>5. [noteCalls[s] EXCEPT !.answer = answer] \in Calls
    <2>1. CASE answer = Lost \/ answer = Refused("unavailable")
        BY <1>2, <2>1, Retold
    <2>2. CASE noteCalls[s].op = "summary" /\ answer = Ok(SummaryOfWall)
        <3>1. answer \in Answers(Summaries)
            BY <2>2, SummaryOfWallType DEF Answers
        <3> QED BY <1>2, <2>2, <3>1, Retold
    <2>3. CASE noteCalls[s].op = "read" /\ noteCalls[s].id = "all" /\ answer = Ok(Readable)
        <3>1. answer \in Answers(Shown \cup SUBSET Notes)
            BY <1>4, <2>3 DEF Answers
        <3> QED BY <1>2, <2>3, <3>1, Retold
    <2>4. CASE /\ noteCalls[s].op \in {"read", "check"} /\ noteCalls[s].id \in Readable
               /\ answer = Ok(NoteOf(noteCalls[s].id))
        <3>1. answer \in Answers(Shown) /\ answer \in Answers(Shown \cup SUBSET Notes)
            BY <1>4, <2>4 DEF Answers
        <3> QED BY <1>2, <2>4, <3>1, Retold
    <2>5. CASE noteCalls[s].op = "acknowledge" /\ answer = Ok(None)
        <3>1. answer \in Answers({None})
            BY <2>5 DEF Answers
        <3> QED BY <1>2, <2>5, <3>1, Retold
    <2> QED BY <1>1, <2>1, <2>2, <2>3, <2>4, <2>5
<1>6. noteCalls' \in [Slots -> Calls]
    BY <1>1, <1>5 DEF ReaderTypeInv
<1> QED BY <1>3, <1>6 DEF ReaderTypeInv

LEMMA TypeOfStrip ==
    ASSUME ReaderTypeInv,
           Wake \/ MinutePasses \/ BoundaryPasses \/ RetrySummary \/ (\E s \in Slots : LandSummary(s))
    PROVE  ReaderTypeInv'
<1>1. UNCHANGED <<wall, atNote, data, acking>>
    BY DEF Wake, MinutePasses, BoundaryPasses, RetrySummary, LandSummary, Beside, reader
<1>2. ASSUME Free(Supersedes(noteCalls)) # {}, noteCalls' = Begin(Supersedes(noteCalls), NoteSummary)
      PROVE  noteCalls' \in [Slots -> Calls]
    BY <1>2, SummaryBegun DEF ReaderTypeInv
<1>3. noteCalls' \in [Slots -> Calls]
    BY <1>2, EndedCalls
       DEF Wake, MinutePasses, BoundaryPasses, RetrySummary, LandSummary, LoadSummary, ReaderTypeInv
<1> QED BY <1>1, <1>3 DEF ReaderTypeInv

LEMMA TypeOfWall ==
    ASSUME ReaderTypeInv, NEW p \in Notes,
           EditNote(p) \/ RemindAgain(p) \/ WithdrawNote(p) \/ NoteEnds(p)
    PROVE  ReaderTypeInv'
<1>1. UNCHANGED <<atNote, data, acking, noteCalls>>
    BY DEF EditNote, RemindAgain, WithdrawNote, NoteEnds, ChangeNote, reader
<1>2. wall[p] \in NoteRow
    BY DEF ReaderTypeInv
<1>3. ASSUME NEW r \in NoteRow
      PROVE  /\ [r EXCEPT !.version = @ + 1] \in NoteRow
             /\ [r EXCEPT !.version = @ + 1, !.reminder = @ + 1] \in NoteRow
             /\ [r EXCEPT !.version = @ + 1, !.status = "withdrawn"] \in NoteRow
             /\ [r EXCEPT !.status = "ended"] \in NoteRow
    <2>1. r.version + 1 \in Nat /\ r.reminder + 1 \in Nat
        BY DEF NoteRow
    <2>2. \A n, m \in Nat : /\ [r EXCEPT !.version = n] \in NoteRow
                            /\ [r EXCEPT !.version = n, !.reminder = m] \in NoteRow
                            /\ [r EXCEPT !.version = n, !.status = "withdrawn"] \in NoteRow
                            /\ [r EXCEPT !.status = "ended"] \in NoteRow
        BY DEF NoteRow
    <2>3. /\ [r EXCEPT !.version = @ + 1] = [r EXCEPT !.version = r.version + 1]
          /\ [r EXCEPT !.version = @ + 1, !.reminder = @ + 1]
                 = [r EXCEPT !.version = r.version + 1, !.reminder = r.reminder + 1]
          /\ [r EXCEPT !.version = @ + 1, !.status = "withdrawn"]
                 = [r EXCEPT !.version = r.version + 1, !.status = "withdrawn"]
        BY DEF NoteRow
    <2> QED BY <2>1, <2>2, <2>3
<1>4. \E next \in NoteRow : wall' = [wall EXCEPT ![p] = next]
    BY <1>2, <1>3 DEF EditNote, RemindAgain, WithdrawNote, NoteEnds, ChangeNote
<1>5. wall' \in [Notes -> NoteRow]
    BY <1>4 DEF ReaderTypeInv
<1> QED BY <1>1, <1>5 DEF ReaderTypeInv

LEMMA TypeOfSelect ==
    ASSUME ReaderTypeInv, NEW next \in Notes \cup {None, "all"}, SelectNote(next)
    PROVE  ReaderTypeInv'
<1> DEFINE others == LeftCalls(noteCalls, next)
<1>1. /\ Free(others) # {}
      /\ atNote' = next /\ data' = None /\ acking' = (acking /\ next # None)
      /\ noteCalls' = IF next = None THEN others ELSE Begin(others, ReadOf(next))
      /\ wall' = wall
    BY DEF SelectNote, Select, Outside
<1>2. others \in [Slots -> Calls]
    BY SelectedCalls DEF ReaderTypeInv
<1> HIDE DEF others
<1>3. ReadOf(next) \in Calls
    BY DEF ReadOf, Calls, ReadCalls, Answers
<1>4. noteCalls' \in [Slots -> Calls]
    BY <1>1, <1>2, <1>3, CallBegun
<1> QED BY <1>1, <1>4 DEF ReaderTypeInv

LEMMA TypeOfReader ==
    ASSUME ReaderTypeInv, ReloadNote \/ CheckNote \/ Acknowledge
    PROVE  ReaderTypeInv'
<1>1. UNCHANGED <<wall, atNote, data>> /\ acking' \in BOOLEAN
    BY DEF ReloadNote, CheckNote, Acknowledge, Outside, reader, ReaderTypeInv
<1>2. \E call \in Calls : Free(noteCalls) # {} /\ noteCalls' = Begin(noteCalls, call)
    <2>1. CASE ReloadNote
        <3>1. ReadOf(atNote) \in Calls
            BY DEF ReaderTypeInv, ReadOf, Calls, ReadCalls, Answers
        <3> QED BY <2>1, <3>1 DEF ReloadNote
    <2>2. CASE CheckNote
        <3>1. data \in Shown
            BY <2>2 DEF CheckNote, ReaderTypeInv
        <3>2. [op |-> "check", id |-> data.id, answer |-> Unanswered] \in Calls
            BY <3>1 DEF Shown, Calls, CheckCalls, Answers
        <3> QED BY <2>2, <3>2 DEF CheckNote
    <2>3. CASE Acknowledge
        <3>1. data \in Shown
            BY <2>3 DEF Acknowledge, MayAcknowledge, ReaderTypeInv
        <3>2. [op |-> "acknowledge", shown |-> data, left |-> FALSE, closed |-> FALSE,
               answer |-> Unanswered] \in Calls
            BY <3>1 DEF Calls, AckCalls, Answers
        <3> QED BY <2>3, <3>2 DEF Acknowledge
    <2> QED BY <2>1, <2>2, <2>3
<1>3. noteCalls' \in [Slots -> Calls]
    BY <1>2, CallBegun DEF ReaderTypeInv
<1> QED BY <1>1, <1>3 DEF ReaderTypeInv

\* What a confirmation that is answered leaves of the calls.
LEMMA LandedAck ==
    ASSUME ReaderTypeInv, NEW s \in Slots, LandAcknowledge(s)
    PROVE  LET call == noteCalls[s] IN
           /\ call \in AckCalls
           /\ noteCalls' \in [Slots -> Calls] /\ noteCalls'[s] \in {NoCall, NoteSummary}
           /\ \A t \in Slots : \/ noteCalls'[t] = noteCalls[t]
                               \/ /\ t = s \/ noteCalls[t].op \in {"idle", "check", "summary"}
                                  /\ noteCalls'[t] \in {NoCall, NoteSummary}
           /\ acking' = (acking /\ call.closed)
           /\ UNCHANGED <<wall, acks, seen, atNote>>
           /\ \/ data' = data
              \/ ~call.left /\ Succeeds(call) /\ data' = [call.shown EXCEPT !.acknowledged = TRUE]
           /\ \/ /\ UNCHANGED <<told, summary>> /\ (stripError' = stripError)
                 /\ \A t \in Slots : noteCalls[t].op = "summary" => noteCalls'[t] = noteCalls[t]
              \/ /\ \E t \in Slots : noteCalls'[t].op = "summary"
                 /\ \A t \in Slots : noteCalls'[t].op = "summary" => noteCalls'[t] = NoteSummary
                 /\ Succeeds(call) /\ told' = told \cup {<<call.shown.id, call.shown.reminder>>}
<1> DEFINE call == noteCalls[s]
           calls == End(noteCalls, s)
           checked == Aborted(calls, {"check"})
<1>1. call \in AckCalls
    BY CallShapes DEF LandAcknowledge, ReaderTypeInv
<1>2. /\ calls \in [Slots -> Calls] /\ \A t \in Slots : calls[t] = IF t = s THEN NoCall ELSE noteCalls[t]
      /\ checked \in [Slots -> Calls]
      /\ \A t \in Slots : checked[t] = IF calls[t].op = "check" THEN NoCall ELSE calls[t]
    BY EndedCalls, AbortedCalls DEF ReaderTypeInv
<1>3. /\ acking' = (acking /\ call.closed)
      /\ UNCHANGED <<wall, acks, seen, atNote>>
    BY DEF LandAcknowledge
<1>4. \/ /\ noteCalls' \in {calls, checked} /\ UNCHANGED <<told, summary, stripError>>
         /\ \/ data' = data
            \/ ~call.left /\ Succeeds(call) /\ data' = [call.shown EXCEPT !.acknowledged = TRUE]
      \/ /\ ~call.left /\ Succeeds(call) /\ data' = [call.shown EXCEPT !.acknowledged = TRUE]
         /\ Free(Supersedes(checked)) # {} /\ noteCalls' = Begin(Supersedes(checked), NoteSummary)
         /\ told' = told \cup {<<call.shown.id, call.shown.reminder>>}
    BY DEF LandAcknowledge, LoadSummary, SamePage, strip
<1> HIDE DEF checked, calls
<1>5. CASE noteCalls' \in {calls, checked} /\ UNCHANGED <<told, summary, stripError>>
    <2>1. /\ noteCalls' \in [Slots -> Calls]
          /\ \A t \in Slots : \/ noteCalls'[t] = noteCalls[t]
                              \/ (t = s \/ noteCalls[t].op = "check") /\ noteCalls'[t] = NoCall
          /\ noteCalls'[s] = NoCall
        BY <1>2, <1>5 DEF NoCall
    <2>2. \A t \in Slots : noteCalls[t].op = "summary" => noteCalls'[t] = noteCalls[t]
        BY <1>1, <2>1 DEF AckCalls
    <2>3. \/ data' = data
          \/ ~call.left /\ Succeeds(call) /\ data' = [call.shown EXCEPT !.acknowledged = TRUE]
        BY <1>4
    <2> QED BY <1>1, <1>3, <1>5, <2>1, <2>2, <2>3
<1>6. CASE /\ ~call.left /\ Succeeds(call) /\ data' = [call.shown EXCEPT !.acknowledged = TRUE]
           /\ Free(Supersedes(checked)) # {} /\ noteCalls' = Begin(Supersedes(checked), NoteSummary)
           /\ told' = told \cup {<<call.shown.id, call.shown.reminder>>}
    <2>1. /\ noteCalls' \in [Slots -> Calls]
          /\ \A t \in Slots : \/ noteCalls'[t] = checked[t] /\ checked[t].op # "summary"
                              \/ /\ noteCalls'[t] \in {NoCall, NoteSummary}
                                 /\ checked[t].op \in {"idle", "summary"}
          /\ \E t \in Slots : noteCalls'[t] = NoteSummary
        BY <1>2, <1>6, SummaryBegun
    <2>2. checked[s] = NoCall /\ noteCalls'[s] \in {NoCall, NoteSummary}
        BY <1>2, <2>1 DEF NoCall
    <2>3. \A t \in Slots : \/ noteCalls'[t] = noteCalls[t]
                           \/ /\ t = s \/ noteCalls[t].op \in {"idle", "check", "summary"}
                              /\ noteCalls'[t] \in {NoCall, NoteSummary}
        BY <1>2, <2>1 DEF NoCall
    <2>4. /\ \E t \in Slots : noteCalls'[t].op = "summary"
          /\ \A t \in Slots : noteCalls'[t].op = "summary" => noteCalls'[t] = NoteSummary
        BY <2>1 DEF NoCall, NoteSummary
    <2> QED BY <1>1, <1>3, <1>6, <2>1, <2>2, <2>3, <2>4
<1> QED BY <1>4, <1>5, <1>6

\* A text or a list that is answered: what was shown before is forgotten with its check.
LEMMA LandedRead ==
    ASSUME ReaderTypeInv, CallsAreSound, NEW s \in Slots, LandRead(s)
    PROVE  LET call == noteCalls[s] IN
           /\ noteCalls' \in [Slots -> Calls] /\ noteCalls'[s] = NoCall /\ call.op = "read"
           /\ \A t \in Slots : \/ noteCalls'[t] = noteCalls[t]
                               \/ /\ t = s \/ noteCalls[t].op = "check"
                                  /\ noteCalls'[t] = NoCall
           /\ UNCHANGED <<wall, acks, strip, told, atNote, acking>>
           /\ \/ data' \in {None, data} /\ seen' = seen
              \/ /\ data' = call.answer.body /\ Succeeds(call) /\ call.id # "all"
                 /\ call.answer.body \in Shown /\ call.answer.body.id = atNote
                 /\ call.answer.body.acknowledged => Confirmed(call.answer.body)
                 /\ seen' = seen \cup {<<call.answer.body.id, call.answer.body.version>>}
<1> DEFINE call == noteCalls[s]
<1>1. /\ End(noteCalls, s) \in [Slots -> Calls]
      /\ \A t \in Slots : End(noteCalls, s)[t] = IF t = s THEN NoCall ELSE noteCalls[t]
      /\ noteCalls' = Aborted(End(noteCalls, s), {"check"})
    BY EndedCalls DEF LandRead, ReaderTypeInv
<1>2. /\ noteCalls' \in [Slots -> Calls]
      /\ \A t \in Slots : noteCalls'[t] = IF End(noteCalls, s)[t].op = "check" THEN NoCall
                                          ELSE End(noteCalls, s)[t]
    BY <1>1, AbortedCalls
<1>3. /\ call.op = "read"
      /\ UNCHANGED <<wall, acks, strip, told, atNote, acking>>
      /\ \/ data' \in {None, data} /\ seen' = seen
         \/ /\ data' = call.answer.body /\ Succeeds(call) /\ call.id # "all"
            /\ seen' = seen \cup {<<call.answer.body.id, call.answer.body.version>>}
    <2>1. CASE ~Succeeds(call)
        BY <2>1 DEF LandRead
    <2>2. CASE Succeeds(call) /\ call.id = "all"
        BY <2>2 DEF LandRead
    <2>3. CASE Succeeds(call) /\ call.id # "all"
        BY <2>3 DEF LandRead
    <2> QED BY <2>1, <2>2, <2>3
<1>4. ReadIsSound(call)
    BY <1>3 DEF CallsAreSound, CallIsSound
<1>5. \A t \in Slots : \/ noteCalls'[t] = noteCalls[t]
                       \/ (t = s \/ noteCalls[t].op = "check") /\ noteCalls'[t] = NoCall
    BY <1>1, <1>2
<1>6. noteCalls'[s] = NoCall
    BY <1>1, <1>2 DEF NoCall
<1> QED BY <1>2, <1>3, <1>4, <1>5, <1>6 DEF ReadIsSound

LEMMA TypeOfLanding ==
    ASSUME ReaderTypeInv, CallsAreSound, NEW s \in Slots,
           LandRead(s) \/ LandNoteCheck(s) \/ LandAcknowledge(s)
    PROVE  ReaderTypeInv'
<1>1. CASE LandRead(s)
    BY <1>1, LandedRead DEF ReaderTypeInv
<1>2. CASE LandNoteCheck(s)
    BY <1>2, EndedCalls DEF LandNoteCheck, Outside, ReaderTypeInv
<1>3. CASE LandAcknowledge(s)
    <2>1. noteCalls[s] \in AckCalls
        BY <1>3, LandedAck
    <2>2. [noteCalls[s].shown EXCEPT !.acknowledged = TRUE] \in Shown
        BY <2>1 DEF AckCalls, Shown
    <2>3. data' \in Shown \cup {None} /\ UNCHANGED <<wall, atNote>> /\ noteCalls' \in [Slots -> Calls]
        BY <1>3, <2>2, LandedAck DEF ReaderTypeInv
    <2>4. acking' \in BOOLEAN
        BY <1>3, LandedAck
    <2> QED BY <2>3, <2>4 DEF ReaderTypeInv
<1> QED BY <1>1, <1>2, <1>3

LEMMA ReaderTypeStep == ReaderTypeInv /\ CallsAreSound /\ [ReaderNext]_readerVars => ReaderTypeInv'
<1> SUFFICES ASSUME ReaderTypeInv, CallsAreSound, [ReaderNext]_readerVars PROVE ReaderTypeInv'
    OBVIOUS
<1>1. CASE Wake \/ MinutePasses \/ BoundaryPasses \/ RetrySummary \/ (\E s \in Slots : LandSummary(s))
    BY <1>1, TypeOfStrip
<1>2. CASE \E next \in Notes \cup {None, "all"} : SelectNote(next)
    BY <1>2, TypeOfSelect
<1>3. CASE ReloadNote \/ CheckNote \/ Acknowledge
    BY <1>3, TypeOfReader
<1>4. CASE \E s \in Slots : LandRead(s) \/ LandNoteCheck(s) \/ LandAcknowledge(s)
    BY <1>4, TypeOfLanding
<1>5. CASE \E s \in Slots : NoteAnswer(s)
    BY <1>5, TypeOfAnswer DEF NoteAnswer
<1>6. CASE \E p \in Notes : EditNote(p) \/ RemindAgain(p) \/ WithdrawNote(p) \/ NoteEnds(p)
    BY <1>6, TypeOfWall
<1>7. CASE GoOffline \/ GoOnline \/ UNCHANGED readerVars
    BY <1>7 DEF GoOffline, GoOnline, readerVars, reader, ReaderTypeInv
<1> QED BY <1>1, <1>2, <1>3, <1>4, <1>5, <1>6, <1>7 DEF ReaderNext, LandNote

-----------------------------------------------------------------------------
(* What the calls and the reader know stays so *)

LEMMA KeptCall ==
    ASSUME NEW call, CallIsSound(call), acks \subseteq acks', seen \subseteq seen',
           told' = told \/ call.op # "summary",
           atNote' = atNote \/ call.op \notin {"read", "acknowledge"}
    PROVE  CallIsSound(call)'
<1>1. Succeeds(call)' <=> Succeeds(call)
    BY DEF Succeeds
<1>2. CASE call.op = "read"
    BY <1>1, <1>2 DEF CallIsSound, ReadIsSound, Confirmed
<1>3. CASE call.op = "summary"
    BY <1>1, <1>3 DEF CallIsSound, NotTold
<1>4. CASE call.op = "acknowledge"
    BY <1>1, <1>4 DEF CallIsSound, AckIsSound, Confirmed
<1>5. CASE call.op \notin {"read", "summary", "acknowledge"}
    BY <1>5 DEF CallIsSound
<1> QED BY <1>2, <1>3, <1>4, <1>5

LEMMA FreshCall ==
    ASSUME NEW call \in {NoCall, NoteSummary}
    PROVE  CallIsSound(call)'
BY DEF CallIsSound, NoCall, NoteSummary, Succeeds, Unanswered

\* What does not touch the reader keeps what it shows.
LEMMA ReaderKept ==
    ASSUME SoundInv, UNCHANGED <<atNote, data, told, seen>>, acks \subseteq acks'
    PROVE  (ReaderIsOfSelection /\ ShownWasSeen /\ ToldIsConfirmed)'
BY DEF SoundInv, ReaderIsOfSelection, ShownWasSeen, ToldIsConfirmed

\* Each call is an earlier one, or a new one that has no answer yet.
LEMMA CallsKept ==
    ASSUME SoundInv, UNCHANGED <<atNote, told>>, acks \subseteq acks', seen \subseteq seen',
           \A t \in Slots : noteCalls'[t] = noteCalls[t] \/ noteCalls'[t] \in {NoCall, NoteSummary}
    PROVE  CallsAreSound'
<1> SUFFICES ASSUME NEW t \in Slots PROVE CallIsSound(noteCalls[t])'
    BY DEF CallsAreSound
<1>1. \A call : CallIsSound(call) => CallIsSound(call)'
    BY KeptCall
<1>2. CASE noteCalls'[t] = noteCalls[t]
    <2>1. CallIsSound(noteCalls[t])
        BY DEF SoundInv, CallsAreSound
    <2>2. PICK c : c = noteCalls[t]
        OBVIOUS
    <2>3. CallIsSound(c)'
        BY <1>1, <2>1, <2>2
    <2> QED BY <1>2, <2>2, <2>3
<1>3. CASE noteCalls'[t] \in {NoCall, NoteSummary}
    <2>1. PICK c : c = noteCalls'[t]
        OBVIOUS
    <2>2. CallIsSound(c)'
        BY <1>3, <2>1, FreshCall
    <2> QED BY <2>1, <2>2
<1> QED BY <1>2, <1>3

LEMMA SoundOfStrip ==
    ASSUME ReaderTypeInv, SoundInv,
           Wake \/ MinutePasses \/ BoundaryPasses \/ RetrySummary \/ (\E s \in Slots : LandSummary(s))
    PROVE  SoundInv'
<1>1. UNCHANGED <<acks, atNote, data, told, seen>>
    BY DEF Wake, MinutePasses, BoundaryPasses, RetrySummary, LandSummary, Beside, reader
<1>2. ASSUME Free(Supersedes(noteCalls)) # {}, noteCalls' = Begin(Supersedes(noteCalls), NoteSummary)
      PROVE  \A t \in Slots : noteCalls'[t] = noteCalls[t] \/ noteCalls'[t] \in {NoCall, NoteSummary}
    BY <1>2, SummaryBegun DEF ReaderTypeInv
<1>3. \A t \in Slots : noteCalls'[t] = noteCalls[t] \/ noteCalls'[t] \in {NoCall, NoteSummary}
    BY <1>2, EndedCalls
       DEF Wake, MinutePasses, BoundaryPasses, RetrySummary, LandSummary, LoadSummary, ReaderTypeInv
<1> QED BY <1>1, <1>3, CallsKept, ReaderKept DEF SoundInv

LEMMA SoundOfSelect ==
    ASSUME ReaderTypeInv, SoundInv, NEW next \in Notes \cup {None, "all"}, SelectNote(next)
    PROVE  SoundInv'
<1> DEFINE others == LeftCalls(noteCalls, next)
<1>1. /\ Free(others) # {}
      /\ atNote' = next /\ data' = None
      /\ noteCalls' = IF next = None THEN others ELSE Begin(others, ReadOf(next))
      /\ UNCHANGED <<acks, told, seen>>
    BY DEF SelectNote, Select, Outside
<1>2. /\ others \in [Slots -> Calls]
      /\ \A s \in Slots :
            /\ noteCalls[s].op = "acknowledge" => others[s] = LeftBehind(noteCalls[s], next)
            /\ noteCalls[s].op \in {"idle", "summary"} => others[s] = noteCalls[s]
            /\ noteCalls[s].op \in {"read", "check"} => others[s] = NoCall
    BY SelectedCalls DEF ReaderTypeInv
<1> HIDE DEF others
<1>3. ReadOf(next) \in Calls
    BY DEF ReadOf, Calls, ReadCalls, Answers
<1>4. \A t \in Slots : noteCalls'[t] = others[t] \/ noteCalls'[t] = ReadOf(next)
    <2>1. CASE next = None
        BY <1>1, <2>1
    <2>2. CASE next # None
        <3>0. others \in [Slots -> Calls] /\ Free(others) # {}
            BY <1>1, <1>2
        <3>1. \A t \in Slots : \/ Begin(others, ReadOf(next))[t] = others[t]
                              \/ Begin(others, ReadOf(next))[t] = ReadOf(next)
            BY <1>3, <3>0, CallBegun
        <3> QED BY <1>1, <2>2, <3>1
    <2> QED BY <2>1, <2>2
<1>5. ASSUME NEW call, call = ReadOf(next) PROVE CallIsSound(call)'
    BY <1>1, <1>5 DEF ReadOf, CallIsSound, ReadIsSound, Succeeds, Unanswered
<1>6. ASSUME NEW t \in Slots, NEW call, call = others[t] PROVE CallIsSound(call)'
    <2>0. noteCalls[t] \in Calls /\ CallIsSound(noteCalls[t])
        BY DEF ReaderTypeInv, SoundInv, CallsAreSound
    <2>1. CASE noteCalls[t].op = "acknowledge"
        <3>1. noteCalls[t] \in AckCalls
            BY <2>0, <2>1, CallShapes
        <3>2. /\ call \in AckCalls /\ call.shown = noteCalls[t].shown
              /\ call.answer = noteCalls[t].answer /\ call.left
            BY <1>2, <1>6, <2>1, <3>1, LeftCall
        <3>3. AckIsSound(noteCalls[t])
            BY <2>0, <2>1 DEF CallIsSound
        <3>4. AckIsSound(call)'
            BY <1>1, <3>2, <3>3 DEF AckIsSound, Confirmed, Succeeds
        <3>5. call.op = "acknowledge"
            BY <3>2 DEF AckCalls
        <3> QED BY <3>4, <3>5 DEF CallIsSound
    <2>2. CASE noteCalls[t].op \in {"idle", "summary"}
        <3>1. call = noteCalls[t] /\ call.op \notin {"read", "acknowledge"}
            BY <1>2, <1>6, <2>2
        <3>2. CallIsSound(call)
            BY <2>0, <3>1
        <3> QED BY <1>1, <3>1, <3>2, KeptCall
    <2>3. CASE noteCalls[t].op \in {"read", "check"}
        BY <1>2, <1>6, <2>3, FreshCall
    <2> QED BY <2>0, <2>1, <2>2, <2>3, CallShapes
<1>7. CallsAreSound'
    <2> SUFFICES ASSUME NEW t \in Slots PROVE CallIsSound(noteCalls[t])'
        BY DEF CallsAreSound
    <2>1. PICK call : call = noteCalls'[t]
        OBVIOUS
    <2>2. CallIsSound(call)'
        BY <1>4, <1>5, <1>6, <2>1
    <2> QED BY <2>1, <2>2
<1> QED BY <1>1, <1>7 DEF SoundInv, ReaderIsOfSelection, ShownWasSeen, ToldIsConfirmed

LEMMA SoundOfReader ==
    ASSUME ReaderTypeInv, SoundInv, ReloadNote \/ CheckNote \/ Acknowledge
    PROVE  SoundInv'
<1>1. UNCHANGED <<acks, atNote, data, told, seen>>
    BY DEF ReloadNote, CheckNote, Acknowledge, Outside, reader
<1>2. \E call \in Calls : /\ Free(noteCalls) # {} /\ noteCalls' = Begin(noteCalls, call)
                          /\ CallIsSound(call)'
    <2>1. CASE ReloadNote
        <3>1. ReadOf(atNote) \in Calls
            BY DEF ReaderTypeInv, ReadOf, Calls, ReadCalls, Answers
        <3>2. PICK call : call = ReadOf(atNote)
            OBVIOUS
        <3>3. CallIsSound(call)'
            BY <1>1, <3>2 DEF ReadOf, CallIsSound, ReadIsSound, Succeeds, Unanswered
        <3> QED BY <2>1, <3>1, <3>2, <3>3 DEF ReloadNote
    <2>2. CASE CheckNote
        <3>1. data \in Shown
            BY <2>2 DEF CheckNote, ReaderTypeInv
        <3>2. PICK call : call = [op |-> "check", id |-> data.id, answer |-> Unanswered]
            OBVIOUS
        <3>3. call \in Calls
            BY <3>1, <3>2 DEF Shown, Calls, CheckCalls, Answers
        <3>4. CallIsSound(call)'
            BY <3>2 DEF CallIsSound
        <3> QED BY <2>2, <3>2, <3>3, <3>4 DEF CheckNote
    <2>3. CASE Acknowledge
        <3>1. data \in Shown /\ data # None
            BY <2>3 DEF Acknowledge, MayAcknowledge, ReaderTypeInv
        <3>2. PICK call : call = [op |-> "acknowledge", shown |-> data, left |-> FALSE, closed |-> FALSE,
                                  answer |-> Unanswered]
            OBVIOUS
        <3>3. call \in Calls
            BY <3>1, <3>2 DEF Calls, AckCalls, Answers
        <3>4. <<data.id, data.version>> \in seen /\ data.id = atNote
            BY <3>1 DEF SoundInv, ShownWasSeen, ReaderIsOfSelection
        <3>5. CallIsSound(call)'
            BY <1>1, <3>2, <3>4 DEF CallIsSound, AckIsSound, Succeeds, Unanswered
        <3> QED BY <2>3, <3>2, <3>3, <3>5 DEF Acknowledge
    <2> QED BY <2>1, <2>2, <2>3
<1>3. PICK call \in Calls : /\ Free(noteCalls) # {} /\ noteCalls' = Begin(noteCalls, call)
                            /\ CallIsSound(call)'
    BY <1>2
<1>4. \A t \in Slots : noteCalls'[t] = noteCalls[t] \/ noteCalls'[t] = call
    <2>1. noteCalls \in [Slots -> Calls]
        BY DEF ReaderTypeInv
    <2>2. \A t \in Slots : Begin(noteCalls, call)[t] = noteCalls[t] \/ Begin(noteCalls, call)[t] = call
        BY <1>3, <2>1, CallBegun, Zenon
    <2> QED BY <1>3, <2>2
<1>5. CallsAreSound'
    <2> SUFFICES ASSUME NEW t \in Slots PROVE CallIsSound(noteCalls[t])'
        BY DEF CallsAreSound
    <2>1. PICK c : c = noteCalls'[t]
        OBVIOUS
    <2>2. CASE c = call
        BY <1>3, <2>1, <2>2
    <2>3. CASE c = noteCalls[t]
        <3>1. CallIsSound(c)
            BY <2>3 DEF SoundInv, CallsAreSound
        <3>2. CallIsSound(c)'
            BY <1>1, <3>1, KeptCall
        <3> QED BY <2>1, <3>2
    <2> QED BY <1>4, <2>1, <2>2, <2>3
<1> QED BY <1>1, <1>5, ReaderKept DEF SoundInv

LEMMA SoundOfLanding ==
    ASSUME ReaderTypeInv, SoundInv, NEW s \in Slots,
           LandRead(s) \/ LandNoteCheck(s) \/ LandAcknowledge(s)
    PROVE  SoundInv'
<1>0. CallsAreSound /\ ReaderIsOfSelection /\ ShownWasSeen /\ ToldIsConfirmed
    BY DEF SoundInv
<1>1. CASE LandRead(s)
    <2>1. \A t \in Slots : noteCalls'[t] = noteCalls[t] \/ noteCalls'[t] \in {NoCall, NoteSummary}
        BY <1>0, <1>1, LandedRead
    <2>2. UNCHANGED <<acks, told, atNote>> /\ seen \subseteq seen'
        BY <1>0, <1>1, LandedRead
    <2>3. CallsAreSound'
        BY <2>1, <2>2, CallsKept
    <2>4. /\ data' # None => data'.id = atNote' /\ <<data'.id, data'.version>> \in seen'
          /\ data' # None /\ data'.acknowledged => <<data'.id, data'.reminder>> \in acks'
        <3>1. CASE data' \in {None, data} /\ seen' = seen
            BY <1>0, <2>2, <3>1 DEF ReaderIsOfSelection, ShownWasSeen
        <3>2. CASE /\ data' = noteCalls[s].answer.body /\ noteCalls[s].answer.body.id = atNote
                   /\ noteCalls[s].answer.body.acknowledged => Confirmed(noteCalls[s].answer.body)
                   /\ seen' = seen \cup {<<noteCalls[s].answer.body.id, noteCalls[s].answer.body.version>>}
            BY <2>2, <3>2 DEF Confirmed
        <3> QED BY <1>0, <1>1, <3>1, <3>2, LandedRead
    <2> QED BY <1>0, <2>2, <2>3, <2>4 DEF SoundInv, ReaderIsOfSelection, ShownWasSeen, ToldIsConfirmed
<1>2. CASE LandNoteCheck(s)
    <2>1. UNCHANGED <<atNote, data, told, seen, acks>>
        BY <1>2 DEF LandNoteCheck, Outside
    <2>2. \A t \in Slots : noteCalls'[t] = noteCalls[t] \/ noteCalls'[t] \in {NoCall, NoteSummary}
        BY <1>2, EndedCalls DEF LandNoteCheck, ReaderTypeInv
    <2> QED BY <2>1, <2>2, CallsKept, ReaderKept DEF SoundInv
<1>3. CASE LandAcknowledge(s)
    <2> DEFINE call == noteCalls[s]
    <2>1. /\ call \in AckCalls /\ AckIsSound(call)
        BY <1>0, <1>3, LandedAck DEF CallsAreSound, CallIsSound, AckCalls
    <2>2. UNCHANGED <<acks, seen, atNote>>
        BY <1>3, LandedAck
    <2>3. CallsAreSound'
        <3> SUFFICES ASSUME NEW t \in Slots PROVE CallIsSound(noteCalls[t])'
            BY DEF CallsAreSound
        <3>1. PICK c : c = noteCalls'[t]
            OBVIOUS
        <3>2. CASE c \in {NoCall, NoteSummary}
            BY <3>1, <3>2, FreshCall
        <3>3. CASE c = noteCalls[t] /\ c \notin {NoCall, NoteSummary}
            <4>1. CallIsSound(c)
                BY <1>0, <3>3 DEF CallsAreSound
            <4>2. told' = told \/ c.op # "summary"
                BY <1>3, <3>1, <3>3, LandedAck
            <4> QED BY <2>2, <3>1, <4>1, <4>2, KeptCall
        <3> QED BY <1>3, <3>1, <3>2, <3>3, LandedAck
    <2>4. told' \subseteq acks'
        <3>1. \/ told' = told
              \/ Succeeds(call) /\ told' = told \cup {<<call.shown.id, call.shown.reminder>>}
            BY <1>3, LandedAck
        <3>2. Succeeds(call) => <<call.shown.id, call.shown.reminder>> \in acks
            BY <2>1 DEF AckIsSound, Confirmed
        <3> QED BY <1>0, <2>2, <3>1, <3>2 DEF ToldIsConfirmed
    <2>5. (ReaderIsOfSelection /\ ShownWasSeen)'
        <3>1. CASE data' = data
            BY <1>0, <2>2, <3>1 DEF ReaderIsOfSelection, ShownWasSeen
        <3>2. CASE ~call.left /\ Succeeds(call) /\ data' = [call.shown EXCEPT !.acknowledged = TRUE]
            <4>1. /\ data'.id = call.shown.id /\ data'.version = call.shown.version
                  /\ data'.reminder = call.shown.reminder
                BY <2>1, <3>2 DEF AckCalls, Shown
            <4>2. /\ <<call.shown.id, call.shown.version>> \in seen /\ call.shown.id = atNote
                  /\ <<call.shown.id, call.shown.reminder>> \in acks
                BY <2>1, <3>2 DEF AckIsSound, Confirmed
            <4> QED BY <2>2, <4>1, <4>2 DEF ReaderIsOfSelection, ShownWasSeen
        <3> QED BY <1>3, <3>1, <3>2, LandedAck
    <2> QED BY <2>3, <2>4, <2>5 DEF SoundInv, ToldIsConfirmed
<1> QED BY <1>1, <1>2, <1>3

\* The summary of the backend shows nothing as pending that it has a confirmation of.
LEMMA SummaryNotTold ==
    ASSUME ToldIsConfirmed
    PROVE  NotTold(SummaryOfWall)
<1> DEFINE active == {p \in Notes : wall[p].status = "active"}
           offered == {p \in active : ~Acked(p) \/ p \in Important}
           first == IF offered \cap Important # {} THEN offered \cap Important ELSE offered
           item == CHOOSE p \in first : TRUE
<1>1. SummaryOfWall = [item |-> IF first = {} THEN None
                                ELSE [id |-> item, reminder |-> wall[item].reminder, acknowledged |-> Acked(item)],
                       ends |-> active \cap Timed # {}]
    BY DEF SummaryOfWall
<1> HIDE DEF item, first
<1> QED BY <1>1 DEF NotTold, ToldIsConfirmed, Acked

LEMMA SoundOfAnswer ==
    ASSUME ReaderTypeInv, SoundInv, NEW s \in Slots, ServeNote(s) \/ RefuseNote(s) \/ LoseNoteAnswer(s)
    PROVE  SoundInv'
<1>0. CallsAreSound /\ ToldIsConfirmed
    BY DEF SoundInv
<1>1. UNCHANGED <<wall, atNote, data, told, seen>> /\ acks \subseteq acks'
    <2>1. UNCHANGED <<wall, atNote, data, told, seen>>
        BY AnswerKeepsType DEF reader
    <2>2. acks \subseteq acks'
        BY DEF ServeNote, RefuseNote, LoseNoteAnswer, TellNote
    <2> QED BY <2>1, <2>2
<1>2. PICK answer : /\ noteCalls' = [noteCalls EXCEPT ![s].answer = answer]
                    /\ \/ answer = Lost \/ answer = Refused("unavailable")
                       \/ noteCalls[s].op = "summary" /\ answer = Ok(SummaryOfWall)
                       \/ noteCalls[s].op = "read" /\ noteCalls[s].id = "all" /\ answer = Ok(Readable)
                       \/ noteCalls[s].op \in {"read", "check"} /\ noteCalls[s].id \in Readable
                          /\ answer = Ok(NoteOf(noteCalls[s].id))
                       \/ /\ noteCalls[s].op = "acknowledge" /\ answer = Ok(None)
                          /\ <<noteCalls[s].shown.id, noteCalls[s].shown.reminder>> \in acks'
    <2>1. CASE ServeNote(s)
        BY <2>1 DEF ServeNote, TellNote
    <2>2. CASE RefuseNote(s)
        BY <2>2 DEF RefuseNote, TellNote
    <2>3. CASE LoseNoteAnswer(s)
        BY <2>3 DEF LoseNoteAnswer, LoseAnswer
    <2> QED BY <2>1, <2>2, <2>3
<1>3. noteCalls[s] \in Calls /\ noteCalls[s].op # "idle" /\ CallIsSound(noteCalls[s])
    BY <1>0, AnswerKeepsType DEF CallsAreSound
<1>4. PICK call : call = [noteCalls[s] EXCEPT !.answer = answer]
    OBVIOUS
<1>5. /\ call.op = noteCalls[s].op /\ call.answer = answer
      /\ call.op = "read" => call.id = noteCalls[s].id
      /\ call.op = "acknowledge" => call.shown = noteCalls[s].shown /\ call.left = noteCalls[s].left
    <2>1. CASE noteCalls[s].op = "summary"
        BY <1>3, <1>4, <2>1, CallShapes DEF SummaryCalls
    <2>2. CASE noteCalls[s].op = "read"
        BY <1>3, <1>4, <2>2, CallShapes DEF ReadCalls
    <2>3. CASE noteCalls[s].op = "check"
        BY <1>3, <1>4, <2>3, CallShapes DEF CheckCalls
    <2>4. CASE noteCalls[s].op = "acknowledge"
        BY <1>3, <1>4, <2>4, CallShapes DEF AckCalls
    <2> QED BY <1>3, <2>1, <2>2, <2>3, <2>4, CallShapes
<1>6. CallIsSound(call)'
    <2>1. CASE call.op = "read"
        <3>1. call.id = atNote
            BY <1>3, <1>5, <2>1 DEF CallIsSound, ReadIsSound
        <3>2. CASE Succeeds(call) /\ call.id # "all"
            <4>1. call.id \in Notes /\ answer = Ok(NoteOf(call.id))
                BY <1>2, <1>5, <2>1, <3>2 DEF Succeeds, Lost, Refused, Readable
            <4>2. /\ call.answer.body = NoteOf(call.id) /\ NoteOf(call.id) \in Shown
                  /\ NoteOf(call.id).id = call.id
                BY <1>5, <4>1, NoteOfType DEF Ok, NoteOf
            <4>3. NoteOf(call.id).acknowledged => <<call.id, NoteOf(call.id).reminder>> \in acks
                BY DEF NoteOf, Acked
            <4>4. call.answer.body.acknowledged => Confirmed(call.answer.body)'
                BY <1>1, <4>2, <4>3 DEF Confirmed
            <4>5. ReadIsSound(call)'
                BY <1>1, <3>1, <4>2, <4>4 DEF ReadIsSound
            <4> QED BY <2>1, <4>5 DEF CallIsSound
        <3>3. CASE ~(Succeeds(call) /\ call.id # "all")
            <4>1. ReadIsSound(call)'
                BY <1>1, <3>1, <3>3 DEF ReadIsSound, Succeeds
            <4> QED BY <2>1, <4>1 DEF CallIsSound
        <3> QED BY <3>2, <3>3
    <2>2. CASE call.op = "summary"
        <3>1. Succeeds(call) => NotTold(call.answer.body)
            BY <1>0, <1>2, <1>5, <2>2, SummaryNotTold DEF Succeeds, Lost, Refused, Ok
        <3> QED BY <1>1, <2>2, <3>1 DEF CallIsSound, NotTold, Succeeds
    <2>3. CASE call.op = "acknowledge"
        <3>1. Succeeds(call) => <<call.shown.id, call.shown.reminder>> \in acks'
            BY <1>2, <1>5, <2>3 DEF Succeeds, Lost, Refused
        <3>2. AckIsSound(noteCalls[s])
            BY <1>3, <1>5, <2>3 DEF CallIsSound
        <3> QED BY <1>1, <1>5, <2>3, <3>1, <3>2 DEF CallIsSound, AckIsSound, Confirmed, Succeeds
    <2>4. CASE call.op \notin {"read", "summary", "acknowledge"}
        BY <2>4 DEF CallIsSound
    <2> QED BY <2>1, <2>2, <2>3, <2>4
<1>7. \A t \in Slots : noteCalls'[t] = IF t = s THEN call ELSE noteCalls[t]
    BY <1>2, <1>4 DEF ReaderTypeInv
<1>8. CallsAreSound'
    <2> SUFFICES ASSUME NEW t \in Slots PROVE CallIsSound(noteCalls[t])'
        BY DEF CallsAreSound
    <2>1. PICK c : c = noteCalls'[t]
        OBVIOUS
    <2>2. CASE t = s
        BY <1>6, <1>7, <2>1, <2>2
    <2>3. CASE t # s
        <3>1. CallIsSound(c)
            BY <1>0, <1>7, <2>1, <2>3 DEF CallsAreSound
        <3>2. CallIsSound(c)'
            BY <1>1, <3>1, KeptCall
        <3> QED BY <2>1, <3>2
    <2> QED BY <2>2, <2>3
<1> QED BY <1>1, <1>8, ReaderKept DEF SoundInv

LEMMA SoundOfWall ==
    ASSUME SoundInv, UNCHANGED <<acks, atNote, data, told, seen, noteCalls>>
    PROVE  SoundInv'
<1>1. \A t \in Slots : noteCalls'[t] = noteCalls[t]
    OBVIOUS
<1> QED BY <1>1, CallsKept, ReaderKept DEF SoundInv

LEMMA SoundStep == ReaderTypeInv /\ SoundInv /\ [ReaderNext]_readerVars => SoundInv'
<1> SUFFICES ASSUME ReaderTypeInv, SoundInv, [ReaderNext]_readerVars PROVE SoundInv'
    OBVIOUS
<1>1. CASE Wake \/ MinutePasses \/ BoundaryPasses \/ RetrySummary \/ (\E s \in Slots : LandSummary(s))
    BY <1>1, SoundOfStrip
<1>2. CASE \E next \in Notes \cup {None, "all"} : SelectNote(next)
    BY <1>2, SoundOfSelect
<1>3. CASE ReloadNote \/ CheckNote \/ Acknowledge
    BY <1>3, SoundOfReader
<1>4. CASE \E s \in Slots : LandRead(s) \/ LandNoteCheck(s) \/ LandAcknowledge(s)
    BY <1>4, SoundOfLanding
<1>5. CASE \E s \in Slots : NoteAnswer(s)
    BY <1>5, SoundOfAnswer DEF NoteAnswer
<1>6. CASE \E p \in Notes : EditNote(p) \/ RemindAgain(p) \/ WithdrawNote(p) \/ NoteEnds(p)
    <2>1. UNCHANGED <<acks, atNote, data, told, seen, noteCalls>>
        BY <1>6 DEF EditNote, RemindAgain, WithdrawNote, NoteEnds, ChangeNote, reader
    <2> QED BY <2>1, SoundOfWall
<1>7. CASE GoOffline \/ GoOnline \/ UNCHANGED readerVars
    <2>1. UNCHANGED <<acks, atNote, data, told, seen, noteCalls>>
        BY <1>7 DEF GoOffline, GoOnline, readerVars, reader
    <2> QED BY <2>1, SoundOfWall
<1> QED BY <1>1, <1>2, <1>3, <1>4, <1>5, <1>6, <1>7 DEF ReaderNext, LandNote

-----------------------------------------------------------------------------
(* The strip *)

\* What the strip shows is told only where no refresh is on its way that will correct it.
LEMMA PendingKept ==
    ASSUME AckedIsNotPending, UNCHANGED <<summary, stripError, told>>,
           \A t \in Slots : noteCalls[t].op = "summary" => noteCalls'[t].op = "summary"
    PROVE  AckedIsNotPending'
BY DEF AckedIsNotPending, Notices, Waiting

LEMMA PendingRefreshed ==
    ASSUME \E t \in Slots : noteCalls'[t].op = "summary"
    PROVE  AckedIsNotPending'
BY DEF AckedIsNotPending, Notices, Waiting

LEMMA PendingStep ==
    ReaderTypeInv /\ SoundInv /\ AckedIsNotPending /\ [ReaderNext]_readerVars => AckedIsNotPending'
<1> SUFFICES ASSUME ReaderTypeInv, SoundInv, AckedIsNotPending, [ReaderNext]_readerVars
             PROVE  AckedIsNotPending'
    OBVIOUS
<1>0. noteCalls \in [Slots -> Calls]
    BY DEF ReaderTypeInv
<1>1. CASE Wake \/ BoundaryPasses \/ RetrySummary
    <2>1. \/ Free(Supersedes(noteCalls)) # {} /\ noteCalls' = Begin(Supersedes(noteCalls), NoteSummary)
          \/ UNCHANGED <<summary, stripError, noteCalls>>
        BY <1>1 DEF Wake, BoundaryPasses, RetrySummary, LoadSummary
    <2>2. told' = told
        BY <1>1 DEF Wake, BoundaryPasses, RetrySummary, Beside
    <2>3. CASE Free(Supersedes(noteCalls)) # {} /\ noteCalls' = Begin(Supersedes(noteCalls), NoteSummary)
        <3>1. \E t \in Slots : noteCalls'[t] = NoteSummary
            BY <1>0, <2>3, SummaryBegun
        <3> QED BY <3>1, PendingRefreshed DEF NoteSummary
    <2>4. CASE UNCHANGED <<summary, stripError, noteCalls>>
        BY <2>2, <2>4, PendingKept
    <2> QED BY <2>1, <2>3, <2>4
<1>2. CASE MinutePasses
    <2>1. UNCHANGED <<summary, stripError, told, noteCalls>>
        BY <1>2 DEF MinutePasses, Beside
    <2> QED BY <2>1, PendingKept
<1>3. ASSUME NEW s \in Slots, LandSummary(s) PROVE AckedIsNotPending'
    <2>1. stripError' = ~Succeeds(noteCalls[s]) /\ told' = told /\ noteCalls[s].op = "summary"
        BY <1>3 DEF LandSummary, Beside
    <2>2. CASE Succeeds(noteCalls[s])
        <3>1. summary' = noteCalls[s].answer.body /\ NotTold(noteCalls[s].answer.body)
            BY <1>3, <2>2 DEF LandSummary, SoundInv, CallsAreSound, CallIsSound
        <3> QED BY <2>1, <3>1 DEF AckedIsNotPending, NotTold
    <2>3. CASE ~Succeeds(noteCalls[s])
        BY <2>1, <2>3 DEF AckedIsNotPending
    <2> QED BY <2>2, <2>3
<1>4. ASSUME NEW next \in Notes \cup {None, "all"}, SelectNote(next) PROVE AckedIsNotPending'
    <2> DEFINE others == LeftCalls(noteCalls, next)
    <2>1. /\ Free(others) # {} /\ UNCHANGED <<summary, stripError, told>>
          /\ noteCalls' = IF next = None THEN others ELSE Begin(others, ReadOf(next))
        BY <1>4 DEF SelectNote, Select, Outside, strip
    <2>2. /\ others \in [Slots -> Calls]
          /\ \A t \in Slots : noteCalls[t].op = "summary" => others[t] = noteCalls[t]
        BY <1>0, SelectedCalls
    <2> HIDE DEF others
    <2>3. \A t \in Slots : others[t].op = "summary" => noteCalls'[t].op = "summary"
        BY <2>1, <2>2, Begun
    <2> QED BY <2>1, <2>2, <2>3, PendingKept
<1>5. CASE ReloadNote \/ CheckNote \/ Acknowledge
    <2>1. UNCHANGED <<summary, stripError, told>>
        BY <1>5 DEF ReloadNote, CheckNote, Acknowledge, Outside, strip
    <2>2. \E call : Free(noteCalls) # {} /\ noteCalls' = Begin(noteCalls, call)
        BY <1>5 DEF ReloadNote, CheckNote, Acknowledge
    <2>3. \A t \in Slots : noteCalls[t].op = "summary" => noteCalls'[t].op = "summary"
        BY <1>0, <2>2, Begun
    <2> QED BY <2>1, <2>3, PendingKept
<1>6. ASSUME NEW s \in Slots, LandRead(s) PROVE AckedIsNotPending'
    <2>1. UNCHANGED <<summary, stripError, told>>
        BY <1>6, LandedRead DEF SoundInv, strip
    <2>2. \A t \in Slots : noteCalls[t].op = "summary" => noteCalls'[t].op = "summary"
        BY <1>6, LandedRead DEF SoundInv
    <2> QED BY <2>1, <2>2, PendingKept
<1>7. ASSUME NEW s \in Slots, LandNoteCheck(s) PROVE AckedIsNotPending'
    <2>1. UNCHANGED <<summary, stripError, told>>
        BY <1>7 DEF LandNoteCheck, Outside, strip
    <2>2. \A t \in Slots : noteCalls[t].op = "summary" => noteCalls'[t].op = "summary"
        BY <1>0, <1>7, EndedCalls DEF LandNoteCheck
    <2> QED BY <2>1, <2>2, PendingKept
<1>8. ASSUME NEW s \in Slots, LandAcknowledge(s) PROVE AckedIsNotPending'
    <2>1. CASE \E t \in Slots : noteCalls'[t].op = "summary"
        BY <2>1, PendingRefreshed
    <2>2. CASE ~ \E t \in Slots : noteCalls'[t].op = "summary"
        <3>1. /\ UNCHANGED <<told, summary>> /\ stripError' = stripError
              /\ \A t \in Slots : noteCalls[t].op = "summary" => noteCalls'[t] = noteCalls[t]
            BY <1>8, <2>2, LandedAck
        <3> QED BY <3>1, PendingKept
    <2> QED BY <2>1, <2>2
<1>9. ASSUME NEW s \in Slots, NoteAnswer(s) PROVE AckedIsNotPending'
    <2>1. UNCHANGED <<summary, stripError, told>>
        BY <1>9, AnswerKeepsType DEF NoteAnswer, strip
    <2>2. PICK answer : noteCalls' = [noteCalls EXCEPT ![s].answer = answer]
        BY <1>9, AnswerKeepsType DEF NoteAnswer
    <2>3. noteCalls[s].op = "summary" => noteCalls'[s].op = "summary"
        <3>1. noteCalls[s].op = "summary" => noteCalls[s] \in SummaryCalls
            BY <1>0, CallShapes
        <3> QED BY <1>0, <2>2, <3>1 DEF SummaryCalls
    <2>4. \A t \in Slots : noteCalls[t].op = "summary" => noteCalls'[t].op = "summary"
        BY <1>0, <2>2, <2>3
    <2> QED BY <2>1, <2>4, PendingKept
<1>10. CASE \E p \in Notes : EditNote(p) \/ RemindAgain(p) \/ WithdrawNote(p) \/ NoteEnds(p)
    <2>1. UNCHANGED <<summary, stripError, told, noteCalls>>
        BY <1>10 DEF EditNote, RemindAgain, WithdrawNote, NoteEnds, ChangeNote, strip
    <2> QED BY <2>1, PendingKept
<1>11. CASE GoOffline \/ GoOnline \/ UNCHANGED readerVars
    <2>1. UNCHANGED <<summary, stripError, told, noteCalls>>
        BY <1>11 DEF GoOffline, GoOnline, readerVars, strip
    <2> QED BY <2>1, PendingKept
<1> QED BY <1>1, <1>2, <1>3, <1>4, <1>5, <1>6, <1>7, <1>8, <1>9, <1>10, <1>11 DEF ReaderNext, LandNote

-----------------------------------------------------------------------------
(* One confirmation at a time *)

LEMMA ConfirmsKept ==
    ASSUME OneConfirms, acking' = acking,
           \A t \in Slots : IsOpen(noteCalls'[t]) <=> IsOpen(noteCalls[t])
    PROVE  OneConfirms'
BY DEF OneConfirms, IsOpen

LEMMA ConfirmStep == ReaderTypeInv /\ SoundInv /\ OneConfirms /\ [ReaderNext]_readerVars => OneConfirms'
<1> SUFFICES ASSUME ReaderTypeInv, SoundInv, OneConfirms, [ReaderNext]_readerVars
             PROVE  OneConfirms'
    OBVIOUS
<1>0. noteCalls \in [Slots -> Calls] /\ acking \in BOOLEAN
    BY DEF ReaderTypeInv
<1>1. CASE Wake \/ MinutePasses \/ BoundaryPasses \/ RetrySummary \/ (\E s \in Slots : LandSummary(s))
    <2>1. acking' = acking
        BY <1>1 DEF Wake, MinutePasses, BoundaryPasses, RetrySummary, LandSummary, Beside, reader
    <2>2. ASSUME Free(Supersedes(noteCalls)) # {}, noteCalls' = Begin(Supersedes(noteCalls), NoteSummary)
          PROVE  \A t \in Slots : IsOpen(noteCalls'[t]) <=> IsOpen(noteCalls[t])
        BY <1>0, <2>2, SummaryBegun DEF IsOpen, NoCall, NoteSummary
    <2>3. \A t \in Slots : IsOpen(noteCalls'[t]) <=> IsOpen(noteCalls[t])
        BY <1>0, <1>1, <2>2, EndedCalls
           DEF Wake, MinutePasses, BoundaryPasses, RetrySummary, LandSummary, LoadSummary, IsOpen, NoCall
    <2> QED BY <2>1, <2>3, ConfirmsKept
<1>2. ASSUME NEW next \in Notes \cup {None, "all"}, SelectNote(next) PROVE OneConfirms'
    <2> DEFINE others == LeftCalls(noteCalls, next)
    <2>1. /\ Free(others) # {} /\ acking' = (acking /\ next # None)
          /\ noteCalls' = IF next = None THEN others ELSE Begin(others, ReadOf(next))
        BY <1>2 DEF SelectNote, Select
    <2>2. /\ others \in [Slots -> Calls]
          /\ \A s \in Slots :
                /\ noteCalls[s].op = "acknowledge" => others[s] = LeftBehind(noteCalls[s], next)
                /\ noteCalls[s].op \in {"idle", "summary"} => others[s] = noteCalls[s]
                /\ noteCalls[s].op \in {"read", "check"} => others[s] = NoCall
        BY <1>0, SelectedCalls
    <2> HIDE DEF others
    <2>3. ASSUME NEW t \in Slots
          PROVE  IsOpen(others[t]) <=> IsOpen(noteCalls[t]) /\ next # None
        <3>1. CASE noteCalls[t].op = "acknowledge"
            <4>1. noteCalls[t] \in AckCalls
                BY <1>0, <3>1, CallShapes
            <4>2. others[t] \in AckCalls /\ others[t].closed = (noteCalls[t].closed \/ next = None)
                BY <2>2, <3>1, <4>1, LeftCall
            <4> QED BY <3>1, <4>2 DEF IsOpen, AckCalls
        <3>2. CASE noteCalls[t].op \in {"idle", "summary", "read", "check"}
            BY <2>2, <3>2 DEF IsOpen, NoCall
        <3> QED BY <1>0, <3>1, <3>2, CallShapes
    <2>4. ASSUME NEW t \in Slots
          PROVE  IsOpen(noteCalls'[t]) <=> IsOpen(others[t])
        <3>1. CASE next = None
            BY <2>1, <3>1
        <3>2. CASE next # None
            <4>1. PICK n \in Slots : others[n].op = "idle" /\ noteCalls' = [others EXCEPT ![n] = ReadOf(next)]
                BY <2>1, <2>2, <3>2, Begun
            <4>2. ~IsOpen(others[n]) /\ ~IsOpen(ReadOf(next))
                BY <4>1 DEF IsOpen, ReadOf
            <4> QED BY <2>2, <4>1, <4>2
        <3> QED BY <3>1, <3>2
    <2>5. \A t \in Slots : IsOpen(noteCalls'[t]) <=> IsOpen(noteCalls[t]) /\ next # None
        BY <2>3, <2>4
    <2> QED BY <2>1, <2>5 DEF OneConfirms, IsOpen
<1>3. CASE ReloadNote \/ CheckNote
    <2>1. acking' = acking
        BY <1>3 DEF ReloadNote, CheckNote, reader
    <2>2. PICK call : Free(noteCalls) # {} /\ noteCalls' = Begin(noteCalls, call) /\ call.op # "acknowledge"
        BY <1>3 DEF ReloadNote, CheckNote, ReadOf
    <2>3. PICK n \in Slots : noteCalls[n].op = "idle" /\ noteCalls' = [noteCalls EXCEPT ![n] = call]
        BY <1>0, <2>2, Begun
    <2>4. \A t \in Slots : IsOpen(noteCalls'[t]) <=> IsOpen(noteCalls[t])
        BY <1>0, <2>2, <2>3 DEF IsOpen
    <2> QED BY <2>1, <2>4, ConfirmsKept
<1>4. CASE Acknowledge
    <2>1. ~acking /\ acking' = TRUE
        BY <1>4 DEF Acknowledge, MayAcknowledge
    <2>2. PICK call : /\ Free(noteCalls) # {} /\ noteCalls' = Begin(noteCalls, call)
                      /\ call.op = "acknowledge" /\ ~call.closed
        BY <1>4 DEF Acknowledge
    <2>3. PICK n \in Slots : noteCalls' = [noteCalls EXCEPT ![n] = call]
        BY <1>0, <2>2, Begun
    <2>4. \A t \in Slots : IsOpen(noteCalls'[t]) <=> t = n
        BY <1>0, <2>1, <2>2, <2>3 DEF OneConfirms, IsOpen
    <2> QED BY <2>1, <2>4 DEF OneConfirms, IsOpen
<1>5. ASSUME NEW s \in Slots, LandRead(s) \/ LandNoteCheck(s) PROVE OneConfirms'
    <2>1. CASE LandRead(s)
        <3>1. acking' = acking
            BY <2>1, LandedRead DEF SoundInv
        <3>2. \A t \in Slots : \/ noteCalls'[t] = noteCalls[t]
                               \/ noteCalls[t].op \in {"read", "check"} /\ noteCalls'[t] = NoCall
            BY <2>1, LandedRead DEF SoundInv
        <3>3. \A t \in Slots : IsOpen(noteCalls'[t]) <=> IsOpen(noteCalls[t])
            BY <3>2 DEF IsOpen, NoCall
        <3> QED BY <3>1, <3>3, ConfirmsKept
    <2>2. CASE LandNoteCheck(s)
        <3>1. acking' = acking
            BY <2>2 DEF LandNoteCheck
        <3>2. \A t \in Slots : IsOpen(noteCalls'[t]) <=> IsOpen(noteCalls[t])
            BY <1>0, <2>2, EndedCalls DEF LandNoteCheck, IsOpen, NoCall
        <3> QED BY <3>1, <3>2, ConfirmsKept
    <2> QED BY <1>5, <2>1, <2>2
<1>6. ASSUME NEW s \in Slots, LandAcknowledge(s) PROVE OneConfirms'
    <2>1. /\ noteCalls[s] \in AckCalls /\ noteCalls'[s] \in {NoCall, NoteSummary}
          /\ acking' = (acking /\ noteCalls[s].closed)
        BY <1>6, LandedAck
    <2>2. \A t \in Slots : \/ noteCalls'[t] = noteCalls[t]
                           \/ /\ t = s \/ noteCalls[t].op \in {"idle", "check", "summary"}
                              /\ noteCalls'[t] \in {NoCall, NoteSummary}
        BY <1>6, LandedAck
    <2>3. \A t \in Slots : IsOpen(noteCalls'[t]) <=> IsOpen(noteCalls[t]) /\ t # s
        BY <2>1, <2>2 DEF IsOpen, NoCall, NoteSummary
    <2>4. IsOpen(noteCalls[s]) <=> ~noteCalls[s].closed
        BY <2>1 DEF AckCalls, IsOpen
    <2> QED BY <2>1, <2>3, <2>4 DEF OneConfirms, IsOpen
<1>7. ASSUME NEW s \in Slots, NoteAnswer(s) PROVE OneConfirms'
    <2>1. acking' = acking
        BY <1>7, AnswerKeepsType DEF NoteAnswer, reader
    <2>2. PICK answer : noteCalls' = [noteCalls EXCEPT ![s].answer = answer]
        BY <1>7, AnswerKeepsType DEF NoteAnswer
    <2>3. IsOpen(noteCalls'[s]) <=> IsOpen(noteCalls[s])
        <3>1. PICK call : call = noteCalls[s]
            OBVIOUS
        <3>2. noteCalls'[s] = [call EXCEPT !.answer = answer] /\ call \in Calls
            BY <1>0, <2>2, <3>1
        <3>3. /\ [call EXCEPT !.answer = answer].op = call.op
              /\ call.op = "acknowledge" => [call EXCEPT !.answer = answer].closed = call.closed
            BY <3>2, CallShapes DEF NoCall, SummaryCalls, ReadCalls, CheckCalls, AckCalls
        <3> QED BY <3>1, <3>2, <3>3 DEF IsOpen
    <2>4. \A t \in Slots : IsOpen(noteCalls'[t]) <=> IsOpen(noteCalls[t])
        BY <1>0, <2>2, <2>3
    <2> QED BY <2>1, <2>4, ConfirmsKept
<1>8. CASE \E p \in Notes : EditNote(p) \/ RemindAgain(p) \/ WithdrawNote(p) \/ NoteEnds(p)
    <2>1. UNCHANGED <<acking, noteCalls>>
        BY <1>8 DEF EditNote, RemindAgain, WithdrawNote, NoteEnds, ChangeNote, reader
    <2> QED BY <2>1, ConfirmsKept
<1>9. CASE GoOffline \/ GoOnline \/ UNCHANGED readerVars
    <2>1. UNCHANGED <<acking, noteCalls>>
        BY <1>9 DEF GoOffline, GoOnline, readerVars, reader
    <2> QED BY <2>1, ConfirmsKept
<1> QED BY <1>1, <1>2, <1>3, <1>4, <1>5, <1>6, <1>7, <1>8, <1>9 DEF ReaderNext, LandNote

-----------------------------------------------------------------------------
(* The theorems *)

LEMMA ReaderInitially == ReaderInit => ReaderInv
<1> SUFFICES ASSUME ReaderInit PROVE ReaderInv
    OBVIOUS
<1>1. NoteSummary \in Calls /\ NoCalls \in [Slots -> Calls]
    BY DEF NoteSummary, Calls, SummaryCalls, Answers, NoCalls
<1>2. Free(NoCalls) # {}
    BY SlotsAssumption DEF Free, Busy, NoCalls, NoCall
<1>3. /\ noteCalls \in [Slots -> Calls]
      /\ \A t \in Slots : noteCalls[t] \in {NoCall, NoteSummary}
      /\ \E t \in Slots : noteCalls[t].op = "summary"
    <2>1. PICK n \in Slots : noteCalls = [NoCalls EXCEPT ![n] = NoteSummary]
        BY <1>1, <1>2, Begun DEF ReaderInit
    <2> QED BY <1>1, <2>1 DEF NoCalls, NoteSummary
<1>4. ReaderTypeInv
    BY <1>3 DEF ReaderInit, ReaderTypeInv, NoteRow
<1>5. SoundInv
    BY <1>3 DEF ReaderInit, SoundInv, CallsAreSound, CallIsSound, NoCall, NoteSummary, Succeeds, Unanswered,
                ReaderIsOfSelection, ShownWasSeen, ToldIsConfirmed
<1>6. AckedIsNotPending
    BY <1>3 DEF AckedIsNotPending, Notices, Waiting
<1>7. OneConfirms
    BY <1>3 DEF ReaderInit, OneConfirms, IsOpen, NoCall, NoteSummary
<1> QED BY <1>4, <1>5, <1>6, <1>7 DEF ReaderInv

LEMMA ReaderInductive == ReaderInv /\ [ReaderNext]_readerVars => ReaderInv'
BY ReaderTypeStep, SoundStep, PendingStep, ConfirmStep DEF ReaderInv, SoundInv

THEOREM ReaderInvariance == ReaderSpec => []ReaderInv
<1>1. ReaderInit => ReaderInv
    BY ReaderInitially
<1>2. ReaderInv /\ [ReaderNext]_readerVars => ReaderInv'
    BY ReaderInductive
<1> QED BY <1>1, <1>2, PTL DEF ReaderSpec

LEMMA LockFromOne ==
    ASSUME ReaderTypeInv, OneConfirms
    PROVE  AckLockIsLive
<1> DEFINE open == {s \in Notices({"acknowledge"}) : ~noteCalls[s].closed}
<1>1. \A s \in Slots : s \in open <=> IsOpen(noteCalls[s])
    BY DEF Notices, Waiting, IsOpen
<1>2. open \subseteq Slots
    BY DEF Notices, Waiting
<1>3. CASE acking
    <2>1. PICK s \in Slots : IsOpen(noteCalls[s])
        BY <1>3 DEF OneConfirms
    <2>2. open = {s}
        BY <1>1, <1>2, <2>1 DEF OneConfirms
    <2>3. Cardinality(open) = 1
        BY <2>2, FS_Singleton, Zenon
    <2> QED BY <1>3, <2>3 DEF AckLockIsLive
<1>4. CASE ~acking
    <2>1. open = {}
        BY <1>1, <1>2, <1>4 DEF OneConfirms
    <2>2. Cardinality(open) = 0
        BY <2>1, FS_EmptySet, Zenon
    <2> QED BY <1>4, <2>2 DEF AckLockIsLive
<1> QED BY <1>3, <1>4

\* What the reader and the strip show is so, for any number of announcements and of requests
\* on their way: the announcement of the selection, confirmed only where the backend has it,
\* pending no more once it was, one confirmation at a time (announcement-reader.tsx:39-142,
\* announcement-strip.tsx:33-68).
THEOREM ReaderStaysSound == ReaderSpec => []ReaderIsSound
<1>1. ReaderInv => ReaderIsSound
    BY LockFromOne DEF ReaderInv, SoundInv, ReaderIsSound
<1> QED BY <1>1, ReaderInvariance, PTL

\* A text is confirmed only after the reader has shown it, whatever is edited between the
\* confirmation and its arrival (announcement-reader.tsx:115-142, announcements.go:166-197).
THEOREM ReadComesFirst == ReaderSpec => ReadBeforeAck
<1>1. ReaderInv /\ [ReaderNext]_readerVars =>
          [\A p \in Notes : <<p, wall[p].reminder>> \in acks' \ acks => <<p, wall[p].version>> \in seen]_readerVars
    <2> SUFFICES ASSUME ReaderInv, ReaderNext, NEW p \in Notes, <<p, wall[p].reminder>> \in acks' \ acks
                 PROVE  <<p, wall[p].version>> \in seen
        OBVIOUS
    <2>0. ReaderTypeInv /\ CallsAreSound
        BY DEF ReaderInv, SoundInv
    <2>1. \E s \in Slots : ServeNote(s)
        <3>1. CASE Wake \/ MinutePasses \/ BoundaryPasses \/ RetrySummary \/ GoOffline \/ GoOnline
            BY <3>1 DEF Wake, MinutePasses, BoundaryPasses, RetrySummary, GoOffline, GoOnline, Beside
        <3>2. CASE \/ ReloadNote \/ CheckNote \/ Acknowledge
                   \/ \E next \in Notes \cup {None, "all"} : SelectNote(next)
            BY <3>2 DEF ReloadNote, CheckNote, Acknowledge, SelectNote, Outside
        <3>3. CASE \E s \in Slots : LandNote(s)
            BY <3>3 DEF LandNote, LandSummary, LandRead, LandNoteCheck, LandAcknowledge, Beside, Outside
        <3>4. CASE \E s \in Slots : RefuseNote(s) \/ LoseNoteAnswer(s)
            BY <3>4 DEF RefuseNote, LoseNoteAnswer
        <3>5. CASE \E q \in Notes : EditNote(q) \/ RemindAgain(q) \/ WithdrawNote(q) \/ NoteEnds(q)
            BY <3>5 DEF EditNote, RemindAgain, WithdrawNote, NoteEnds, ChangeNote
        <3> QED BY <3>1, <3>2, <3>3, <3>4, <3>5 DEF ReaderNext, NoteAnswer
    <2>2. PICK s \in Slots : ServeNote(s)
        BY <2>1
    <2> DEFINE call == noteCalls[s]
    <2>3. /\ call.op = "acknowledge" /\ SameText(call.shown.id, call.shown)
          /\ <<p, wall[p].reminder>> = <<call.shown.id, call.shown.reminder>>
        BY <2>2 DEF ServeNote
    <2>4. p = call.shown.id /\ wall[p].version = call.shown.version
        BY <2>3 DEF SameText
    <2>5. <<call.shown.id, call.shown.version>> \in seen
        BY <2>0, <2>3 DEF CallsAreSound, CallIsSound, AckIsSound
    <2> QED BY <2>4, <2>5
<1> QED BY <1>1, ReaderInvariance, PTL DEF ReaderSpec, ReadBeforeAck

=============================================================================
