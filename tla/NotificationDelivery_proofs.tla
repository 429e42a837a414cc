------------------------ MODULE NotificationDelivery_proofs ------------------------
(***************************************************************************)
(* Proofs about NotificationDelivery for every set of deliveries, users,   *)
(* delays and faults.                                                      *)
(***************************************************************************)
EXTENDS NotificationDelivery, TLAPS

USE DEF Null

-----------------------------------------------------------------------------
(* Type correctness *)

\* A claimed row has used at least one attempt, which is what indexes the
\* table of send backoffs, and a busy goroutine works on a row.
Claimed ==
    /\ pc \in {"prepare", "wire"} => mem.attempts >= 1
    /\ pc \in {"query", "saveConfirm", "prepare", "wire", "saveSend"} => cur \in Deliveries
    /\ \A u \in Users : check[u].pc # "idle" => check[u].id \in Deliveries

TypeInv == TypeOK /\ Claimed

\* Facts about the constants, in the form the later steps use.
LEMMA Constants ==
    /\ Lease \in Nat /\ Lease >= 1
    /\ StatusDelay[1] \in Nat /\ StatusDelay[2] \in Nat /\ StatusDelay[3] \in Nat
    /\ 0 < StatusDelay[1] /\ StatusDelay[1] < StatusDelay[2] /\ StatusDelay[2] < StatusDelay[3]
    /\ MaxBackoff \in Nat /\ MaxBackoff >= 1
    /\ TestInterval \in Nat /\ TestInterval >= 1
    /\ MaxDelay \in Nat /\ MaxDelay >= StatusDelay[3] /\ MaxDelay >= MaxBackoff
    /\ MaxAttempts \in Nat
    /\ \A n \in 1..(MaxAttempts - 1) : SendBackoff[n] \in Nat
BY DeliveryAssumption DEF MaxDelay, Larger

LEMMA Ranges ==
    /\ {Null, 0} \subseteq Null..MaxDelay
    /\ {Null, 0} \subseteq Null..Lease
    /\ {Null, 0} \subseteq Null..StatusDelay[3]
    /\ {Null, 0} \subseteq Null..TestInterval
    /\ StatusDelay[1] \in Null..MaxDelay
BY Constants

\* The rows the code writes are rows: one fact per way of building a copy.
LEMMA NoRowType == NoRow \in Row
BY Constants DEF NoRow, Row, Statuses

LEMMA ChannelUpdate ==
    ASSUME NEW c \in Channel, NEW on \in BOOLEAN, NEW wants \in BOOLEAN
    PROVE  [c EXCEPT !.enabled = on, !.wants = wants] \in Channel
BY DEF Channel

LEMMA ChannelTested ==
    ASSUME NEW c \in Channel, NEW t \in Null..TestInterval
    PROVE  [c EXCEPT !.lastTest = t] \in Channel
BY DEF Channel

LEMMA AgedType ==
    ASSUME NEW r \in Row
    PROVE  Aged(r) \in Row /\ Aged(r).status = r.status /\ Aged(r).record = r.record
           /\ Aged(r).attempts = r.attempts
<1>1. CountDown(r.next) \in Null..MaxDelay
    BY Constants DEF CountDown, Row
<1>2. CountUp(r.claimed, Lease) \in Null..Lease
    BY Constants DEF CountUp, Row, Smaller
<1>3. CountUp(r.accepted, StatusDelay[3]) \in Null..StatusDelay[3]
    BY Constants DEF CountUp, Row, Smaller
<1> QED BY <1>1, <1>2, <1>3 DEF Aged, Row

LEMMA FinishedType ==
    ASSUME NEW r \in Row, NEW s \in Statuses
    PROVE  Finished(r, s) \in Row /\ Finished(r, s).status = s
           /\ Finished(r, s).record = r.record /\ Finished(r, s).attempts = r.attempts
BY Ranges DEF Finished, Row

LEMMA RescheduledType ==
    ASSUME NEW r \in Row
    PROVE  Rescheduled(r) \in Row /\ Rescheduled(r).record = r.record
           /\ Rescheduled(r).status \in {"accepted", "uncertain"}
<1>1. CASE r.accepted = Null \/ r.accepted >= StatusDelay[3]
    BY <1>1, FinishedType DEF Rescheduled, Statuses
<1>2. CASE ~(r.accepted = Null \/ r.accepted >= StatusDelay[3])
    <2> DEFINE at == IF r.accepted < StatusDelay[2] THEN StatusDelay[2] ELSE StatusDelay[3]
    <2>1. at - r.accepted \in Null..MaxDelay
        BY <1>2, Constants DEF Row
    <2>2. Rescheduled(r) = [r EXCEPT !.status = "accepted", !.next = at - r.accepted, !.claimed = Null]
        BY <1>2 DEF Rescheduled
    <2> QED BY <2>1, <2>2, Ranges DEF Row, Statuses
<1> QED BY <1>1, <1>2

LEMMA ConfirmedType ==
    ASSUME NEW r \in Row, NEW answer \in Answers
    PROVE  Confirmed(r, answer) \in Row /\ Confirmed(r, answer).record = r.record
           /\ Confirmed(r, answer).status \in {"accepted", "provider_succeeded", "uncertain", "failed"}
BY FinishedType, RescheduledType DEF Confirmed, Statuses, Answers

LEMMA RecheckingType ==
    ASSUME NEW r \in Row, NEW answer \in Answers
    PROVE  Rechecking(r, answer) \in Row /\ Rechecking(r, answer).record = r.record
           /\ Rechecking(r, answer).status \in {r.status, "provider_succeeded", "failed"}
BY FinishedType DEF Rechecking, Statuses, Answers

LEMMA SendFailedType ==
    ASSUME NEW r \in Row, r.attempts >= 1, NEW error \in SendErrors, NEW retryAfter \in RetryAfters
    PROVE  /\ SendFailed(r, error, retryAfter) \in Row
           /\ SendFailed(r, error, retryAfter).record = r.record
           /\ SendFailed(r, error, retryAfter).status \in {"uncertain", "retry_wait", "failed"}
           /\ error = "ambiguous" <=> SendFailed(r, error, retryAfter).status = "uncertain"
<1>1. CASE error = "retryable" /\ r.attempts < MaxAttempts
    <2>1. SendBackoff[r.attempts] \in Nat /\ retryAfter \in Nat
        <3>1. r.attempts \in 1..(MaxAttempts - 1)
            BY <1>1, Constants DEF Row
        <3>2. retryAfter \in Nat
            BY DeliveryAssumption
        <3> QED BY <3>1, <3>2, Constants
    <2>2. Smaller(MaxBackoff, Larger(SendBackoff[r.attempts], retryAfter)) \in Null..MaxDelay
        BY <2>1, Constants DEF Smaller, Larger
    <2>3. SendFailed(r, error, retryAfter) =
            [r EXCEPT !.status = "retry_wait", !.claimed = Null,
                      !.next = Smaller(MaxBackoff, Larger(SendBackoff[r.attempts], retryAfter))]
        BY <1>1 DEF SendFailed
    <2> QED BY <1>1, <2>2, <2>3, Ranges DEF Row, Statuses
<1>2. CASE ~(error = "retryable" /\ r.attempts < MaxAttempts)
    BY <1>2, FinishedType DEF SendFailed, Statuses, SendErrors
<1> QED BY <1>1, <1>2

LEMMA AcceptedType ==
    ASSUME NEW r \in Row
    PROVE  Accepted(r) \in Row /\ Accepted(r).record /\ Accepted(r).status = "accepted"
BY Ranges DEF Accepted, Row, Statuses

LEMMA QueryAnswersType ==
    ASSUME TypeOK, NEW d \in Deliveries
    PROVE  QueryAnswers(d) \subseteq Answers
BY DEF TypeOK, QueryAnswers, Answers

\* The statuses a refusal can write.
LEMMA RefusalsType ==
    ASSUME NEW d, NEW s \in Refusals(d)
    PROVE  s \in {"uncertain", "cancelled", "suppressed"}
BY DEF Refusals

-----------------------------------------------------------------------------

LEMMA TypeInit == Init => TypeInv
<1> SUFFICES ASSUME Init PROVE TypeInv OBVIOUS
<1>1. NoChannel \in Channel BY Ranges DEF NoChannel, Channel
<1>2. Claimed BY DEF Init, Claimed, NoCheck
<1> QED BY <1>1, <1>2, NoRowType DEF TypeInv, Init, TypeOK, NoCheck, Answers

\* GoTo with a typed row keeps the dispatcher typed.
LEMMA GoIdleType ==
    ASSUME Claimed, GoIdle, UNCHANGED check
    PROVE  pc' = "idle" /\ cur' = NoDelivery /\ mem' \in Row /\ reply' = "none" /\ Claimed'
BY NoRowType DEF GoIdle, GoTo, Claimed

LEMMA SaveType ==
    ASSUME TypeOK, NEW d \in Deliveries, NEW r \in Row, Save(d, r)
    PROVE  row' \in [Deliveries -> Row]
BY DEF TypeOK, Save

Checks == [pc: {"idle", "query", "reload", "save"},
           id: Deliveries \cup {NoDelivery}, copy: Row, answer: Answers]

LEMMA TypeApi ==
    ASSUME TypeInv, NEW u \in Users, Api(u)
    PROVE  TypeInv'
<1> USE DEF TypeInv
<1>0. NoCheck \in Checks /\ check \in [Users -> Checks]
    BY NoRowType DEF NoCheck, Answers, Checks, TypeOK
<1>1. CASE Bind(u)
    <2>1. [bound |-> TRUE, enabled |-> TRUE, wants |-> TRUE, lastTest |-> Null] \in Channel
        BY Ranges DEF Channel
    <2> QED BY <1>1, <2>1 DEF Bind, TypeOK, dispatcher, provider, Claimed
<1>2. CASE UpdateChannel(u)
    <2>1. ASSUME NEW on \in BOOLEAN, NEW wants \in BOOLEAN
          PROVE  [channel[u] EXCEPT !.enabled = on, !.wants = wants] \in Channel
        BY ChannelUpdate DEF TypeOK
    <2>2. PICK on \in BOOLEAN, wants \in BOOLEAN :
            channel' = [channel EXCEPT ![u] = [channel[u] EXCEPT !.enabled = on, !.wants = wants]]
        BY <1>2 DEF UpdateChannel, TypeOK
    <2>3. channel' \in [Users -> Channel]
        BY <2>1, <2>2 DEF TypeOK
    <2> QED BY <1>2, <2>3 DEF UpdateChannel, TypeOK, dispatcher, provider, Claimed
<1>3. CASE Unbind(u)
    <2>1. NoChannel \in Channel BY Ranges DEF NoChannel, Channel
    <2>2. CancelQueued(u) \in [Deliveries -> Row]
        BY FinishedType DEF CancelQueued, TypeOK, Statuses
    <2>3. row' \in [Deliveries -> Row] /\ channel' \in [Users -> Channel]
        BY <1>3, <2>1, <2>2 DEF Unbind, TypeOK
    <2> QED BY <1>3, <2>3 DEF Unbind, TypeOK, dispatcher, provider, Claimed
<1>4. CASE RecheckLoad(u)
    <2>1. latest[u] \in Deliveries BY <1>4 DEF RecheckLoad, TypeOK
    <2> DEFINE c == [NoCheck EXCEPT !.pc = "query", !.id = latest[u]]
    <2>2. c \in Checks /\ check' = [check EXCEPT ![u] = c]
        BY <1>0, <1>4, <2>1 DEF RecheckLoad, Checks
    <2>3. c.id \in Deliveries BY <2>1 DEF NoCheck
    <2> HIDE DEF c
    <2> QED BY <1>0, <1>4, <2>2, <2>3 DEF RecheckLoad, TypeOK, Checks, dispatcher, provider, Claimed
<1>5. CASE RecheckQuery(u)
    <2>1. PICK answer \in QueryAnswers(check[u].id) :
                check' = [check EXCEPT ![u] = [check[u] EXCEPT !.pc = "reload", !.answer = answer]]
        BY <1>0, <1>5 DEF RecheckQuery
    <2>2. check[u].id \in Deliveries BY <1>5 DEF RecheckQuery, Claimed
    <2>3. answer \in Answers BY <2>1, <2>2, QueryAnswersType
    <2> DEFINE c == [check[u] EXCEPT !.pc = "reload", !.answer = answer]
    <2>4. c \in Checks /\ c.id = check[u].id BY <1>0, <2>3 DEF Checks
    <2> HIDE DEF c
    <2> QED BY <1>0, <1>5, <2>1, <2>2, <2>4
            DEF RecheckQuery, TypeOK, Checks, dispatcher, provider, Claimed, c
<1>6. CASE RecheckReload(u)
    <2> DEFINE r == Rechecking(row[check[u].id], check[u].answer)
               c == [check[u] EXCEPT !.pc = "save", !.copy = r]
    <2>1. check[u].id \in Deliveries BY <1>6 DEF RecheckReload, Claimed
    <2>2. r \in Row BY <2>1, RecheckingType DEF TypeOK
    <2>3. c \in Checks /\ c.id = check[u].id
        BY <1>0, <2>2 DEF Checks
    <2>4. \/ check' = [check EXCEPT ![u] = c]
          \/ check' = [check EXCEPT ![u] = NoCheck]
        BY <1>6 DEF RecheckReload
    <2>5. NoCheck.pc = "idle" BY DEF NoCheck
    <2> HIDE DEF c, r
    <2> QED BY <1>0, <1>6, <2>1, <2>3, <2>4, <2>5
            DEF RecheckReload, TypeOK, Checks, dispatcher, provider, Claimed
<1>7. CASE RecheckSave(u)
    <2>1. check[u].id \in Deliveries BY <1>7 DEF RecheckSave, Claimed
    <2>2. row' \in [Deliveries -> Row]
        BY <1>7, <2>1, SaveType DEF RecheckSave, TypeOK
    <2>3. NoCheck.pc = "idle" BY DEF NoCheck
    <2> QED BY <1>0, <1>7, <2>2, <2>3
            DEF RecheckSave, TypeOK, Checks, dispatcher, provider, Claimed
<1> QED BY <1>1, <1>2, <1>3, <1>4, <1>5, <1>6, <1>7 DEF Api

LEMMA TypeProduce ==
    ASSUME TypeInv, NEW d \in Deliveries, Produce(d)
    PROVE  TypeInv'
<1> USE DEF TypeInv
<1>0. Owner[d] \in Users BY DeliveryAssumption
<1>1. [NoRow EXCEPT !.status = "suppressed"] \in Row
      /\ [NoRow EXCEPT !.status = "pending", !.next = 0] \in Row
    BY NoRowType, Ranges DEF Row, Statuses
<1>2. CASE Enqueue(d)
    BY <1>1, <1>2 DEF Enqueue, TypeOK, dispatcher, provider, Claimed
<1>3. CASE CreateTest(d)
    <2>1. channel[Owner[d]] \in Channel BY <1>0 DEF TypeOK
    <2>2. 0 \in Null..TestInterval BY Ranges
    <2>3. [channel[Owner[d]] EXCEPT !.lastTest = 0] \in Channel
        BY <2>1, <2>2 DEF Channel
    <2>4. channel' \in [Users -> Channel] BY <1>3, <2>3 DEF CreateTest, TypeOK
    <2> QED BY <1>0, <1>1, <1>3, <2>4 DEF CreateTest, TypeOK, dispatcher, provider, Claimed
<1>4. CASE ClearNotification(d)
    BY <1>4 DEF ClearNotification, TypeOK, dispatcher, provider, Claimed
<1> QED BY <1>2, <1>3, <1>4 DEF Produce

LEMMA TypeProvider ==
    ASSUME TypeInv, NEW d \in Deliveries, Provider(d)
    PROVE  TypeInv'
<1> USE DEF TypeInv
<1>1. CASE ProviderAccepts(d)
    <2>1. wire' \in [Deliveries -> Nat] /\ pushes' \in [Deliveries -> Nat]
          /\ outcome' \in [Deliveries -> {"none", "processing", "succeeded", "failed"}]
        BY <1>1 DEF ProviderAccepts, TypeOK
    <2> QED BY <1>1, <2>1 DEF ProviderAccepts, TypeOK, Claimed, Reply
<1>2. CASE ProviderRejects(d)
    <2>1. wire' \in [Deliveries -> Nat]
        BY <1>2 DEF ProviderRejects, TypeOK
    <2> QED BY <1>2, <2>1 DEF ProviderRejects, TypeOK, Claimed, Reply
<1>3. CASE ProviderSettles(d)
    BY <1>3 DEF ProviderSettles, TypeOK, Claimed, dispatcher
<1> QED BY <1>1, <1>2, <1>3 DEF Provider

LEMMA TypeCycle ==
    ASSUME TypeInv, Cycle
    PROVE  TypeInv'
<1> USE DEF TypeInv
<1>1. CASE StartCycle
    <2>1. RecoverStale \in [Deliveries -> Row]
        BY FinishedType DEF RecoverStale, TypeOK, Statuses
    <2> QED BY <1>1, <2>1, NoRowType DEF StartCycle, GoTo, TypeOK, provider, Claimed
<1>2. CASE ClaimAccepted
    <2>1. ASSUME NEW d \in Deliveries PROVE Leased(row[d]) \in Row
        BY Ranges DEF Leased, Row, TypeOK
    <2> QED BY <1>2, <2>1, NoRowType DEF ClaimAccepted, GoTo, TypeOK, provider, Claimed
<1>3. CASE QueryStatus
    <2>1. PICK answer \in QueryAnswers(cur) : GoTo("saveConfirm", cur, Confirmed(mem, answer))
        BY <1>3 DEF QueryStatus
    <2>2. cur \in Deliveries BY <1>3 DEF QueryStatus, Claimed
    <2>3. Confirmed(mem, answer) \in Row
        BY <2>1, <2>2, QueryAnswersType, ConfirmedType DEF TypeOK
    <2> QED BY <1>3, <2>1, <2>2, <2>3 DEF QueryStatus, GoTo, TypeOK, provider, Claimed
<1>4. CASE SaveConfirm
    <2>1. row' \in [Deliveries -> Row]
        BY <1>4, SaveType DEF SaveConfirm, TypeOK, Claimed
    <2> QED BY <1>4, <2>1, NoRowType DEF SaveConfirm, GoIdle, GoTo, TypeOK, provider, Claimed
<1>5. CASE ClaimQueued
    <2> DEFINE R(d) == [row[d] EXCEPT !.status = "sending", !.claimed = 0, !.attempts = @ + 1]
    <2>1. ASSUME NEW d \in Deliveries PROVE R(d) \in Row /\ R(d).attempts >= 1
        <3>1. row[d] \in Row /\ 0 \in Null..Lease BY Ranges DEF TypeOK
        <3>2. row[d].attempts + 1 \in Nat /\ row[d].attempts + 1 >= 1 BY <3>1 DEF Row
        <3>3. "sending" \in Statuses BY DEF Statuses
        <3> QED BY <3>1, <3>2, <3>3 DEF Row
    <2>2. \/ GoIdle /\ UNCHANGED row
          \/ \E d \in Deliveries : row' = [row EXCEPT ![d] = R(d)] /\ GoTo("prepare", d, R(d))
        BY <1>5 DEF ClaimQueued
    <2> HIDE DEF R
    <2>3. CASE GoIdle /\ UNCHANGED row
        BY <1>5, <2>3, NoRowType DEF ClaimQueued, GoIdle, GoTo, TypeOK, provider, Claimed
    <2>4. ASSUME NEW d \in Deliveries, row' = [row EXCEPT ![d] = R(d)], GoTo("prepare", d, R(d))
          PROVE  TypeInv'
        BY <1>5, <2>1, <2>4 DEF ClaimQueued, GoTo, TypeOK, provider, Claimed
    <2> QED BY <2>2, <2>3, <2>4
<1>6. CASE Refuse
    <2>1. PICK s \in Refusals(cur) : GoTo("saveSend", cur, Finished(mem, s))
        BY <1>6 DEF Refuse
    <2>2. Finished(mem, s) \in Row
        BY <2>1, RefusalsType, FinishedType DEF TypeOK, Statuses
    <2> QED BY <1>6, <2>1, <2>2 DEF Refuse, GoTo, TypeOK, provider, Claimed
<1>7. CASE Send
    <2>1. wire' \in [Deliveries -> Nat] BY <1>7 DEF Send, TypeOK, Claimed
    <2> QED BY <1>7, <2>1 DEF Send, TypeOK, Claimed
<1>8. CASE SendSucceeds
    <2>1. Accepted(mem) \in Row BY AcceptedType DEF TypeOK
    <2> QED BY <1>8, <2>1 DEF SendSucceeds, GoTo, TypeOK, provider, Claimed
<1>9. CASE SendFails
    <2>1. PICK error \in SendErrors, retryAfter \in RetryAfters :
                GoTo("saveSend", cur, SendFailed(mem, error, retryAfter))
        BY <1>9 DEF SendFails
    <2>2. SendFailed(mem, error, retryAfter) \in Row
        BY <1>9, <2>1, SendFailedType DEF SendFails, TypeOK, Claimed
    <2> QED BY <1>9, <2>1, <2>2 DEF SendFails, GoTo, TypeOK, provider, Claimed
<1>10. CASE SaveSend
    <2>1. row' \in [Deliveries -> Row]
        BY <1>10, SaveType DEF SaveSend, TypeOK, Claimed
    <2> QED BY <1>10, <2>1, NoRowType DEF SaveSend, GoIdle, GoTo, TypeOK, provider, Claimed
<1> QED BY <1>1, <1>2, <1>3, <1>4, <1>5, <1>6, <1>7, <1>8, <1>9, <1>10 DEF Cycle

LEMMA TypeProcess ==
    ASSUME TypeInv, RepositoryFails \/ Tick \/ Crash \/ Restart
    PROVE  TypeInv'
<1> USE DEF TypeInv
<1>1. CASE RepositoryFails
    BY <1>1, NoRowType DEF RepositoryFails, GoIdle, GoTo, TypeOK, provider, Claimed
<1>2. CASE Tick
    <2>1. ASSUME NEW u \in Users
          PROVE  [channel[u] EXCEPT !.lastTest = CountUp(@, TestInterval)] \in Channel
        <3>1. CountUp(channel[u].lastTest, TestInterval) \in Null..TestInterval
            BY Constants DEF CountUp, Smaller, TypeOK, Channel
        <3> QED BY <3>1, ChannelTested DEF TypeOK
    <2>2. ASSUME NEW u \in Users
          PROVE  /\ [check[u] EXCEPT !.copy = Aged(@)] \in Checks
                 /\ [check[u] EXCEPT !.copy = Aged(@)].pc = check[u].pc
                 /\ [check[u] EXCEPT !.copy = Aged(@)].id = check[u].id
        BY AgedType DEF TypeOK, Checks
    <2>3. row' \in [Deliveries -> Row] BY <1>2, AgedType DEF Tick, TypeOK
    <2>4. channel' \in [Users -> Channel] BY <1>2, <2>1 DEF Tick
    <2>5. /\ check' \in [Users -> Checks]
          /\ \A u \in Users : check'[u].pc = check[u].pc /\ check'[u].id = check[u].id
        BY <1>2, <2>2 DEF Tick
    <2> QED BY <1>2, <2>3, <2>4, <2>5 DEF Tick, TypeOK, Checks, dispatcher, provider, Claimed
<1>3. CASE Crash
    BY <1>3, NoRowType DEF Crash, GoTo, NoCheck, Answers, TypeOK, provider, Claimed
<1>4. CASE Restart
    BY <1>4, NoRowType DEF Restart, GoIdle, GoTo, TypeOK, provider, Claimed
<1> QED BY <1>1, <1>2, <1>3, <1>4

LEMMA TypeStep == TypeInv /\ [Next]_vars => TypeInv'
<1> SUFFICES ASSUME TypeInv, [Next]_vars PROVE TypeInv' OBVIOUS
<1>1. CASE UNCHANGED vars
    BY <1>1 DEF vars, TypeInv, TypeOK, Claimed
<1>2. CASE Next
    BY <1>2, TypeApi, TypeProduce, TypeProvider, TypeCycle, TypeProcess DEF Next
<1> QED BY <1>1, <1>2

\* Every variable of the outbox stays in its range: no delay exceeds the longest
\* backoff or status delay, whatever Retry-After the provider sends.
THEOREM TypeCorrect == Spec => []TypeOK
<1>1. Spec => []TypeInv BY TypeInit, TypeStep, PTL DEF Spec
<1>2. TypeInv => TypeOK BY DEF TypeInv
<1> QED BY <1>1, <1>2, PTL

-----------------------------------------------------------------------------
(* At most one push *)

\* No request for the delivery is under way and none was accepted.
Untouched(d) == pushes[d] = 0 /\ wire[d] = 0

\* A status under which nothing may have been sent.
Unsent(r) == \/ r.status \in {"absent", "cancelled", "suppressed"} \cup Queued
             \/ r.status = "failed" /\ ~r.record

Confirmable == {"accepted", "provider_succeeded", "uncertain", "failed"}

\* Rows: a delivery is sent or pushed once, an unsent row was not, and a record
\* id means the push was accepted.
RowsSafe ==
    \A d \in Deliveries :
        /\ pushes[d] + wire[d] <= 1
        /\ Unsent(row[d]) => Untouched(d)
        /\ row[d].record => pushes[d] = 1 /\ row[d].status \in Confirmable

\* The dispatcher between the claim of a queued row and its save.
SendSafe ==
    /\ pc \in {"prepare", "wire", "saveSend"} => row[cur].status = "sending" /\ ~row[cur].record
    /\ pc \in {"prepare", "wire"} => ~mem.record
    /\ pc = "prepare" => Untouched(cur)
    /\ pc = "wire" => \/ reply = "none"
                      \/ reply = "accepted" /\ pushes[cur] = 1
                      \/ reply \in {"retryable", "permanent"} /\ Untouched(cur)
    /\ pc # "wire" => reply = "none"
    /\ pc = "saveSend" =>
        /\ mem.status \in Confirmable \cup {"retry_wait", "cancelled", "suppressed"}
        /\ Unsent(mem) => Untouched(cur)
        /\ mem.record => pushes[cur] = 1 /\ mem.status = "accepted"

\* The dispatcher between the claim of an accepted row and its save.
ConfirmSafe ==
    /\ pc \in {"query", "saveConfirm"} => row[cur].record /\ mem.record
    /\ pc = "saveConfirm" => mem.status \in Confirmable

\* A recheck works on a row that has a record id.
ChecksSafe ==
    \A u \in Users :
        /\ check[u].pc # "idle" => row[check[u].id].record
        /\ check[u].pc = "save" => check[u].copy.record /\ check[u].copy.status \in Confirmable

SafeInv == TypeInv /\ RowsSafe /\ SendSafe /\ ConfirmSafe /\ ChecksSafe

LEMMA SafeInit == Init => SafeInv
BY TypeInit DEF SafeInv, Init, RowsSafe, SendSafe, ConfirmSafe, ChecksSafe, NoRow, NoCheck,
                Untouched, Unsent, Queued

\* Actions that change neither the rows nor the dispatcher nor the provider nor
\* a recheck.
LEMMA SafeQuiet ==
    ASSUME SafeInv, TypeInv', UNCHANGED <<row, dispatcher, check, provider>>
    PROVE  SafeInv'
BY DEF SafeInv, RowsSafe, SendSafe, ConfirmSafe, ChecksSafe, Untouched, Unsent, dispatcher, provider

\* Actions that only rewrite rows of a status Old to a status New: enough that
\* the rows the dispatcher or a recheck holds keep status and record.
LEMMA SafeRows ==
    ASSUME SafeInv, TypeInv', UNCHANGED <<dispatcher, check, provider>>,
           \A d \in Deliveries :
              \/ row'[d].status = row[d].status /\ row'[d].record = row[d].record
              \/ Unsent(row[d]) /\ ~row'[d].record
              \/ pc \notin {"prepare", "wire", "saveSend"} /\ row[d].status = "sending"
                   /\ row'[d].status = "uncertain" /\ ~row'[d].record
    PROVE  SafeInv'
<1>1. RowsSafe'
    BY DEF SafeInv, RowsSafe, Untouched, Unsent, Queued, Confirmable, provider
<1>2. SendSafe'
    BY DEF SafeInv, TypeInv, Claimed, SendSafe, Untouched, Unsent, Queued, provider, dispatcher
<1>3. ConfirmSafe' /\ ChecksSafe'
    BY DEF SafeInv, TypeInv, Claimed, RowsSafe, ConfirmSafe, ChecksSafe, Unsent, Queued, Confirmable, dispatcher
<1> QED BY <1>1, <1>2, <1>3 DEF SafeInv

LEMMA SafeApi ==
    ASSUME SafeInv, TypeInv', NEW u \in Users, Api(u)
    PROVE  SafeInv'
<1> USE DEF SafeInv
<1>1. CASE Bind(u)
    BY <1>1, SafeQuiet DEF Bind
<1>2. CASE UpdateChannel(u)
    BY <1>2, SafeQuiet DEF UpdateChannel
<1>3. CASE Unbind(u)
    <2>1. ASSUME NEW d \in Deliveries
          PROVE  \/ row'[d].status = row[d].status /\ row'[d].record = row[d].record
                 \/ Unsent(row[d]) /\ ~row'[d].record
        <3>1. row'[d] = CancelQueued(u)[d] BY <1>3 DEF Unbind
        <3>2. CASE row[d].status \in Queued
            <4>1. row'[d].record = row[d].record
                BY <3>1, FinishedType DEF CancelQueued, TypeInv, TypeOK, Statuses
            <4> QED BY <3>2, <4>1 DEF RowsSafe, Unsent, Queued, Confirmable
        <3>3. CASE row[d].status \notin Queued
            BY <3>1, <3>3 DEF CancelQueued
        <3> QED BY <3>2, <3>3
    <2> QED BY <1>3, <2>1, SafeRows DEF Unbind
<1>4. CASE RecheckLoad(u)
    <2>1. row[latest[u]].record BY <1>4 DEF RecheckLoad
    <2>2. check'[u].pc = "query" /\ check'[u].id = latest[u]
        BY <1>4 DEF RecheckLoad, TypeInv, TypeOK, NoCheck
    <2>3. \A v \in Users \ {u} : check'[v] = check[v]
        BY <1>4 DEF RecheckLoad, TypeInv, TypeOK
    <2>4. ChecksSafe'
        BY <1>4, <2>1, <2>2, <2>3 DEF RecheckLoad, ChecksSafe
    <2> QED BY <1>4, <2>4 DEF RecheckLoad, RowsSafe, SendSafe, ConfirmSafe, Untouched, Unsent, dispatcher, provider
<1>5. CASE RecheckQuery(u)
    <2>1. /\ check'[u].pc = "reload" /\ check'[u].id = check[u].id /\ check[u].pc = "query"
          /\ \A v \in Users \ {u} : check'[v] = check[v]
        BY <1>5 DEF RecheckQuery, TypeInv, TypeOK
    <2>2. ChecksSafe' BY <1>5, <2>1 DEF RecheckQuery, ChecksSafe
    <2> QED BY <1>5, <2>2 DEF RecheckQuery, RowsSafe, SendSafe, ConfirmSafe, Untouched, Unsent, dispatcher, provider
<1>6. CASE RecheckReload(u)
    <2> DEFINE d == check[u].id
               r == Rechecking(row[d], check[u].answer)
    <2>1. d \in Deliveries /\ row[d].record /\ check[u].pc = "reload"
        BY <1>6 DEF RecheckReload, TypeInv, Claimed, ChecksSafe
    <2>2. r.record /\ (row[d].status \in Rechecked => r.status \in Confirmable)
        <3>1. row[d] \in Row /\ check[u].answer \in Answers BY <2>1 DEF TypeInv, TypeOK
        <3>2. r.record = row[d].record /\ r.status \in {row[d].status, "provider_succeeded", "failed"}
            BY <3>1, RecheckingType
        <3> QED BY <2>1, <3>2 DEF Confirmable, Rechecked
    <2>3. \/ check'[u].pc = "idle"
          \/ check'[u].pc = "save" /\ check'[u].id = d /\ check'[u].copy = r
               /\ row[d].status \in Rechecked
        BY <1>6 DEF RecheckReload, TypeInv, TypeOK, NoCheck
    <2>4. \A v \in Users \ {u} : check'[v] = check[v]
        BY <1>6 DEF RecheckReload, TypeInv, TypeOK
    <2>5. ChecksSafe'
        BY <1>6, <2>1, <2>2, <2>3, <2>4 DEF RecheckReload, ChecksSafe
    <2> QED BY <1>6, <2>5 DEF RecheckReload, RowsSafe, SendSafe, ConfirmSafe, Untouched, Unsent, dispatcher, provider
<1>7. CASE RecheckSave(u)
    <2> DEFINE d == check[u].id
    <2>1. /\ d \in Deliveries /\ row[d].record
          /\ check[u].copy.record /\ check[u].copy.status \in Confirmable
        BY <1>7 DEF RecheckSave, TypeInv, Claimed, ChecksSafe
    <2>2. /\ row'[d].record /\ row'[d].status \in Confirmable
          /\ \A e \in Deliveries \ {d} : row'[e] = row[e]
        BY <1>7, <2>1 DEF RecheckSave, Save, TypeInv, TypeOK, RowsSafe
    <2>3. check'[u].pc = "idle" /\ \A v \in Users \ {u} : check'[v] = check[v]
        BY <1>7 DEF RecheckSave, TypeInv, TypeOK, NoCheck
    <2>4. UNCHANGED <<dispatcher, provider>> BY <1>7 DEF RecheckSave
    <2> HIDE DEF d
    <2>5. RowsSafe'
        BY <2>1, <2>2, <2>4 DEF RowsSafe, Untouched, Unsent, Queued, Confirmable, provider
    <2>6. SendSafe'
        BY <2>1, <2>2, <2>4 DEF SendSafe, TypeInv, Claimed, Untouched, Unsent, dispatcher, provider
    <2>7. ConfirmSafe'
        BY <2>1, <2>2, <2>4 DEF ConfirmSafe, TypeInv, Claimed, dispatcher
    <2>8. ChecksSafe'
        BY <2>1, <2>2, <2>3 DEF ChecksSafe, TypeInv, Claimed
    <2> QED BY <2>5, <2>6, <2>7, <2>8
<1> QED BY <1>1, <1>2, <1>3, <1>4, <1>5, <1>6, <1>7 DEF Api

LEMMA SafeProduce ==
    ASSUME SafeInv, TypeInv', NEW d \in Deliveries, Produce(d)
    PROVE  SafeInv'
<1> USE DEF SafeInv
<1>1. ASSUME NEW r, row[d].status = "absent", ~r.record,
             row' = [row EXCEPT ![d] = r],
             UNCHANGED <<dispatcher, check, provider>>
      PROVE  SafeInv'
    <2>1. Unsent(row[d]) BY <1>1 DEF Unsent
    <2>2. ~row'[d].record /\ \A e \in Deliveries \ {d} : row'[e] = row[e]
        BY <1>1 DEF TypeInv, TypeOK
    <2> QED BY <1>1, <2>1, <2>2, SafeRows
<1> DEFINE s == [NoRow EXCEPT !.status = "suppressed"]
           p == [NoRow EXCEPT !.status = "pending", !.next = 0]
<1>0. ~s.record /\ ~p.record BY DEF NoRow
<1>2. CASE Enqueue(d)
    <2>1. /\ row[d].status = "absent" /\ UNCHANGED <<dispatcher, check, provider>>
          /\ row' = [row EXCEPT ![d] = s] \/ row' = [row EXCEPT ![d] = p]
        BY <1>2 DEF Enqueue
    <2> HIDE DEF s, p
    <2> QED BY <1>0, <1>1, <2>1
<1>3. CASE CreateTest(d)
    <2>1. /\ row[d].status = "absent" /\ UNCHANGED <<dispatcher, check, provider>>
          /\ row' = [row EXCEPT ![d] = p]
        BY <1>3 DEF CreateTest
    <2> HIDE DEF s, p
    <2> QED BY <1>0, <1>1, <2>1
<1>4. CASE ClearNotification(d)
    BY <1>4, SafeQuiet DEF ClearNotification
<1> QED BY <1>2, <1>3, <1>4 DEF Produce

LEMMA SafeProvider ==
    ASSUME SafeInv, TypeInv', NEW d \in Deliveries, Provider(d)
    PROVE  SafeInv'
<1> USE DEF SafeInv
<1>1. CASE ProviderAccepts(d)
    <2>1. /\ wire[d] = 1 /\ pushes[d] = 0 /\ wire'[d] = 0 /\ pushes'[d] = 1
          /\ \A e \in Deliveries \ {d} : wire'[e] = wire[e] /\ pushes'[e] = pushes[e]
        <3>1. wire[d] \in Nat /\ pushes[d] \in Nat /\ wire[d] > 0 /\ pushes[d] + wire[d] <= 1
            BY <1>1 DEF ProviderAccepts, TypeInv, TypeOK, RowsSafe
        <3>2. wire[d] = 1 /\ pushes[d] = 0 BY <3>1
        <3> QED BY <1>1, <3>2 DEF ProviderAccepts, TypeInv, TypeOK
    <2>2. UNCHANGED <<row, pc, cur, mem, check>> /\ reply' = Reply(d, "accepted")
        BY <1>1 DEF ProviderAccepts
    <2>3. RowsSafe' BY <2>1, <2>2 DEF RowsSafe, Untouched, Unsent
    <2>4. SendSafe'
        BY <2>1, <2>2 DEF SendSafe, TypeInv, Claimed, Untouched, Unsent, Reply
    <2> QED BY <2>2, <2>3, <2>4 DEF ConfirmSafe, ChecksSafe
<1>2. CASE ProviderRejects(d)
    <2>1. /\ wire[d] = 1 /\ pushes[d] = 0 /\ wire'[d] = 0
          /\ \A e \in Deliveries \ {d} : wire'[e] = wire[e]
        <3>1. wire[d] \in Nat /\ pushes[d] \in Nat /\ wire[d] > 0 /\ pushes[d] + wire[d] <= 1
            BY <1>2 DEF ProviderRejects, TypeInv, TypeOK, RowsSafe
        <3>2. wire[d] = 1 /\ pushes[d] = 0 BY <3>1
        <3> QED BY <1>2, <3>2 DEF ProviderRejects, TypeInv, TypeOK
    <2>2. UNCHANGED <<row, pc, cur, mem, check, pushes>>
          /\ (reply' = Reply(d, "retryable") \/ reply' = Reply(d, "permanent"))
        BY <1>2 DEF ProviderRejects
    <2>3. RowsSafe' BY <2>1, <2>2 DEF RowsSafe, Untouched, Unsent
    <2>4. SendSafe'
        BY <2>1, <2>2 DEF SendSafe, TypeInv, Claimed, Untouched, Unsent, Reply
    <2> QED BY <2>2, <2>3, <2>4 DEF ConfirmSafe, ChecksSafe
<1>3. CASE ProviderSettles(d)
    BY <1>3 DEF ProviderSettles, RowsSafe, SendSafe, ConfirmSafe, ChecksSafe, Untouched, Unsent, dispatcher
<1> QED BY <1>1, <1>2, <1>3 DEF Provider

LEMMA SafeCycle ==
    ASSUME SafeInv, TypeInv', Cycle
    PROVE  SafeInv'
<1> USE DEF SafeInv
<1>1. CASE StartCycle
    <2>1. ASSUME NEW d \in Deliveries
          PROVE  \/ row'[d].status = row[d].status /\ row'[d].record = row[d].record
                 \/ row[d].status = "sending" /\ row'[d].status = "uncertain" /\ ~row'[d].record
        <3>1. row'[d] = RecoverStale[d] BY <1>1 DEF StartCycle
        <3>2. CASE row'[d] = Finished(row[d], "uncertain") /\ row[d].status = "sending"
            <4>1. row'[d].record = row[d].record /\ row'[d].status = "uncertain"
                BY <3>2, FinishedType DEF TypeInv, TypeOK, Statuses
            <4> QED BY <3>2, <4>1 DEF RowsSafe, Confirmable
        <3> QED BY <3>1, <3>2 DEF RecoverStale
    <2>2. /\ UNCHANGED <<check, wire, pushes, outcome>>
          /\ pc' = "claimAccepted" /\ reply' = "none"
        BY <1>1 DEF StartCycle, GoTo, provider
    <2>3. RowsSafe'
        BY <2>1, <2>2 DEF RowsSafe, Untouched, Unsent, Queued, Confirmable
    <2>4. ChecksSafe'
        BY <2>1, <2>2 DEF ChecksSafe, TypeInv, Claimed, RowsSafe, Confirmable
    <2> QED BY <2>2, <2>3, <2>4 DEF SendSafe, ConfirmSafe
<1>2. CASE ClaimAccepted
    <2>1. ASSUME NEW d \in Deliveries, AcceptedDue(d),
                 row' = [row EXCEPT ![d] = Leased(row[d])], GoTo("query", d, Leased(row[d]))
          PROVE  SafeInv'
        <3>1. /\ Leased(row[d]).status = "accepted" /\ Leased(row[d]).record
              /\ row[d].status = "accepted" /\ row[d].record
            BY <2>1 DEF AcceptedDue, Leased, TypeInv, TypeOK, Row
        <3>2. row'[d] = Leased(row[d]) /\ \A e \in Deliveries \ {d} : row'[e] = row[e]
            BY <2>1 DEF TypeInv, TypeOK
        <3>3. UNCHANGED <<check, wire, pushes, outcome>>
            BY <1>2 DEF ClaimAccepted, provider
        <3>4. /\ pc' = "query" /\ cur' = d /\ mem' = Leased(row[d]) /\ reply' = "none"
            BY <2>1 DEF GoTo
        <3>5. RowsSafe' BY <3>1, <3>2, <3>3 DEF RowsSafe, Untouched, Unsent, Queued
        <3>6. SendSafe' /\ ConfirmSafe'
            BY <3>1, <3>2, <3>4 DEF SendSafe, ConfirmSafe
        <3>7. ChecksSafe' BY <3>1, <3>2, <3>3 DEF ChecksSafe, TypeInv, Claimed
        <3> QED BY <3>5, <3>6, <3>7
    <2>2. ASSUME GoTo("claimQueued", NoDelivery, NoRow), UNCHANGED row
          PROVE  SafeInv'
        BY <1>2, <2>2 DEF ClaimAccepted, GoTo, RowsSafe, SendSafe, ConfirmSafe, ChecksSafe,
                          Untouched, Unsent, provider
    <2> QED BY <1>2, <2>1, <2>2 DEF ClaimAccepted
<1>3. CASE QueryStatus
    <2>1. PICK answer \in QueryAnswers(cur) : GoTo("saveConfirm", cur, Confirmed(mem, answer))
        BY <1>3 DEF QueryStatus
    <2>2. cur \in Deliveries /\ mem.record /\ row[cur].record
        BY <1>3 DEF QueryStatus, TypeInv, Claimed, ConfirmSafe
    <2>3. answer \in Answers BY <2>1, <2>2, QueryAnswersType DEF TypeInv
    <2>4. Confirmed(mem, answer).record /\ Confirmed(mem, answer).status \in Confirmable
        BY <2>2, <2>3, ConfirmedType DEF TypeInv, TypeOK, Confirmable
    <2> QED BY <1>3, <2>1, <2>2, <2>4 DEF QueryStatus, GoTo, RowsSafe, SendSafe, ConfirmSafe, ChecksSafe,
                                          Untouched, Unsent, provider
<1>4. CASE SaveConfirm
    <2>1. cur \in Deliveries /\ mem.record /\ mem.status \in Confirmable /\ row[cur].record
        BY <1>4 DEF SaveConfirm, TypeInv, Claimed, ConfirmSafe
    <2>2. /\ row'[cur].record /\ row'[cur].status \in Confirmable
          /\ \A e \in Deliveries \ {cur} : row'[e] = row[e]
        BY <1>4, <2>1 DEF SaveConfirm, Save, TypeInv, TypeOK, RowsSafe
    <2>3. /\ UNCHANGED <<check, wire, pushes, outcome>>
          /\ pc' \in {"idle", "claimQueued"} /\ reply' = "none"
        BY <1>4 DEF SaveConfirm, GoIdle, GoTo, provider
    <2>4. RowsSafe'
        BY <2>1, <2>2, <2>3 DEF RowsSafe, Untouched, Unsent, Queued, Confirmable
    <2>5. ChecksSafe' BY <2>1, <2>2, <2>3 DEF ChecksSafe, TypeInv, Claimed
    <2> QED BY <2>3, <2>4, <2>5 DEF SendSafe, ConfirmSafe
<1>5. CASE ClaimQueued
    <2> DEFINE R(d) == [row[d] EXCEPT !.status = "sending", !.claimed = 0, !.attempts = @ + 1]
    <2>1. ASSUME NEW d \in Deliveries, QueuedDue(d),
                 row' = [row EXCEPT ![d] = R(d)], GoTo("prepare", d, R(d))
          PROVE  SafeInv'
        <3>1. Untouched(d) /\ ~row[d].record /\ Unsent(row[d])
            BY <2>1 DEF QueuedDue, RowsSafe, Unsent, Queued, Confirmable
        <3>2. R(d).status = "sending" /\ ~R(d).record
            BY <3>1 DEF TypeInv, TypeOK, Row
        <3>3. row'[d] = R(d) /\ \A e \in Deliveries \ {d} : row'[e] = row[e]
            BY <2>1 DEF TypeInv, TypeOK
        <3>4. UNCHANGED <<check, wire, pushes, outcome>>
            BY <1>5 DEF ClaimQueued, provider
        <3>5. /\ pc' = "prepare" /\ cur' = d /\ mem' = R(d) /\ reply' = "none"
            BY <2>1 DEF GoTo
        <3> HIDE DEF R
        <3>6. RowsSafe'
            BY <3>1, <3>2, <3>3, <3>4 DEF RowsSafe, Untouched, Unsent, Queued
        <3>7. SendSafe' /\ ConfirmSafe'
            BY <3>1, <3>2, <3>3, <3>4, <3>5 DEF SendSafe, ConfirmSafe, Untouched
        <3>8. ChecksSafe'
            BY <3>1, <3>3, <3>4 DEF ChecksSafe, TypeInv, Claimed
        <3> QED BY <3>6, <3>7, <3>8
    <2>2. ASSUME GoIdle, UNCHANGED row
          PROVE  SafeInv'
        BY <1>5, <2>2 DEF ClaimQueued, GoIdle, GoTo, RowsSafe, SendSafe, ConfirmSafe, ChecksSafe,
                          Untouched, Unsent, provider
    <2> QED BY <1>5, <2>1, <2>2 DEF ClaimQueued
<1>6. CASE Refuse
    <2>1. PICK s \in Refusals(cur) : GoTo("saveSend", cur, Finished(mem, s))
        BY <1>6 DEF Refuse
    <2>2. s \in {"uncertain", "cancelled", "suppressed"} BY <2>1, RefusalsType
    <2>3. Finished(mem, s).status = s /\ ~Finished(mem, s).record
        BY <1>6, <2>2, FinishedType DEF Refuse, SendSafe, TypeInv, TypeOK, Statuses
    <2> QED BY <1>6, <2>1, <2>2, <2>3 DEF Refuse, GoTo, RowsSafe, SendSafe, ConfirmSafe, ChecksSafe,
                                          Untouched, Unsent, Confirmable, provider
<1>7. CASE Send
    <2>1. cur \in Deliveries /\ wire[cur] = 0 /\ pushes[cur] = 0 /\ row[cur].status = "sending"
          /\ ~row[cur].record /\ reply = "none" /\ ~mem.record
        BY <1>7 DEF Send, TypeInv, Claimed, SendSafe, Untouched
    <2>2. wire'[cur] = 1 /\ \A e \in Deliveries \ {cur} : wire'[e] = wire[e]
        BY <1>7, <2>1 DEF Send, TypeInv, TypeOK
    <2>3. UNCHANGED <<row, check, pushes, outcome, cur, mem, reply>> /\ pc' = "wire"
        BY <1>7 DEF Send
    <2>4. RowsSafe' BY <2>1, <2>2, <2>3 DEF RowsSafe, Untouched, Unsent, Queued
    <2> QED BY <2>1, <2>3, <2>4 DEF SendSafe, ConfirmSafe, ChecksSafe
<1>8. CASE SendSucceeds
    <2>1. Accepted(mem).record /\ Accepted(mem).status = "accepted"
        BY AcceptedType DEF TypeInv, TypeOK
    <2> QED BY <1>8, <2>1 DEF SendSucceeds, GoTo, RowsSafe, SendSafe, ConfirmSafe, ChecksSafe,
                              Untouched, Unsent, Queued, Confirmable, provider
<1>9. CASE SendFails
    <2>1. PICK error \in SendErrors, retryAfter \in RetryAfters :
                /\ error # "ambiguous" => reply = error
                /\ GoTo("saveSend", cur, SendFailed(mem, error, retryAfter))
        BY <1>9 DEF SendFails
    <2> DEFINE r == SendFailed(mem, error, retryAfter)
    <2>2. mem \in Row /\ mem.attempts >= 1 /\ ~mem.record
        BY <1>9 DEF SendFails, TypeInv, TypeOK, Claimed, SendSafe
    <2>3. /\ ~r.record /\ r.status \in {"uncertain", "retry_wait", "failed"}
          /\ error = "ambiguous" <=> r.status = "uncertain"
        BY <2>2, SendFailedType
    <2>4. Unsent(r) => Untouched(cur)
        BY <1>9, <2>1, <2>3 DEF SendFails, SendSafe, Unsent, Queued, SendErrors
    <2>5. pc' = "saveSend" /\ cur' = cur /\ mem' = r /\ reply' = "none"
        BY <2>1 DEF GoTo
    <2>6. UNCHANGED <<row, check, wire, pushes, outcome>> BY <1>9 DEF SendFails, provider
    <2> HIDE DEF r
    <2>7. SendSafe'
        BY <1>9, <2>3, <2>4, <2>5, <2>6 DEF SendFails, SendSafe, Untouched, Unsent, Confirmable
    <2> QED BY <2>5, <2>6, <2>7 DEF RowsSafe, ConfirmSafe, ChecksSafe, Untouched, Unsent
<1>10. CASE SaveSend
    <2>1. /\ cur \in Deliveries /\ row[cur].status = "sending" /\ ~row[cur].record
          /\ Unsent(mem) => Untouched(cur)
          /\ mem.record => pushes[cur] = 1 /\ mem.status = "accepted"
        BY <1>10 DEF SaveSend, TypeInv, Claimed, SendSafe
    <2>2. /\ row'[cur] \in {row[cur], mem}
          /\ \A e \in Deliveries \ {cur} : row'[e] = row[e]
        BY <1>10, <2>1 DEF SaveSend, Save, TypeInv, TypeOK
    <2>3. /\ UNCHANGED <<check, wire, pushes, outcome>>
          /\ pc' = "idle" /\ reply' = "none"
        BY <1>10 DEF SaveSend, GoIdle, GoTo, provider
    <2>4. RowsSafe'
        BY <2>1, <2>2, <2>3 DEF RowsSafe, Untouched, Unsent, Confirmable
    <2>5. ChecksSafe' BY <2>1, <2>2, <2>3 DEF ChecksSafe, TypeInv, Claimed
    <2> QED BY <2>3, <2>4, <2>5 DEF SendSafe, ConfirmSafe
<1> QED BY <1>1, <1>2, <1>3, <1>4, <1>5, <1>6, <1>7, <1>8, <1>9, <1>10 DEF Cycle

LEMMA SafeProcess ==
    ASSUME SafeInv, TypeInv', RepositoryFails \/ Tick \/ Crash \/ Restart
    PROVE  SafeInv'
<1> USE DEF SafeInv
<1>1. CASE RepositoryFails
    BY <1>1 DEF RepositoryFails, GoIdle, GoTo, RowsSafe, SendSafe, ConfirmSafe, ChecksSafe,
                Untouched, Unsent, provider
<1>2. CASE Tick
    <2>1. \A d \in Deliveries : /\ row'[d].status = row[d].status /\ row'[d].record = row[d].record
        BY <1>2, AgedType DEF Tick, TypeInv, TypeOK
    <2>2. \A u \in Users : /\ check'[u].pc = check[u].pc /\ check'[u].id = check[u].id
                           /\ check'[u].copy.status = check[u].copy.status
                           /\ check'[u].copy.record = check[u].copy.record
        BY <1>2, AgedType DEF Tick, TypeInv, TypeOK
    <2>3. UNCHANGED <<dispatcher, provider>> /\ pc \in {"idle", "down"} BY <1>2 DEF Tick
    <2>4. RowsSafe' BY <2>1, <2>3 DEF RowsSafe, Untouched, Unsent, provider
    <2>5. ChecksSafe' BY <2>1, <2>2 DEF ChecksSafe, TypeInv, Claimed
    <2> QED BY <2>3, <2>4, <2>5 DEF SendSafe, ConfirmSafe, dispatcher
<1>3. CASE Crash
    BY <1>3 DEF Crash, GoTo, NoCheck, RowsSafe, SendSafe, ConfirmSafe, ChecksSafe,
                Untouched, Unsent, provider
<1>4. CASE Restart
    BY <1>4 DEF Restart, GoIdle, GoTo, RowsSafe, SendSafe, ConfirmSafe, ChecksSafe,
                Untouched, Unsent, provider
<1> QED BY <1>1, <1>2, <1>3, <1>4

LEMMA SafeStep == SafeInv /\ [Next]_vars => SafeInv'
<1> SUFFICES ASSUME SafeInv, [Next]_vars PROVE SafeInv' OBVIOUS
<1>0. TypeInv' BY TypeStep DEF SafeInv
<1>1. CASE UNCHANGED vars
    BY <1>0, <1>1, SafeQuiet DEF vars, dispatcher, provider
<1>2. CASE Next
    BY <1>0, <1>2, SafeApi, SafeProduce, SafeProvider, SafeCycle, SafeProcess DEF Next
<1> QED BY <1>1, <1>2

LEMMA Safe == Spec => []SafeInv
BY SafeInit, SafeStep, PTL DEF Spec

\* However sends, timeouts, crashes, restarts and rechecks interleave, the
\* provider takes each delivery at most once.
THEOREM PushedAtMostOnce == Spec => []AtMostOnePush
<1>1. SafeInv => AtMostOnePush BY DEF SafeInv, RowsSafe, AtMostOnePush
<1> QED BY <1>1, Safe, PTL

\* A cancelled, suppressed or rejected row was never pushed and has no request
\* under way.
THEOREM DroppedUnpushed == Spec => []DroppedNeverPushed
<1>1. SafeInv => DroppedNeverPushed
    BY DEF SafeInv, RowsSafe, DroppedNeverPushed, Dropped, Unsent, Untouched
<1> QED BY <1>1, Safe, PTL

\* A row with a sendRecordId never returns to the send queue.
THEOREM RecordStaysOut == Spec => []RecordNeverRequeued
<1>1. SafeInv => RecordNeverRequeued
    BY DEF SafeInv, RowsSafe, RecordNeverRequeued, Confirmable, Queued
<1> QED BY <1>1, Safe, PTL

-----------------------------------------------------------------------------
(***************************************************************************)
(* What the rows of the outbox say of their deliveries, and the promise    *)
(* the outbox implements, on top of the at-most-one-push invariant.        *)
(***************************************************************************)

-----------------------------------------------------------------------------
(* Attempts: one condition on every row and on every copy of a row *)

WithinAttempts(r) == /\ r.attempts <= MaxAttempts
                     /\ r.status \in Queued => r.attempts < MaxAttempts

AttemptsInv ==
    /\ \A d \in Deliveries : WithinAttempts(row[d])
    /\ WithinAttempts(mem)
    /\ \A u \in Users : WithinAttempts(check[u].copy)

\* What each way of building a copy does to its attempts.
LEMMA FinishedWithin ==
    ASSUME NEW r \in Row, WithinAttempts(r), NEW s \in Statuses \ Queued
    PROVE  WithinAttempts(Finished(r, s))
BY FinishedType DEF WithinAttempts

LEMMA AgedWithin ==
    ASSUME NEW r \in Row, WithinAttempts(r)
    PROVE  WithinAttempts(Aged(r))
BY AgedType DEF WithinAttempts

LEMMA NoRowWithin == WithinAttempts(NoRow)
BY Constants DEF WithinAttempts, NoRow, Queued

LEMMA ConfirmedWithin ==
    ASSUME NEW r \in Row, WithinAttempts(r), NEW answer \in Answers
    PROVE  WithinAttempts(Confirmed(r, answer))
<1>1. Rescheduled(r).attempts = r.attempts
    <2>1. CASE r.accepted = Null \/ r.accepted >= StatusDelay[3]
        BY <2>1, FinishedType DEF Rescheduled, Statuses
    <2>2. CASE ~(r.accepted = Null \/ r.accepted >= StatusDelay[3])
        BY <2>2 DEF Rescheduled, Row
    <2> QED BY <2>1, <2>2
<1>2. WithinAttempts(Rescheduled(r))
    BY <1>1, RescheduledType DEF WithinAttempts, Queued
<1> QED BY <1>2, FinishedWithin DEF Confirmed, Statuses, Queued

LEMMA RecheckingWithin ==
    ASSUME NEW r \in Row, WithinAttempts(r), NEW answer \in Answers
    PROVE  WithinAttempts(Rechecking(r, answer))
BY FinishedWithin DEF Rechecking, Statuses, Queued

LEMMA SendFailedWithin ==
    ASSUME NEW r \in Row, WithinAttempts(r), NEW error, NEW retryAfter
    PROVE  WithinAttempts(SendFailed(r, error, retryAfter))
<1>1. CASE error = "retryable" /\ r.attempts < MaxAttempts
    BY <1>1, Constants DEF SendFailed, WithinAttempts, Row
<1>2. CASE ~(error = "retryable" /\ r.attempts < MaxAttempts)
    BY <1>2, FinishedWithin DEF SendFailed, Statuses, Queued
<1> QED BY <1>1, <1>2

\* A save writes the copy, whose attempts are bounded, or nothing.
LEMMA SaveWithin ==
    ASSUME TypeOK, AttemptsInv, NEW d \in Deliveries, NEW r \in Row, WithinAttempts(r), Save(d, r)
    PROVE  \A e \in Deliveries : WithinAttempts(row'[e])
BY DEF TypeOK, AttemptsInv, Save

\* The idle dispatcher holds the empty copy.
LEMMA GoToWithin ==
    ASSUME NEW step, NEW d, NEW r, GoTo(step, d, r), WithinAttempts(r)
    PROVE  WithinAttempts(mem')
BY DEF GoTo

LEMMA GoIdleWithin ==
    ASSUME GoIdle
    PROVE  WithinAttempts(mem')
BY NoRowWithin, GoToWithin DEF GoIdle

LEMMA AttemptsInit == Init => AttemptsInv
BY NoRowWithin DEF Init, AttemptsInv, NoCheck

LEMMA AttemptsApi ==
    ASSUME TypeInv, AttemptsInv, NEW u \in Users, Api(u)
    PROVE  AttemptsInv'
<1> USE DEF AttemptsInv
<1>0. /\ \A d \in Deliveries : row[d] \in Row
      /\ \A v \in Users : check[v] \in Checks
      /\ check \in [Users -> Checks]
    BY DEF TypeInv, TypeOK, Checks
<1>1. CASE Bind(u) \/ UpdateChannel(u)
    BY <1>1 DEF Bind, UpdateChannel, dispatcher
<1>2. CASE Unbind(u)
    <2>1. ASSUME NEW d \in Deliveries PROVE WithinAttempts(row'[d])
        <3>1. row'[d] = CancelQueued(u)[d] BY <1>2 DEF Unbind
        <3> QED BY <1>0, <3>1, FinishedWithin DEF CancelQueued, Statuses, Queued
    <2> QED BY <1>2, <2>1 DEF Unbind, dispatcher
<1>3. CASE RecheckLoad(u)
    <2>1. check'[u].copy = NoRow /\ \A v \in Users \ {u} : check'[v] = check[v]
        BY <1>0, <1>3 DEF RecheckLoad, NoCheck
    <2> QED BY <1>3, <2>1, NoRowWithin DEF RecheckLoad, dispatcher
<1>4. CASE RecheckQuery(u)
    <2>1. check'[u].copy = check[u].copy /\ \A v \in Users \ {u} : check'[v] = check[v]
        BY <1>0, <1>4 DEF RecheckQuery, Checks
    <2> QED BY <1>4, <2>1 DEF RecheckQuery, dispatcher
<1>5. CASE RecheckReload(u)
    <2> DEFINE r == Rechecking(row[check[u].id], check[u].answer)
    <2>1. check[u].id \in Deliveries /\ check[u].answer \in Answers
        BY <1>0, <1>5 DEF RecheckReload, TypeInv, Claimed, Checks
    <2>2. WithinAttempts(r) BY <1>0, <2>1, RecheckingWithin
    <2>3. /\ check'[u].copy \in {r, NoRow}
          /\ \A v \in Users \ {u} : check'[v] = check[v]
        BY <1>0, <1>5 DEF RecheckReload, Checks, NoCheck
    <2> HIDE DEF r
    <2> QED BY <1>5, <2>2, <2>3, NoRowWithin DEF RecheckReload, dispatcher
<1>6. CASE RecheckSave(u)
    <2>1. check[u].id \in Deliveries /\ check[u].copy \in Row
        BY <1>0, <1>6 DEF RecheckSave, TypeInv, Claimed, Checks
    <2>2. \A e \in Deliveries : WithinAttempts(row'[e])
        BY <1>6, <2>1, SaveWithin DEF RecheckSave, TypeInv
    <2>3. check'[u].copy = NoRow /\ \A v \in Users \ {u} : check'[v] = check[v]
        BY <1>0, <1>6 DEF RecheckSave, NoCheck
    <2> QED BY <1>6, <2>2, <2>3, NoRowWithin DEF RecheckSave, dispatcher
<1> QED BY <1>1, <1>2, <1>3, <1>4, <1>5, <1>6 DEF Api

LEMMA AttemptsProduce ==
    ASSUME TypeInv, AttemptsInv, NEW d \in Deliveries, Produce(d)
    PROVE  AttemptsInv'
<1> USE DEF AttemptsInv
<1> DEFINE s == [NoRow EXCEPT !.status = "suppressed"]
           p == [NoRow EXCEPT !.status = "pending", !.next = 0]
<1>1. WithinAttempts(s) /\ WithinAttempts(p)
    BY DeliveryAssumption DEF WithinAttempts, NoRow, Queued
<1>2. /\ UNCHANGED <<mem, check>>
      /\ \/ UNCHANGED row
         \/ row' = [row EXCEPT ![d] = s]
         \/ row' = [row EXCEPT ![d] = p]
    BY DEF Produce, Enqueue, CreateTest, ClearNotification, dispatcher
<1> HIDE DEF s, p
<1> QED BY <1>1, <1>2 DEF TypeInv, TypeOK

LEMMA AttemptsCycle ==
    ASSUME TypeInv, AttemptsInv, Cycle
    PROVE  AttemptsInv'
<1> USE DEF AttemptsInv
<1>0. /\ \A d \in Deliveries : row[d] \in Row
      /\ row \in [Deliveries -> Row] /\ mem \in Row /\ TypeOK
    BY DEF TypeInv, TypeOK
<1>1. CASE StartCycle
    <2>1. ASSUME NEW d \in Deliveries PROVE WithinAttempts(row'[d])
        <3>1. row'[d] = RecoverStale[d] BY <1>1 DEF StartCycle
        <3> QED BY <1>0, <3>1, FinishedWithin DEF RecoverStale, Statuses, Queued
    <2> QED BY <1>1, <2>1, NoRowWithin, GoToWithin DEF StartCycle
<1>2. CASE ClaimAccepted
    <2>1. ASSUME NEW d \in Deliveries PROVE WithinAttempts(Leased(row[d]))
        <3>1. Leased(row[d]).attempts = row[d].attempts /\ Leased(row[d]).status = row[d].status
            BY <1>0 DEF Leased, Row
        <3> QED BY <3>1 DEF WithinAttempts
    <2>2. ASSUME NEW d \in Deliveries, row' = [row EXCEPT ![d] = Leased(row[d])],
                 GoTo("query", d, Leased(row[d]))
          PROVE  AttemptsInv'
        BY <1>0, <1>2, <2>1, <2>2, GoToWithin DEF ClaimAccepted
    <2>3. ASSUME UNCHANGED row, GoTo("claimQueued", NoDelivery, NoRow)
          PROVE  AttemptsInv'
        BY <1>2, <2>3, NoRowWithin, GoToWithin DEF ClaimAccepted
    <2> QED BY <1>2, <2>2, <2>3 DEF ClaimAccepted
<1>3. CASE QueryStatus
    <2>1. PICK answer \in QueryAnswers(cur) : GoTo("saveConfirm", cur, Confirmed(mem, answer))
        BY <1>3 DEF QueryStatus
    <2>2. answer \in Answers
        BY <1>3, <2>1, QueryAnswersType DEF QueryStatus, TypeInv, Claimed
    <2> QED BY <1>0, <1>3, <2>1, <2>2, ConfirmedWithin, GoToWithin DEF QueryStatus
<1>4. CASE SaveConfirm
    <2>1. \A e \in Deliveries : WithinAttempts(row'[e])
        BY <1>0, <1>4, SaveWithin DEF SaveConfirm, TypeInv, Claimed
    <2> QED BY <1>4, <2>1, NoRowWithin, GoToWithin, GoIdleWithin DEF SaveConfirm
<1>5. CASE ClaimQueued
    <2> DEFINE R(d) == [row[d] EXCEPT !.status = "sending", !.claimed = 0, !.attempts = @ + 1]
    <2>1. ASSUME NEW d \in Deliveries, QueuedDue(d)
          PROVE  WithinAttempts(R(d))
        <3>1. R(d).attempts = row[d].attempts + 1 /\ R(d).status = "sending"
            BY <1>0 DEF Row
        <3>2. row[d].attempts \in Nat /\ row[d].attempts < MaxAttempts
            BY <1>0, <2>1 DEF QueuedDue, WithinAttempts, Row
        <3> QED BY <3>1, <3>2, Constants DEF WithinAttempts, Queued
    <2>2. ASSUME NEW d \in Deliveries, QueuedDue(d),
                 row' = [row EXCEPT ![d] = R(d)], GoTo("prepare", d, R(d))
          PROVE  AttemptsInv'
        <3>1. WithinAttempts(R(d)) BY <2>1, <2>2
        <3>2. UNCHANGED check BY <1>5 DEF ClaimQueued
        <3> HIDE DEF R
        <3> QED BY <1>0, <2>2, <3>1, <3>2, GoToWithin
    <2>3. ASSUME UNCHANGED row, GoIdle
          PROVE  AttemptsInv'
        BY <1>5, <2>3, GoIdleWithin DEF ClaimQueued
    <2> QED BY <1>5, <2>2, <2>3 DEF ClaimQueued
<1>6. CASE Refuse
    <2>1. PICK s \in Refusals(cur) : GoTo("saveSend", cur, Finished(mem, s))
        BY <1>6 DEF Refuse
    <2>2. WithinAttempts(Finished(mem, s))
        BY <1>0, <2>1, RefusalsType, FinishedWithin DEF Statuses, Queued
    <2> QED BY <1>6, <2>1, <2>2, GoToWithin DEF Refuse
<1>7. CASE Send
    BY <1>7 DEF Send
<1>8. CASE SendSucceeds
    <2>1. WithinAttempts(Accepted(mem))
        BY <1>0 DEF WithinAttempts, Accepted, Row, Queued
    <2> QED BY <1>8, <2>1, GoToWithin DEF SendSucceeds
<1>9. CASE SendFails
    <2>1. PICK error \in SendErrors, retryAfter \in RetryAfters :
                GoTo("saveSend", cur, SendFailed(mem, error, retryAfter))
        BY <1>9 DEF SendFails
    <2> QED BY <1>0, <1>9, <2>1, SendFailedWithin, GoToWithin DEF SendFails
<1>10. CASE SaveSend
    <2>1. \A e \in Deliveries : WithinAttempts(row'[e])
        BY <1>0, <1>10, SaveWithin DEF SaveSend, TypeInv, Claimed
    <2> QED BY <1>10, <2>1, GoIdleWithin DEF SaveSend
<1> QED BY <1>1, <1>2, <1>3, <1>4, <1>5, <1>6, <1>7, <1>8, <1>9, <1>10 DEF Cycle

LEMMA AttemptsStep == TypeInv /\ AttemptsInv /\ [Next]_vars => AttemptsInv'
<1> SUFFICES ASSUME TypeInv, AttemptsInv, [Next]_vars PROVE AttemptsInv' OBVIOUS
<1>1. CASE UNCHANGED <<row, mem, check>>
    BY <1>1 DEF AttemptsInv
<1>2. ASSUME NEW d \in Deliveries, Provider(d) PROVE UNCHANGED <<row, mem, check>>
    BY <1>2 DEF Provider, ProviderAccepts, ProviderRejects, ProviderSettles, dispatcher
<1>3. CASE RepositoryFails \/ Restart
    BY <1>3, GoIdleWithin DEF RepositoryFails, Restart, AttemptsInv
<1>4. CASE Tick
    <2>1. \A d \in Deliveries : row'[d] = Aged(row[d]) BY <1>4 DEF Tick
    <2>2. \A u \in Users : check'[u].copy = Aged(check[u].copy) BY <1>4 DEF Tick, TypeInv, TypeOK
    <2>3. UNCHANGED mem BY <1>4 DEF Tick, dispatcher
    <2> QED BY <2>1, <2>2, <2>3, AgedWithin DEF AttemptsInv, TypeInv, TypeOK
<1>5. CASE Crash
    BY <1>5, NoRowWithin, GoToWithin DEF Crash, AttemptsInv, NoCheck
<1>6. CASE UNCHANGED vars
    BY <1>1, <1>6 DEF vars, dispatcher
<1> QED BY <1>1, <1>2, <1>3, <1>4, <1>5, <1>6, AttemptsApi, AttemptsProduce, AttemptsCycle DEF Next

-----------------------------------------------------------------------------
(* Success: whoever holds the answer or a row written from it, holds the outcome *)

\* A settled outcome belongs to the one push of its delivery, so that no later
\* push takes it back.
OutcomeOfPush == \A d \in Deliveries : outcome[d] # "none" => pushes[d] = 1

MemGenuine == pc \in {"saveConfirm", "saveSend"} /\ mem.status = "provider_succeeded"
                => outcome[cur] = "succeeded"

CheckGenuine(u) ==
    LET c == check[u]
    IN /\ c.pc = "reload" /\ c.answer = "succeeded" => outcome[c.id] = "succeeded"
       /\ c.pc = "save" /\ c.copy.status = "provider_succeeded" => outcome[c.id] = "succeeded"

GenuineInv == /\ SuccessIsGenuine /\ OutcomeOfPush /\ MemGenuine
              /\ \A u \in Users : CheckGenuine(u)

LEMMA GenuineInit == Init => GenuineInv
BY DEF Init, GenuineInv, SuccessIsGenuine, OutcomeOfPush, MemGenuine, CheckGenuine, NoRow, NoCheck

\* Actions that leave the provider alone: it is enough to look at the rows and
\* copies they write.
LEMMA GenuineMove ==
    ASSUME GenuineInv, UNCHANGED <<pushes, outcome>>,
           \A d \in Deliveries : row'[d].status = "provider_succeeded"
                => row[d].status = "provider_succeeded" \/ outcome[d] = "succeeded",
           UNCHANGED <<pc, cur, mem>> \/ MemGenuine',
           \A u \in Users : check'[u] = check[u] \/ CheckGenuine(u)'
    PROVE  GenuineInv'
BY DEF GenuineInv, SuccessIsGenuine, OutcomeOfPush, MemGenuine, CheckGenuine

\* The same for a save of a copy that is known to be genuine.
LEMMA SaveGenuine ==
    ASSUME TypeOK, NEW d \in Deliveries, NEW r \in Row, Save(d, r),
           r.status = "provider_succeeded" => outcome[d] = "succeeded"
    PROVE  \A e \in Deliveries : row'[e].status = "provider_succeeded"
                => row[e].status = "provider_succeeded" \/ outcome[e] = "succeeded"
BY DEF TypeOK, Save

LEMMA GenuineProvider ==
    ASSUME SafeInv, GenuineInv, NEW d \in Deliveries, Provider(d)
    PROVE  GenuineInv'
<1> USE DEF GenuineInv
<1>1. UNCHANGED <<row, pc, cur, mem, check>>
    BY DEF Provider, ProviderAccepts, ProviderRejects, ProviderSettles, dispatcher
<1>2. /\ \A e \in Deliveries : outcome[e] = "succeeded" => outcome'[e] = "succeeded"
      /\ OutcomeOfPush'
    <2>1. CASE ProviderAccepts(d)
        <3>1. wire[d] \in Nat /\ pushes[d] \in Nat /\ wire[d] > 0 /\ pushes[d] + wire[d] <= 1
            BY <2>1 DEF ProviderAccepts, SafeInv, TypeInv, TypeOK, RowsSafe
        <3>2. pushes[d] = 0 BY <3>1
        <3>3. outcome[d] = "none" BY <3>2 DEF OutcomeOfPush
        <3> QED BY <2>1, <3>2, <3>3 DEF ProviderAccepts, OutcomeOfPush, SafeInv, TypeInv, TypeOK
    <2>2. CASE ProviderRejects(d)
        BY <2>2 DEF ProviderRejects, OutcomeOfPush
    <2>3. CASE ProviderSettles(d)
        BY <2>3 DEF ProviderSettles, OutcomeOfPush, SafeInv, TypeInv, TypeOK
    <2> QED BY <2>1, <2>2, <2>3 DEF Provider
<1>3. SuccessIsGenuine' BY <1>1, <1>2 DEF SuccessIsGenuine
<1>4. MemGenuine' BY <1>1, <1>2 DEF MemGenuine, SafeInv, TypeInv, Claimed
<1>5. \A u \in Users : CheckGenuine(u)'
    BY <1>1, <1>2 DEF CheckGenuine, SafeInv, TypeInv, Claimed
<1> QED BY <1>2, <1>3, <1>4, <1>5

LEMMA GenuineApi ==
    ASSUME SafeInv, GenuineInv, NEW u \in Users, Api(u)
    PROVE  GenuineInv'
<1>0. /\ \A d \in Deliveries : row[d] \in Row
      /\ check \in [Users -> Checks] /\ TypeOK
      /\ check[u].pc # "idle" => check[u].id \in Deliveries
      /\ CheckGenuine(u) /\ UNCHANGED <<pc, cur, mem>>
    BY DEF SafeInv, TypeInv, TypeOK, Checks, Claimed, GenuineInv, Api, Bind, UpdateChannel, Unbind,
           RecheckLoad, RecheckQuery, RecheckReload, RecheckSave, dispatcher
<1>1. CASE Bind(u) \/ UpdateChannel(u)
    BY <1>0, <1>1, GenuineMove DEF Bind, UpdateChannel, provider
<1>2. CASE Unbind(u)
    <2>1. ASSUME NEW d \in Deliveries, row'[d].status = "provider_succeeded"
          PROVE  row[d].status = "provider_succeeded"
        <3>1. row'[d] = CancelQueued(u)[d] BY <1>2 DEF Unbind
        <3> QED BY <1>0, <2>1, <3>1, FinishedType DEF CancelQueued, Statuses
    <2> QED BY <1>0, <1>2, <2>1, GenuineMove DEF Unbind, provider
<1>3. CASE RecheckLoad(u)
    <2>1. check'[u].pc = "query" /\ \A v \in Users \ {u} : check'[v] = check[v]
        BY <1>0, <1>3 DEF RecheckLoad, NoCheck
    <2>2. CheckGenuine(u)' BY <2>1 DEF CheckGenuine
    <2> QED BY <1>0, <1>3, <2>1, <2>2, GenuineMove DEF RecheckLoad, provider
<1>4. CASE RecheckQuery(u)
    <2>1. PICK answer \in QueryAnswers(check[u].id) :
                check' = [check EXCEPT ![u] = [check[u] EXCEPT !.pc = "reload", !.answer = answer]]
        BY <1>0, <1>4 DEF RecheckQuery
    <2>2. /\ check'[u].pc = "reload" /\ check'[u].id = check[u].id /\ check'[u].answer = answer
          /\ \A v \in Users \ {u} : check'[v] = check[v]
        BY <1>0, <2>1 DEF Checks
    <2>3. answer = "succeeded" => outcome[check[u].id] = "succeeded"
        BY <2>1 DEF QueryAnswers
    <2>4. UNCHANGED <<row, pushes, outcome>> BY <1>4 DEF RecheckQuery, provider
    <2>5. CheckGenuine(u)' BY <2>2, <2>3, <2>4 DEF CheckGenuine
    <2> QED BY <1>0, <2>2, <2>4, <2>5, GenuineMove
<1>5. CASE RecheckReload(u)
    <2> DEFINE d == check[u].id
               r == Rechecking(row[d], check[u].answer)
    <2>1. check[u].pc = "reload" /\ check[u].answer \in Answers /\ d \in Deliveries
        BY <1>0, <1>5 DEF RecheckReload, Checks
    <2>2. row[d].status \in Rechecked /\ r.status = "provider_succeeded"
            => check[u].answer = "succeeded"
        BY <1>0, <2>1, FinishedType DEF Rechecking, Rechecked, Statuses
    <2>3. /\ \A v \in Users \ {u} : check'[v] = check[v]
          /\ \/ check'[u].pc = "idle"
             \/ /\ row[d].status \in Rechecked
                /\ check'[u].pc = "save" /\ check'[u].id = d /\ check'[u].copy = r
        BY <1>0, <1>5 DEF RecheckReload, Checks, NoCheck
    <2>4. UNCHANGED <<row, pushes, outcome>> BY <1>5 DEF RecheckReload, provider
    <2>5. check[u].answer = "succeeded" => outcome[d] = "succeeded"
        BY <1>0, <2>1 DEF CheckGenuine
    <2>6. CheckGenuine(u)'
        <3>1. CASE check'[u].pc = "idle"
            BY <3>1 DEF CheckGenuine
        <3>2. CASE /\ row[d].status \in Rechecked
                   /\ check'[u].pc = "save" /\ check'[u].id = d /\ check'[u].copy = r
            <4>1. check'[u].copy.status = "provider_succeeded" => outcome'[check'[u].id] = "succeeded"
                BY <2>2, <2>4, <2>5, <3>2
            <4> QED BY <3>2, <4>1 DEF CheckGenuine
        <3> QED BY <2>3, <3>1, <3>2
    <2> QED BY <1>0, <2>3, <2>4, <2>6, GenuineMove
<1>6. CASE RecheckSave(u)
    <2>1. /\ check[u].pc = "save" /\ check[u].copy \in Row /\ check[u].id \in Deliveries
          /\ Save(check[u].id, check[u].copy) /\ UNCHANGED <<pushes, outcome>>
        BY <1>0, <1>6 DEF RecheckSave, Checks, provider
    <2>2. check[u].copy.status = "provider_succeeded" => outcome[check[u].id] = "succeeded"
        BY <1>0, <2>1 DEF CheckGenuine
    <2>3. check'[u].pc = "idle" /\ \A v \in Users \ {u} : check'[v] = check[v]
        BY <1>0, <1>6 DEF RecheckSave, NoCheck
    <2>4. CheckGenuine(u)' BY <2>3 DEF CheckGenuine
    <2> QED BY <1>0, <2>1, <2>2, <2>3, <2>4, SaveGenuine, GenuineMove
<1> QED BY <1>1, <1>2, <1>3, <1>4, <1>5, <1>6 DEF Api

LEMMA GenuineProduce ==
    ASSUME SafeInv, GenuineInv, NEW d \in Deliveries, Produce(d)
    PROVE  GenuineInv'
<1>1. UNCHANGED <<pc, cur, mem, check, pushes, outcome>>
    BY DEF Produce, Enqueue, CreateTest, ClearNotification, dispatcher, provider
<1> DEFINE s == [NoRow EXCEPT !.status = "suppressed"]
           p == [NoRow EXCEPT !.status = "pending", !.next = 0]
<1>2. s.status = "suppressed" /\ p.status = "pending" BY DEF NoRow
<1>3. \/ UNCHANGED row
      \/ row' = [row EXCEPT ![d] = s]
      \/ row' = [row EXCEPT ![d] = p]
    BY DEF Produce, Enqueue, CreateTest, ClearNotification
<1> HIDE DEF s, p
<1>4. \A e \in Deliveries : row'[e].status = "provider_succeeded" => row[e].status = "provider_succeeded"
    BY <1>2, <1>3 DEF SafeInv, TypeInv, TypeOK
<1> QED BY <1>1, <1>4, GenuineMove

LEMMA GenuineCycle ==
    ASSUME SafeInv, GenuineInv, Cycle
    PROVE  GenuineInv'
<1>0. /\ UNCHANGED <<check, pushes, outcome>> /\ mem \in Row /\ TypeOK
      /\ row \in [Deliveries -> Row]
      /\ pc \in {"query", "saveConfirm", "prepare", "wire", "saveSend"} => cur \in Deliveries
    BY DEF Cycle, StartCycle, ClaimAccepted, QueryStatus, SaveConfirm, ClaimQueued, Refuse, Send,
           SendSucceeds, SendFails, SaveSend, SafeInv, TypeInv, TypeOK, Claimed, provider
<1>1. ASSUME NEW step, NEW d, NEW r, GoTo(step, d, r),
             step \in {"saveConfirm", "saveSend"} /\ r.status = "provider_succeeded"
                => outcome[d] = "succeeded"
      PROVE  MemGenuine'
    BY <1>0, <1>1 DEF GoTo, MemGenuine
<1>2. NoRow.status # "provider_succeeded" BY DEF NoRow
<1>3. CASE StartCycle
    <2>1. ASSUME NEW d \in Deliveries, row'[d].status = "provider_succeeded"
          PROVE  row[d].status = "provider_succeeded"
        <3>1. row'[d] = RecoverStale[d] BY <1>3 DEF StartCycle
        <3> QED BY <1>0, <2>1, <3>1, FinishedType DEF RecoverStale, Statuses
    <2>2. MemGenuine' BY <1>1, <1>2, <1>3 DEF StartCycle
    <2> QED BY <1>0, <2>1, <2>2, GenuineMove
<1>4. CASE ClaimAccepted
    <2>1. ASSUME NEW d \in Deliveries PROVE Leased(row[d]).status = row[d].status
        BY <1>0 DEF Leased, Row
    <2>2. \A d \in Deliveries : row'[d].status = row[d].status
        BY <1>0, <1>4, <2>1 DEF ClaimAccepted
    <2>3. pc' \in {"query", "claimQueued"} BY <1>4 DEF ClaimAccepted, GoTo
    <2> QED BY <1>0, <2>2, <2>3, GenuineMove DEF MemGenuine
<1>5. CASE QueryStatus
    <2>1. PICK answer \in QueryAnswers(cur) : GoTo("saveConfirm", cur, Confirmed(mem, answer))
        BY <1>5 DEF QueryStatus
    <2>2. answer \in Answers
        BY <1>0, <1>5, <2>1, QueryAnswersType DEF QueryStatus
    <2>3. Confirmed(mem, answer).status = "provider_succeeded" => answer = "succeeded"
        BY <1>0, <2>2, FinishedType, RescheduledType DEF Confirmed, Statuses
    <2>4. answer = "succeeded" => outcome[cur] = "succeeded"
        BY <2>1 DEF QueryAnswers
    <2>5. MemGenuine' BY <1>1, <2>1, <2>3, <2>4
    <2> QED BY <1>0, <1>5, <2>5, GenuineMove DEF QueryStatus
<1>6. CASE SaveConfirm \/ SaveSend
    <2>1. mem.status = "provider_succeeded" => outcome[cur] = "succeeded"
        BY <1>6 DEF SaveConfirm, SaveSend, GenuineInv, MemGenuine
    <2>2. pc' \in {"idle", "claimQueued"}
        BY <1>6 DEF SaveConfirm, SaveSend, GoIdle, GoTo
    <2>3. Save(cur, mem) /\ cur \in Deliveries BY <1>0, <1>6 DEF SaveConfirm, SaveSend
    <2> QED BY <1>0, <2>1, <2>2, <2>3, SaveGenuine, GenuineMove DEF MemGenuine
<1>7. CASE ClaimQueued
    <2> DEFINE R(d) == [row[d] EXCEPT !.status = "sending", !.claimed = 0, !.attempts = @ + 1]
    <2>1. ASSUME NEW d \in Deliveries PROVE R(d).status = "sending"
        BY <1>0 DEF Row
    <2>2. pc' \in {"idle", "prepare"} BY <1>7 DEF ClaimQueued, GoIdle, GoTo
    <2>3. UNCHANGED row \/ \E d \in Deliveries : row' = [row EXCEPT ![d] = R(d)]
        BY <1>7 DEF ClaimQueued
    <2> HIDE DEF R
    <2>4. \A e \in Deliveries : row'[e].status = "provider_succeeded" => row[e].status = "provider_succeeded"
        BY <1>0, <2>1, <2>3
    <2> QED BY <1>0, <2>2, <2>4, GenuineMove DEF MemGenuine
<1>8. CASE Refuse
    <2>1. PICK s \in Refusals(cur) : GoTo("saveSend", cur, Finished(mem, s))
        BY <1>8 DEF Refuse
    <2>2. Finished(mem, s).status # "provider_succeeded"
        BY <1>0, <2>1, RefusalsType, FinishedType DEF Statuses
    <2>3. MemGenuine' BY <1>1, <2>1, <2>2
    <2> QED BY <1>0, <1>8, <2>3, GenuineMove DEF Refuse
<1>9. CASE Send
    <2>1. pc' = "wire" /\ UNCHANGED row BY <1>9 DEF Send
    <2> QED BY <1>0, <2>1, GenuineMove DEF MemGenuine
<1>10. CASE SendSucceeds
    <2>1. MemGenuine'
        BY <1>0, <1>1, <1>10, AcceptedType DEF SendSucceeds
    <2> QED BY <1>0, <1>10, <2>1, GenuineMove DEF SendSucceeds
<1>11. CASE SendFails
    <2>1. PICK error \in SendErrors, retryAfter \in RetryAfters :
                GoTo("saveSend", cur, SendFailed(mem, error, retryAfter))
        BY <1>11 DEF SendFails
    <2>2. SendFailed(mem, error, retryAfter).status # "provider_succeeded"
        BY <1>0, <1>11, SendFailedType DEF SendFails, SafeInv, TypeInv, Claimed
    <2>3. MemGenuine' BY <1>1, <2>1, <2>2
    <2> QED BY <1>0, <1>11, <2>3, GenuineMove DEF SendFails
<1> QED BY <1>3, <1>4, <1>5, <1>6, <1>7, <1>8, <1>9, <1>10, <1>11 DEF Cycle

LEMMA GenuineProcess ==
    ASSUME SafeInv, GenuineInv, RepositoryFails \/ Tick \/ Crash \/ Restart
    PROVE  GenuineInv'
<1>0. UNCHANGED <<pushes, outcome>>
    BY DEF RepositoryFails, Tick, Crash, Restart, provider
<1>1. CASE RepositoryFails \/ Restart
    <2>1. pc' = "idle" /\ UNCHANGED <<row, check>>
        BY <1>1 DEF RepositoryFails, Restart, GoIdle, GoTo
    <2> QED BY <1>0, <2>1, GenuineMove DEF MemGenuine
<1>2. CASE Tick
    <2>1. \A d \in Deliveries : row'[d].status = row[d].status
        BY <1>2, AgedType DEF Tick, SafeInv, TypeInv, TypeOK
    <2>2. \A u \in Users :
            /\ check'[u].pc = check[u].pc /\ check'[u].id = check[u].id
            /\ check'[u].answer = check[u].answer
            /\ check'[u].copy.status = check[u].copy.status
        BY <1>2, AgedType DEF Tick, SafeInv, TypeInv, TypeOK
    <2>3. \A u \in Users : CheckGenuine(u)' BY <1>0, <2>2 DEF GenuineInv, CheckGenuine
    <2>4. UNCHANGED <<pc, cur, mem>> BY <1>2 DEF Tick, dispatcher
    <2> QED BY <1>0, <2>1, <2>3, <2>4, GenuineMove
<1>3. CASE Crash
    <2>1. pc' = "down" /\ UNCHANGED row /\ \A u \in Users : check'[u].pc = "idle"
        BY <1>3 DEF Crash, GoTo, NoCheck
    <2> QED BY <1>0, <2>1, GenuineMove DEF MemGenuine, CheckGenuine
<1> QED BY <1>1, <1>2, <1>3

LEMMA GenuineStep == SafeInv /\ GenuineInv /\ [Next]_vars => GenuineInv'
<1> SUFFICES ASSUME SafeInv, GenuineInv, [Next]_vars PROVE GenuineInv' OBVIOUS
<1>1. CASE UNCHANGED vars
    BY <1>1, GenuineMove DEF vars, dispatcher, provider
<1> QED BY <1>1, GenuineApi, GenuineProduce, GenuineProvider, GenuineCycle, GenuineProcess DEF Next

\* A row says "processed" only of a delivery the provider processed, whatever
\* stale copies the dispatcher and the rechecks save; and it waits for another
\* attempt only while one is left.
THEOREM RowsStaySound == Spec => []RowsAreSound
<1>1. Spec => []TypeInv BY TypeInit, TypeStep, PTL DEF Spec
<1>2. Spec => []AttemptsInv BY <1>1, AttemptsInit, AttemptsStep, PTL DEF Spec
<1>3. Spec => []GenuineInv BY Safe, GenuineInit, GenuineStep, PTL DEF Spec
<1>4. AttemptsInv /\ GenuineInv => RowsAreSound
    BY DEF AttemptsInv, WithinAttempts, Queued, GenuineInv, RowsAreSound, AttemptsBounded
<1> QED BY <1>2, <1>3, <1>4, PTL

-----------------------------------------------------------------------------
(* What one step may do to a row *)

\* The steps that the life of a row consists of.
Kept(d) == row'[d].status = row[d].status /\ row'[d].record = row[d].record

Moved(d) ==
    \/ Kept(d)
    \/ row[d].status = "absent" /\ row'[d].status \in {"pending", "suppressed"}
    \/ row[d].status \in Queued /\ row'[d].status \in {"sending", "cancelled"}
    \/ /\ row[d].status = "sending"
       /\ row'[d].status \in Confirmable \cup {"retry_wait", "cancelled", "suppressed"}
       /\ Unsent(row'[d]) => Untouched(d)
    \/ row[d].record /\ row'[d].record /\ row'[d].status \in Confirmable

LEMMA MovedApi ==
    ASSUME SafeInv, NEW u \in Users, Api(u), NEW d \in Deliveries
    PROVE  Moved(d)
<1>0. \A e \in Deliveries : row[e] \in Row
    BY DEF SafeInv, TypeInv, TypeOK
<1>1. CASE UNCHANGED row
    BY <1>1 DEF Moved, Kept
<1>2. CASE Unbind(u)
    <2>1. row'[d] = CancelQueued(u)[d] BY <1>2 DEF Unbind
    <2> QED BY <1>0, <2>1, FinishedType DEF CancelQueued, Statuses, Moved, Kept
<1>3. CASE RecheckSave(u)
    <2>1. /\ check[u].id \in Deliveries /\ row[check[u].id].record
          /\ check[u].copy.record /\ check[u].copy.status \in Confirmable
        BY <1>3 DEF RecheckSave, SafeInv, TypeInv, Claimed, ChecksSafe
    <2>2. row'[d] = row[d] \/ (d = check[u].id /\ row'[d] = check[u].copy)
        BY <1>3, <2>1 DEF RecheckSave, Save, SafeInv, TypeInv, TypeOK
    <2> QED BY <2>1, <2>2 DEF Moved, Kept
<1> QED BY <1>1, <1>2, <1>3 DEF Api, Bind, UpdateChannel, RecheckLoad, RecheckQuery, RecheckReload

LEMMA MovedProduce ==
    ASSUME SafeInv, NEW e \in Deliveries, Produce(e), NEW d \in Deliveries
    PROVE  Moved(d)
<1> DEFINE s == [NoRow EXCEPT !.status = "suppressed"]
           p == [NoRow EXCEPT !.status = "pending", !.next = 0]
<1>1. s.status = "suppressed" /\ p.status = "pending" BY DEF NoRow
<1>2. \/ UNCHANGED row
      \/ row[e].status = "absent" /\ row' = [row EXCEPT ![e] = s]
      \/ row[e].status = "absent" /\ row' = [row EXCEPT ![e] = p]
    BY DEF Produce, Enqueue, CreateTest, ClearNotification
<1> HIDE DEF s, p
<1>3. \/ row'[d] = row[d]
      \/ row[d].status = "absent" /\ row'[d] \in {s, p}
    BY <1>2 DEF SafeInv, TypeInv, TypeOK
<1> QED BY <1>1, <1>3 DEF Moved, Kept

LEMMA MovedCycle ==
    ASSUME SafeInv, Cycle, NEW d \in Deliveries
    PROVE  Moved(d)
<1>0. (\A e \in Deliveries : row[e] \in Row) /\ row \in [Deliveries -> Row]
    BY DEF SafeInv, TypeInv, TypeOK
<1>1. CASE UNCHANGED row
    BY <1>1 DEF Moved, Kept
<1>2. CASE StartCycle
    <2>1. row'[d] = RecoverStale[d] BY <1>2 DEF StartCycle
    <2> QED BY <1>0, <2>1, FinishedType DEF RecoverStale, Statuses, Moved, Kept, Confirmable, Unsent, Queued
<1>3. CASE ClaimAccepted
    <2>1. /\ Leased(row[d]).status = row[d].status
          /\ Leased(row[d]).record = row[d].record
        BY <1>0 DEF Leased, Row
    <2>2. row'[d] = row[d] \/ row'[d] = Leased(row[d])
        BY <1>0, <1>3 DEF ClaimAccepted
    <2> QED BY <2>1, <2>2 DEF Moved, Kept
<1>4. CASE SaveConfirm
    <2>1. cur \in Deliveries /\ mem.record /\ mem.status \in Confirmable /\ row[cur].record
        BY <1>4 DEF SaveConfirm, SafeInv, TypeInv, Claimed, ConfirmSafe
    <2>2. row'[d] = row[d] \/ (d = cur /\ row'[d] = mem)
        BY <1>0, <1>4, <2>1 DEF SaveConfirm, Save
    <2> QED BY <2>1, <2>2 DEF Moved, Kept
<1>5. CASE ClaimQueued
    <2> DEFINE R(e) == [row[e] EXCEPT !.status = "sending", !.claimed = 0, !.attempts = @ + 1]
    <2>1. R(d).status = "sending" BY <1>0 DEF Row
    <2>2. \/ UNCHANGED row
          \/ \E e \in Deliveries : row[e].status \in Queued /\ row' = [row EXCEPT ![e] = R(e)]
        BY <1>5 DEF ClaimQueued, QueuedDue
    <2> HIDE DEF R
    <2>3. row'[d] = row[d] \/ (row[d].status \in Queued /\ row'[d] = R(d))
        BY <1>0, <2>2
    <2> QED BY <2>1, <2>3 DEF Moved, Kept
<1>6. CASE SaveSend
    <2>1. /\ cur \in Deliveries /\ row[cur].status = "sending"
          /\ mem.status \in Confirmable \cup {"retry_wait", "cancelled", "suppressed"}
          /\ Unsent(mem) => Untouched(cur)
        BY <1>6 DEF SaveSend, SafeInv, TypeInv, Claimed, SendSafe
    <2>2. row'[d] = row[d] \/ (d = cur /\ row'[d] = mem)
        BY <1>0, <1>6, <2>1 DEF SaveSend, Save
    <2> QED BY <2>1, <2>2 DEF Moved, Kept
<1> QED BY <1>1, <1>2, <1>3, <1>4, <1>5, <1>6
        DEF Cycle, QueryStatus, Refuse, Send, SendSucceeds, SendFails

LEMMA StepMoves ==
    ASSUME SafeInv, [Next]_vars, NEW d \in Deliveries
    PROVE  Moved(d)
<1>1. CASE UNCHANGED row
    BY <1>1 DEF Moved, Kept
<1>2. CASE Tick
    BY <1>2, AgedType DEF Tick, Moved, Kept, SafeInv, TypeInv, TypeOK
<1>3. ASSUME NEW e \in Deliveries, Provider(e) PROVE UNCHANGED row
    BY <1>3 DEF Provider, ProviderAccepts, ProviderRejects, ProviderSettles
<1>4. CASE UNCHANGED vars
    BY <1>1, <1>4 DEF vars
<1> QED BY <1>1, <1>2, <1>3, <1>4, MovedApi, MovedProduce, MovedCycle
        DEF Next, RepositoryFails, Crash, Restart

\* A dropped row stays as it is: no cycle that claimed it earlier, and no
\* recheck, writes it back.
THEOREM DroppedStays == Spec => DroppedIsFinal
<1>1. ASSUME SafeInv, [Next]_vars, NEW d \in Deliveries, Dropped(d)
      PROVE  row'[d].status = row[d].status
    BY <1>1, StepMoves DEF Moved, Kept, Dropped, SafeInv, RowsSafe, Queued, Confirmable
<1>2. SafeInv /\ [Next]_vars
        => [\A d \in Deliveries : Dropped(d) => row'[d].status = row[d].status]_vars
    BY <1>1
<1> QED BY <1>2, Safe, PTL DEF Spec, DroppedIsFinal

-----------------------------------------------------------------------------
(* The refinement of DeliveryPromise *)

\* What one step may do to the pushes of a delivery: one more when its only
\* request is accepted, which leaves the rows alone.
PushMoved(d) ==
    \/ pushes'[d] = pushes[d]
    \/ pushes[d] = 0 /\ pushes'[d] = 1 /\ wire[d] > 0 /\ row'[d] = row[d]

LEMMA StepPushes ==
    ASSUME SafeInv, [Next]_vars, NEW d \in Deliveries
    PROVE  PushMoved(d)
<1>1. CASE UNCHANGED pushes
    BY <1>1 DEF PushMoved
<1>2. ASSUME NEW e \in Deliveries, ProviderAccepts(e) PROVE PushMoved(d)
    <2>1. wire[e] \in Nat /\ pushes[e] \in Nat /\ wire[e] > 0 /\ pushes[e] + wire[e] <= 1
        BY <1>2 DEF ProviderAccepts, SafeInv, TypeInv, TypeOK, RowsSafe
    <2>2. pushes[e] = 0 BY <2>1
    <2> QED BY <1>2, <2>1, <2>2 DEF ProviderAccepts, PushMoved, SafeInv, TypeInv, TypeOK
<1>3. ASSUME NEW e \in Deliveries, Provider(e) PROVE PushMoved(d)
    BY <1>1, <1>2, <1>3 DEF Provider, ProviderRejects, ProviderSettles
<1>4. ASSUME NEW e \in Deliveries, Produce(e) PROVE UNCHANGED pushes
    BY <1>4 DEF Produce, Enqueue, CreateTest, ClearNotification, provider
<1>5. ASSUME NEW u \in Users, Api(u) PROVE UNCHANGED pushes
    BY <1>5 DEF Api, Bind, UpdateChannel, Unbind, RecheckLoad, RecheckQuery, RecheckReload,
                RecheckSave, provider
<1>6. ASSUME Cycle PROVE UNCHANGED pushes
    BY <1>6 DEF Cycle, StartCycle, ClaimAccepted, QueryStatus, SaveConfirm, ClaimQueued, Refuse,
                Send, SendSucceeds, SendFails, SaveSend, provider
<1>7. ASSUME RepositoryFails \/ Tick \/ Crash \/ Restart PROVE UNCHANGED pushes
    BY <1>7 DEF RepositoryFails, Tick, Crash, Restart, provider
<1>8. ASSUME UNCHANGED vars PROVE UNCHANGED pushes
    BY <1>8 DEF vars, provider
<1> QED BY <1>1, <1>3, <1>4, <1>5, <1>6, <1>7, <1>8 DEF Next

\* The step of the promise that a step of the outbox is for each delivery.
LEMMA StepKeepsPromise ==
    ASSUME SafeInv, [Next]_vars, NEW d \in Deliveries
    PROVE  \/ Phase(d)' = Phase(d) /\ pushes'[d] = pushes[d]
           \/ Phase(d) = "none" /\ Phase(d)' \in {"queued", "dropped"}
                /\ pushes[d] = 0 /\ pushes'[d] = 0
           \/ Phase(d) = "queued" /\ Phase(d)' = "dropped" /\ pushes[d] = 0 /\ pushes'[d] = 0
           \/ Phase(d) = "queued" /\ Phase(d)' = "ended" /\ pushes'[d] = pushes[d]
           \/ Phase(d) \in {"queued", "ended"} /\ Phase(d)' = Phase(d)
                /\ pushes[d] = 0 /\ pushes'[d] = 1
<1>1. Moved(d) /\ PushMoved(d) BY StepMoves, StepPushes
<1>2. /\ Unsent(row[d]) => pushes[d] = 0 /\ wire[d] = 0
      /\ row[d].record => row[d].status \in Confirmable
      /\ row[d] \in Row
    BY DEF SafeInv, RowsSafe, Untouched, TypeInv, TypeOK
<1>3. (Unsent(row'[d]) => pushes'[d] = 0) /\ row'[d] \in Row
    BY SafeStep DEF SafeInv, RowsSafe, Untouched, TypeInv, TypeOK
<1>4. CASE pushes'[d] # pushes[d]
    <2>1. Phase(d)' = Phase(d) BY <1>1, <1>4 DEF PushMoved, Phase, Dropped
    <2>2. ~Unsent(row[d]) BY <1>1, <1>2, <1>4 DEF PushMoved
    <2>3. Phase(d) \in {"queued", "ended"} BY <2>2 DEF Phase, Dropped, Unsent
    <2> QED BY <1>1, <1>4, <2>1, <2>3 DEF PushMoved
<1>5. CASE pushes'[d] = pushes[d]
    <2>1. CASE Kept(d)
        BY <1>5, <2>1 DEF Kept, Phase, Dropped
    <2>2. CASE row[d].status = "absent" /\ row'[d].status \in {"pending", "suppressed"}
        BY <1>2, <1>5, <2>2 DEF Phase, Dropped, Unsent, Queued
    <2>3. CASE row[d].status \in Queued /\ row'[d].status \in {"sending", "cancelled"}
        BY <1>2, <1>5, <2>3 DEF Phase, Dropped, Unsent, Queued
    <2>4. CASE /\ row[d].status = "sending"
               /\ row'[d].status \in Confirmable \cup {"retry_wait", "cancelled", "suppressed"}
        <3>1. Phase(d) = "queued" BY <2>4 DEF Phase, Dropped
        <3>2. Phase(d)' = "dropped" => Unsent(row'[d])
            BY DEF Phase, Dropped, Unsent
        <3>3. Phase(d)' \in {"queued", "dropped", "ended"}
            BY <2>4 DEF Phase, Confirmable
        <3> QED BY <1>3, <1>5, <3>1, <3>2, <3>3
    <2>5. CASE row[d].record /\ row'[d].record /\ row'[d].status \in Confirmable
        <3>1. row[d].status \in Confirmable BY <1>2, <2>5
        <3>2. Phase(d) = "ended" /\ Phase(d)' = "ended"
            BY <2>5, <3>1 DEF Phase, Dropped, Confirmable, Queued
        <3> QED BY <1>5, <3>2
    <2> QED BY <1>1, <2>1, <2>2, <2>3, <2>4, <2>5 DEF Moved
<1> QED BY <1>4, <1>5

\* The outbox implements DeliveryPromise: whatever the dispatcher, the rechecks,
\* the channel operations and the crashes do, each delivery only takes the
\* steps the promise allows.
THEOREM OutboxKeepsPromise == Spec => ImplementsPromise
<1>1. Init => Promise!Init
    BY DEF Init, Promise!Init, Phase, NoRow, Dropped, Queued
<1>2. SafeInv /\ [Next]_vars => [Promise!Next]_<<[d \in Deliveries |-> Phase(d)], pushes>>
    <2> SUFFICES ASSUME SafeInv, [Next]_vars PROVE Promise!Next OBVIOUS
    <2>1. SafeInv' BY SafeStep
    <2>2. \A d \in Deliveries : Phase(d)' \in Promise!Phases
        BY DEF Phase, Promise!Phases
    <2>3. pushes' \in [Deliveries -> 0..1]
        <3>1. \A d \in Deliveries : pushes'[d] \in Nat /\ wire'[d] \in Nat /\ pushes'[d] + wire'[d] <= 1
            BY <2>1 DEF SafeInv, TypeInv, TypeOK, RowsSafe
        <3>2. \A d \in Deliveries : pushes'[d] \in 0..1 BY <3>1
        <3>3. pushes' \in [Deliveries -> Nat] BY <2>1 DEF SafeInv, TypeInv, TypeOK
        <3> QED BY <3>2, <3>3
    <2>4. \A d \in Deliveries : \/ Promise!Submit(d) \/ Promise!Drop(d) \/ Promise!End(d)
                                \/ Promise!Push(d) \/ Promise!Stay(d)
        BY StepKeepsPromise
           DEF Promise!Submit, Promise!Drop, Promise!End, Promise!Push, Promise!Stay, Promise!Unpushed
    <2> QED BY <2>2, <2>3, <2>4 DEF Promise!Next
<1> QED BY <1>1, <1>2, Safe, PTL DEF Spec, ImplementsPromise, Promise!Spec
=============================================================================
