--------------------------- MODULE NotificationDelivery ---------------------------
(***************************************************************************)
(* The WxPusher outbox: the rows of notification_deliveries, the single    *)
(* dispatcher goroutine that drains them, the manual recheck of a test     *)
(* delivery, the channel operations that touch queued rows, and the        *)
(* provider as the code sees it.                                           *)
(*                                                                         *)
(* Time is counted in quanta longer than one dispatcher cycle (the cycle   *)
(* reads the clock once and uses that value for every write).  A timestamp *)
(* of a row is kept relative to the present: `next` counts down to 0, the  *)
(* ages `claimed` and `accepted` count up to the largest delay that any    *)
(* comparison uses.  Rows and the copies of rows that a goroutine holds in *)
(* memory age together.                                                    *)
(***************************************************************************)
EXTENDS Integers, FiniteSets

CONSTANTS
    Deliveries,     \* ids of outbox rows
    Tests,          \* those created by "send a test message"
    Users, Owner,   \* accounts, and the account of each delivery
    NoDelivery,     \* no row
    Lease,          \* notificationDeliveryLease
    StatusDelay,    \* notificationStatusDelays, 1..3
    SendBackoff,    \* notificationSendBackoffs, 1..MaxAttempts-1
    MaxAttempts,    \* maxNotificationSendAttempts
    MaxBackoff,     \* maxNotificationRetryBackoff
    RetryAfters,    \* Retry-After values the provider may return
    TestInterval,   \* the minute between two test messages
    TestDayMax,     \* wxPusherTestDayMax
    MaxFaults       \* bound on crashes and repository errors

ASSUME DeliveryAssumption ==
    /\ Tests \subseteq Deliveries
    /\ Owner \in [Deliveries -> Users]
    /\ NoDelivery \notin Deliveries
    /\ Lease \in Nat \ {0}
    /\ StatusDelay \in [1..3 -> Nat \ {0}]
    /\ StatusDelay[1] < StatusDelay[2] /\ StatusDelay[2] < StatusDelay[3]
    /\ MaxAttempts \in Nat \ {0}
    /\ SendBackoff \in [1..(MaxAttempts - 1) -> Nat \ {0}]
    /\ MaxBackoff \in Nat \ {0}
    /\ RetryAfters \subseteq Nat /\ 0 \in RetryAfters
    /\ TestInterval \in Nat \ {0}
    /\ TestDayMax \in Nat
    /\ MaxFaults \in Nat

VARIABLES
    row,        \* notification_deliveries, one record per id
    cleared,    \* ids whose row a cascade deleted (their last record is kept)
    channel,    \* wxpusher_bindings, one record per user
    pc, cur, mem, reply,    \* the dispatcher goroutine: step, row id, copy, answer
    check,      \* one manual recheck call per user
    latest,     \* newest test delivery of each user (created_at DESC)
    wire,       \* send requests issued and not yet handled by the provider
    pushes,     \* pushes the provider accepted
    outcome,    \* what the provider made of the accepted push
    faults      \* crashes and repository errors so far

vars == <<row, cleared, channel, pc, cur, mem, reply, check, latest, wire,
          pushes, outcome, faults>>
dispatcher == <<pc, cur, mem, reply>>
provider == <<wire, pushes, outcome>>

-----------------------------------------------------------------------------
(* Rows *)

Null == -1

Statuses == {"absent", "pending", "sending", "accepted", "provider_succeeded",
             "retry_wait", "suppressed", "uncertain", "failed", "cancelled"}
Queued == {"pending", "retry_wait"}
Rechecked == {"accepted", "uncertain"}

\* Statuses no dispatcher cycle picks up again.
Settled == {"provider_succeeded", "suppressed", "uncertain", "failed", "cancelled"}

Larger(a, b) == IF a > b THEN a ELSE b
Smaller(a, b) == IF a < b THEN a ELSE b

\* The longest a row can have to wait.
MaxDelay == Larger(MaxBackoff, StatusDelay[3])

Row == [status: Statuses, attempts: Nat, record: BOOLEAN, next: Null..MaxDelay,
        claimed: Null..Lease, accepted: Null..StatusDelay[3]]

NoRow == [status |-> "absent", attempts |-> 0, next |-> Null, claimed |-> Null,
          record |-> FALSE, accepted |-> Null]

Channel == [bound: BOOLEAN, enabled: BOOLEAN, wants: BOOLEAN, lastTest: Null..TestInterval]
NoChannel == [bound |-> FALSE, enabled |-> FALSE, wants |-> FALSE, lastTest |-> Null]

Present(d) == row[d].status # "absent" /\ d \notin cleared
Due(d) == row[d].next <= 0

CountDown(n) == IF n > 0 THEN n - 1 ELSE n
CountUp(n, cap) == IF n = Null THEN Null ELSE Smaller(n + 1, cap)
Aged(r) == [r EXCEPT !.next = CountDown(@),
                     !.claimed = CountUp(@, Lease),
                     !.accepted = CountUp(@, StatusDelay[3])]

\* finishDelivery: the copy that a final status is written with.
Finished(r, status) == [r EXCEPT !.status = status, !.next = Null, !.claimed = Null]

\* SaveNotificationDelivery: an unconditional upsert of the whole row.  When the
\* notification was deleted meanwhile the foreign key rejects the insert.
Save(d, r) == row' = IF d \in cleared THEN row ELSE [row EXCEPT ![d] = r]

-----------------------------------------------------------------------------
(* Producers and channel operations *)

\* recordNotificationOnceLocked queues the push of a new notification, or
\* stores it as suppressed when it is created in quiet hours.
Enqueue(d) ==
    LET ch == channel[Owner[d]]
    IN /\ d \notin Tests /\ row[d].status = "absent"
       /\ ch.bound /\ ch.enabled /\ ch.wants
       /\ \E quiet \in BOOLEAN :
            row' = [row EXCEPT ![d] =
                IF quiet THEN [NoRow EXCEPT !.status = "suppressed"]
                         ELSE [NoRow EXCEPT !.status = "pending", !.next = 0]]
       /\ UNCHANGED <<cleared, channel, dispatcher, check, latest, provider, faults>>

\* CreateWxPusherTestDelivery, rate-limited by last_test_at and by the number
\* of test rows of the day.
CreateTest(d) ==
    LET u == Owner[d]
    IN /\ d \in Tests /\ row[d].status = "absent"
       /\ channel[u].bound /\ channel[u].enabled
       /\ channel[u].lastTest \in {Null, TestInterval}
       /\ Cardinality({t \in Tests : Owner[t] = u /\ Present(t)}) < TestDayMax
       /\ row' = [row EXCEPT ![d] = [NoRow EXCEPT !.status = "pending", !.next = 0]]
       /\ channel' = [channel EXCEPT ![u].lastTest = 0]
       /\ latest' = [latest EXCEPT ![u] = d]
       /\ UNCHANGED <<cleared, dispatcher, check, provider, faults>>

\* DeleteResolvedNotifications: deleting the notification cascades to its row.
ClearNotification(d) ==
    /\ d \notin Tests /\ Present(d)
    /\ cleared' = cleared \cup {d}
    /\ UNCHANGED <<row, channel, dispatcher, check, latest, provider, faults>>

\* BindWxPusherUID inserts an enabled binding with the default event types.
Bind(u) ==
    /\ ~channel[u].bound
    /\ channel' = [channel EXCEPT ![u] =
            [bound |-> TRUE, enabled |-> TRUE, wants |-> TRUE, lastTest |-> Null]]
    /\ UNCHANGED <<row, cleared, dispatcher, check, latest, provider, faults>>

\* UpdateWxPusherChannel: the switch and the event mask.
UpdateChannel(u) ==
    /\ channel[u].bound
    /\ \E on, wants \in BOOLEAN :
        channel' = [channel EXCEPT ![u] = [@ EXCEPT !.enabled = on, !.wants = wants]]
    /\ UNCHANGED <<row, cleared, dispatcher, check, latest, provider, faults>>

\* DeleteWxPusherChannel: one transaction removes the binding and cancels the
\* queued rows; a row that is being sent is left to the dispatcher.
CancelUnsettled(u) ==       \* faulty: takes the row being sent as well
    [d \in Deliveries |->
        IF Owner[d] = u /\ d \notin cleared /\ row[d].status \in Queued \cup {"sending"}
        THEN Finished(row[d], "cancelled") ELSE row[d]]

CancelQueued(u) ==
    [d \in Deliveries |->
        IF Owner[d] = u /\ d \notin cleared /\ row[d].status \in Queued
        THEN Finished(row[d], "cancelled") ELSE row[d]]

Unbind(u) ==
    /\ channel[u].bound
    /\ channel' = [channel EXCEPT ![u] = NoChannel]
    /\ row' = CancelQueued(u)
    /\ UNCHANGED <<cleared, dispatcher, check, latest, provider, faults>>

-----------------------------------------------------------------------------
(* The dispatcher: runNotificationDispatcherOnce *)

GoTo(step, d, r) == pc' = step /\ cur' = d /\ mem' = r /\ reply' = "none"
GoIdle == GoTo("idle", NoDelivery, NoRow)

\* RecoverStaleSendingDeliveries: rows left in "sending" by a dead process.
RequeueStale ==             \* faulty: sends again what may have been sent
    [d \in Deliveries |->
        IF d \notin cleared /\ row[d].status = "sending" /\ row[d].claimed >= Lease
        THEN [row[d] EXCEPT !.status = "retry_wait", !.next = 0, !.claimed = Null] ELSE row[d]]

RecoverStale ==
    [d \in Deliveries |->
        IF d \notin cleared /\ row[d].status = "sending" /\ row[d].claimed >= Lease
        THEN Finished(row[d], "uncertain") ELSE row[d]]

StartCycle ==
    /\ pc = "idle"
    /\ row' = RecoverStale
    /\ GoTo("claimAccepted", NoDelivery, NoRow)
    /\ UNCHANGED <<cleared, channel, check, latest, provider, faults>>

\* ClaimAcceptedNotificationDeliveries leases one accepted row for a query.
AcceptedUnclaimed(d) ==     \* faulty: never takes over an expired lease
    /\ Present(d) /\ row[d].status = "accepted" /\ row[d].record
    /\ Due(d) /\ row[d].claimed = Null

AcceptedDue(d) ==
    /\ Present(d) /\ row[d].status = "accepted" /\ row[d].record
    /\ Due(d) /\ row[d].claimed \in {Null, Lease}

LeasedAsSend(r) == [r EXCEPT !.claimed = 0, !.status = "sending"]     \* faulty
Leased(r) == [r EXCEPT !.claimed = 0]

ClaimAccepted ==
    /\ pc = "claimAccepted"
    /\ \/ \E d \in Deliveries :
            LET r == Leased(row[d])
            IN AcceptedDue(d) /\ row' = [row EXCEPT ![d] = r] /\ GoTo("query", d, r)
       \/ /\ \A d \in Deliveries : ~AcceptedDue(d)
          /\ GoTo("claimQueued", NoDelivery, NoRow)
          /\ UNCHANGED row
    /\ UNCHANGED <<cleared, channel, check, latest, provider, faults>>

\* rescheduleAcceptedDelivery: the next query, or giving up.
Rescheduled(r) ==
    IF r.accepted = Null \/ r.accepted >= StatusDelay[3] THEN Finished(r, "uncertain")
    ELSE LET at == IF r.accepted < StatusDelay[2] THEN StatusDelay[2] ELSE StatusDelay[3]
         IN [r EXCEPT !.status = "accepted", !.next = at - r.accepted, !.claimed = Null]

Answers == {"error", "processing", "succeeded", "failed"}

\* QueryMessageStatus: what the provider may answer about an accepted push.
QueryAnswers(d) == {"error"} \cup IF outcome[d] = "none" THEN {} ELSE {outcome[d]}

ConfirmedUnlessFailed(r, answer) ==     \* faulty: no news is good news
    IF answer = "failed" THEN Finished(r, "failed") ELSE Finished(r, "provider_succeeded")

Confirmed(r, answer) ==
    CASE answer = "succeeded" -> Finished(r, "provider_succeeded")
      [] answer = "failed"    -> Finished(r, "failed")
      [] OTHER                -> Rescheduled(r)

QueryStatus ==
    /\ pc = "query"
    /\ \E answer \in QueryAnswers(cur) : GoTo("saveConfirm", cur, Confirmed(mem, answer))
    /\ UNCHANGED <<row, cleared, channel, check, latest, provider, faults>>

SaveConfirm ==
    /\ pc = "saveConfirm"
    /\ Save(cur, mem)
    /\ IF cur \in cleared THEN GoIdle ELSE GoTo("claimQueued", NoDelivery, NoRow)
    /\ UNCHANGED <<cleared, channel, check, latest, provider, faults>>

\* ClaimNotificationDeliveries moves one due row to "sending".
QueuedDue(d) == Present(d) /\ row[d].status \in Queued /\ Due(d)

ClaimQueued ==
    /\ pc = "claimQueued"
    /\ \/ \E d \in Deliveries :
            LET r == [row[d] EXCEPT !.status = "sending", !.claimed = 0, !.attempts = @ + 1]
            IN QueuedDue(d) /\ row' = [row EXCEPT ![d] = r] /\ GoTo("prepare", d, r)
       \/ (\A d \in Deliveries : ~QueuedDue(d)) /\ GoIdle /\ UNCHANGED row
    /\ UNCHANGED <<cleared, channel, check, latest, provider, faults>>

\* sendNotificationDelivery up to client.Send: every reason not to send, then
\* the request goes on the wire.
Refusals(d) ==
    LET ch == channel[Owner[d]]
    IN IF mem.record THEN {"uncertain"}
       ELSE IF ~ch.bound \/ ~ch.enabled THEN {"cancelled"}
       ELSE IF d \in Tests THEN {}
       ELSE IF d \in cleared \/ ~ch.wants THEN {"cancelled"}
       ELSE {"suppressed"}          \* when it is quiet now

MustRefuse(d) ==
    LET ch == channel[Owner[d]]
    IN mem.record \/ ~ch.bound \/ ~ch.enabled
         \/ (d \notin Tests /\ (d \in cleared \/ ~ch.wants))

Refuse ==
    /\ pc = "prepare"
    /\ \E status \in Refusals(cur) : GoTo("saveSend", cur, Finished(mem, status))
    /\ UNCHANGED <<row, cleared, channel, check, latest, provider, faults>>

Send ==
    /\ pc = "prepare" /\ ~MustRefuse(cur)
    /\ pc' = "wire" /\ wire' = [wire EXCEPT ![cur] = @ + 1]
    /\ UNCHANGED <<row, cleared, channel, cur, mem, reply, check, latest, pushes, outcome, faults>>

\* notificationSendOutcomeAmbiguous: a timeout, a broken connection or an
\* unreadable answer says nothing about whether the provider took the message.
SendErrors == {"ambiguous", "retryable", "permanent"}

SendFailedUncapped(r, error, retryAfter) ==     \* faulty: trusts Retry-After
    IF error = "ambiguous" THEN Finished(r, "uncertain")
    ELSE IF error = "retryable" /\ r.attempts < MaxAttempts
    THEN [r EXCEPT !.status = "retry_wait", !.claimed = Null,
                   !.next = Larger(SendBackoff[r.attempts], retryAfter)]
    ELSE Finished(r, "failed")

SendFailedRetrying(r, error, retryAfter) ==     \* faulty: a timeout is retried
    IF error # "permanent" /\ r.attempts < MaxAttempts
    THEN [r EXCEPT !.status = "retry_wait", !.claimed = Null,
                   !.next = Smaller(MaxBackoff, Larger(SendBackoff[r.attempts], retryAfter))]
    ELSE Finished(r, "failed")

\* handleNotificationSendError
SendFailed(r, error, retryAfter) ==
    IF error = "ambiguous" THEN Finished(r, "uncertain")
    ELSE IF error = "retryable" /\ r.attempts < MaxAttempts
    THEN [r EXCEPT !.status = "retry_wait", !.claimed = Null,
                   !.next = Smaller(MaxBackoff, Larger(SendBackoff[r.attempts], retryAfter))]
    ELSE Finished(r, "failed")

Accepted(r) == [r EXCEPT !.status = "accepted", !.record = TRUE, !.claimed = Null,
                         !.accepted = 0, !.next = StatusDelay[1]]

SendSucceeds ==
    /\ pc = "wire" /\ reply = "accepted"
    /\ GoTo("saveSend", cur, Accepted(mem))
    /\ UNCHANGED <<row, cleared, channel, check, latest, provider, faults>>

\* An ambiguous error needs no answer: it is the client's timeout.
SendFails ==
    /\ pc = "wire"
    /\ \E error \in SendErrors, retryAfter \in RetryAfters :
        /\ error # "ambiguous" => reply = error
        /\ GoTo("saveSend", cur, SendFailed(mem, error, retryAfter))
    /\ UNCHANGED <<row, cleared, channel, check, latest, provider, faults>>

SaveSend ==
    /\ pc = "saveSend"
    /\ Save(cur, mem)
    /\ GoIdle
    /\ UNCHANGED <<cleared, channel, check, latest, provider, faults>>

\* A repository call of the cycle returns an error: the cycle is abandoned.
RepositoryFails ==
    /\ pc \in {"claimAccepted", "saveConfirm", "claimQueued", "prepare", "saveSend"}
    /\ faults < MaxFaults /\ faults' = faults + 1
    /\ GoIdle
    /\ UNCHANGED <<row, cleared, channel, check, latest, provider>>

-----------------------------------------------------------------------------
(* The provider, from what the client makes of its answers *)

Reply(d, answer) == IF pc = "wire" /\ cur = d THEN answer ELSE reply

ProviderAccepts(d) ==
    /\ wire[d] > 0
    /\ wire' = [wire EXCEPT ![d] = @ - 1]
    /\ pushes' = [pushes EXCEPT ![d] = @ + 1]
    /\ outcome' = [outcome EXCEPT ![d] = "processing"]
    /\ reply' = Reply(d, "accepted")
    /\ UNCHANGED <<row, cleared, channel, pc, cur, mem, check, latest, faults>>

ProviderRejects(d) ==
    /\ wire[d] > 0
    /\ wire' = [wire EXCEPT ![d] = @ - 1]
    /\ \E answer \in {"retryable", "permanent"} : reply' = Reply(d, answer)
    /\ UNCHANGED <<row, cleared, channel, pc, cur, mem, check, latest, pushes, outcome, faults>>

ProviderSettles(d) ==
    /\ outcome[d] = "processing"
    /\ \E result \in {"succeeded", "failed"} : outcome' = [outcome EXCEPT ![d] = result]
    /\ UNCHANGED <<row, cleared, channel, dispatcher, check, latest, wire, pushes, faults>>

-----------------------------------------------------------------------------
(* RecheckWxPusherTestDelivery *)

NoCheck == [pc |-> "idle", id |-> NoDelivery, copy |-> NoRow, answer |-> "error"]

\* Loads the user's latest test row.
RecheckLoad(u) ==
    LET d == latest[u]
    IN /\ check[u].pc = "idle"
       /\ d # NoDelivery
       /\ row[d].status \in Rechecked /\ row[d].record
       /\ check' = [check EXCEPT ![u] = [NoCheck EXCEPT !.pc = "query", !.id = d]]
       /\ UNCHANGED <<row, cleared, channel, dispatcher, latest, provider, faults>>

RecheckQuery(u) ==
    /\ check[u].pc = "query"
    /\ \E answer \in QueryAnswers(check[u].id) :
        check' = [check EXCEPT ![u] = [@ EXCEPT !.pc = "reload", !.answer = answer]]
    /\ UNCHANGED <<row, cleared, channel, dispatcher, latest, provider, faults>>

Rechecking(r, answer) ==
    CASE answer = "succeeded" -> Finished(r, "provider_succeeded")
      [] answer = "failed"    -> Finished(r, "failed")
      [] OTHER                -> r

\* Reloads the row; a row that has moved on, or a newer test, ends the call.
RecheckReload(u) ==
    LET d == check[u].id
    IN /\ check[u].pc = "reload"
       /\ check' = [check EXCEPT ![u] =
            IF latest[u] = d /\ row[d].status \in Rechecked
            THEN [@ EXCEPT !.pc = "save", !.copy = Rechecking(row[d], check[u].answer)]
            ELSE NoCheck]
       /\ UNCHANGED <<row, cleared, channel, dispatcher, latest, provider, faults>>

RecheckSave(u) ==
    /\ check[u].pc = "save"
    /\ Save(check[u].id, check[u].copy)
    /\ check' = [check EXCEPT ![u] = NoCheck]
    /\ UNCHANGED <<cleared, channel, dispatcher, latest, provider, faults>>

-----------------------------------------------------------------------------
(* Time, crash and restart of the process *)

\* A cycle is shorter than a quantum, so time passes between cycles or while
\* the process is down.
Tick ==
    /\ pc \in {"idle", "down"}
    /\ row' = [d \in Deliveries |-> Aged(row[d])]
    /\ channel' = [u \in Users |-> [channel[u] EXCEPT !.lastTest = CountUp(@, TestInterval)]]
    /\ check' = [u \in Users |-> [check[u] EXCEPT !.copy = Aged(@)]]
    /\ UNCHANGED <<cleared, dispatcher, latest, provider, faults>>

\* The process dies: what it held in memory is gone, a request that is already
\* on the wire is not.
Crash ==
    /\ pc # "down"
    /\ faults < MaxFaults /\ faults' = faults + 1
    /\ GoTo("down", NoDelivery, NoRow)
    /\ check' = [u \in Users |-> NoCheck]
    /\ UNCHANGED <<row, cleared, channel, latest, provider>>

\* StartNotificationDispatcher after a restart.
Restart ==
    /\ pc = "down"
    /\ GoIdle
    /\ UNCHANGED <<row, cleared, channel, check, latest, provider, faults>>

-----------------------------------------------------------------------------

Init ==
    /\ row = [d \in Deliveries |-> NoRow]
    /\ cleared = {}
    /\ channel = [u \in Users |-> NoChannel]
    /\ pc = "idle" /\ cur = NoDelivery /\ mem = NoRow /\ reply = "none"
    /\ check = [u \in Users |-> NoCheck]
    /\ latest = [u \in Users |-> NoDelivery]
    /\ wire = [d \in Deliveries |-> 0]
    /\ pushes = [d \in Deliveries |-> 0]
    /\ outcome = [d \in Deliveries |-> "none"]
    /\ faults = 0

\* API calls need a running process.
Api(u) ==
    /\ pc # "down"
    /\ \/ Bind(u) \/ UpdateChannel(u) \/ Unbind(u)
       \/ RecheckLoad(u) \/ RecheckQuery(u) \/ RecheckReload(u) \/ RecheckSave(u)

Produce(d) == pc # "down" /\ (Enqueue(d) \/ CreateTest(d) \/ ClearNotification(d))

Cycle ==
    \/ StartCycle \/ ClaimAccepted \/ QueryStatus \/ SaveConfirm \/ ClaimQueued
    \/ Refuse \/ Send \/ SendSucceeds \/ SendFails \/ SaveSend

Provider(d) == ProviderAccepts(d) \/ ProviderRejects(d) \/ ProviderSettles(d)

Next ==
    \/ \E u \in Users : Api(u)
    \/ \E d \in Deliveries : Produce(d) \/ Provider(d)
    \/ Cycle \/ RepositoryFails
    \/ Tick \/ Crash \/ Restart

\* The dispatcher loop re-arms its timer after every cycle, the process is
\* restarted by its supervisor and time passes.  Nothing is assumed of the
\* provider, of the API callers or of the settling of a push.
Fairness == WF_vars(Cycle) /\ WF_vars(Restart) /\ SF_vars(Tick)

Spec == Init /\ [][Next]_vars /\ Fairness

-----------------------------------------------------------------------------
(* Properties *)

\* Every variable stays in its range.
TypeOK ==
    /\ row \in [Deliveries -> Row]
    /\ cleared \subseteq Deliveries
    /\ channel \in [Users -> Channel]
    /\ pc \in {"idle", "down", "claimAccepted", "query", "saveConfirm", "claimQueued",
               "prepare", "wire", "saveSend"}
    /\ cur \in Deliveries \cup {NoDelivery}
    /\ mem \in Row
    /\ reply \in {"none", "accepted", "retryable", "permanent"}
    /\ check \in [Users -> [pc: {"idle", "query", "reload", "save"},
                            id: Deliveries \cup {NoDelivery}, copy: Row, answer: Answers]]
    /\ latest \in [Users -> Deliveries \cup {NoDelivery}]
    /\ wire \in [Deliveries -> Nat]
    /\ pushes \in [Deliveries -> Nat]
    /\ outcome \in [Deliveries -> {"none", "processing", "succeeded", "failed"}]
    /\ faults \in Nat

\* However sends, timeouts, crashes, restarts and rechecks interleave, the
\* provider takes a delivery at most once: an outcome that is not known is
\* never retried (RecoverStaleSendingDeliveries, notificationSendOutcomeAmbiguous).
AtMostOnePush == \A d \in Deliveries : pushes[d] + wire[d] <= 1

\* A row that was cancelled or suppressed, and one that failed without a record
\* id, was never pushed and no request for it is still under way.
Dropped(d) == \/ row[d].status \in {"cancelled", "suppressed"}
              \/ row[d].status = "failed" /\ ~row[d].record
DroppedNeverPushed == \A d \in Deliveries : Dropped(d) => pushes[d] = 0 /\ wire[d] = 0

\* A row that carries a sendRecordId is never in the send queue again
\* (ClaimAcceptedNotificationDeliveries).
RecordNeverRequeued ==
    \A d \in Deliveries : row[d].record => row[d].status \notin Queued \cup {"sending"}

\* A row is reported as processed by the provider only when it was.
SuccessIsGenuine ==
    \A d \in Deliveries : row[d].status = "provider_succeeded" => outcome[d] = "succeeded"

\* A row waits for another attempt only while attempts are left.
AttemptsBounded ==
    \A d \in Deliveries : /\ row[d].attempts <= MaxAttempts
                          /\ row[d].status = "retry_wait" => row[d].attempts < MaxAttempts

\* What a row says of its delivery is so: it succeeded where the row says so, and where it
\* waits for another attempt there is one left (wxpusher.go, the dispatcher and the
\* recheck, whatever stale copies they save).
RowsAreSound == SuccessIsGenuine /\ AttemptsBounded

\* A dropped row stays as it is: no cycle that claimed it earlier and no
\* recheck writes it back.
DroppedIsFinal ==
    [][\A d \in Deliveries : Dropped(d) => row'[d].status = row[d].status]_vars

\* The outbox implements DeliveryPromise: whatever the dispatcher, the rechecks
\* and the crashes do to the rows of the table, each delivery only ever takes
\* the steps the promise allows.
Phase(d) == CASE row[d].status = "absent" -> "none"
              [] row[d].status \in Queued \cup {"sending"} -> "queued"
              [] Dropped(d) -> "dropped"
              [] OTHER -> "ended"
Promise == INSTANCE DeliveryPromise WITH phase <- [d \in Deliveries |-> Phase(d)]
ImplementsPromise == Promise!Spec

\* Every row that enters the outbox leaves the dispatcher's hands.
EveryDeliverySettles ==
    \A d \in Deliveries : Present(d) ~> (row[d].status \in Settled \/ d \in cleared)

\* "Reload before saving so a manual check can never move a newer state
\* backwards": the save of a recheck leaves a final row as it is.
ManualCheckNeverMovesBack ==
    [][\A u \in Users :
        LET d == check[u].id
        IN check[u].pc = "save" /\ check'[u].pc = "idle" /\ row[d].status \in {"provider_succeeded", "failed"}
             => row'[d].status = row[d].status]_vars
=============================================================================
