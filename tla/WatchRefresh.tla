------------------------------ MODULE WatchRefresh ------------------------------
(***************************************************************************)
(* Background refreshes of watched piles: the scheduler cycle that picks   *)
(* due piles and charges the daily quota, the coordinator that shares one  *)
(* remote request between users (`cache`, `flights`), the opening check of *)
(* a new reminder, and the update of a cookie.                             *)
(*                                                                         *)
(* Each user has two threads that take the user's refreshMu: "job", the    *)
(* scheduler's worker, and "api", an HTTP handler.  Delays are abstracted: *)
(* a time limit (next_attempt_at, cache TTL, backoff, credential TTL) may  *)
(* run out at any moment.  A row of watch_refresh_states keeps of its      *)
(* quota_date whether it is today's; the offline streak is left out.       *)
(***************************************************************************)
EXTENDS Integers, FiniteSets

CONSTANTS
    Users,
    Piles,          \* every user owns every pile
    Quota,          \* WatchDailyRefreshQuota
    Openings,       \* bound on reminders created during the run
    Events          \* bound on logins, expired cookies, switches, new days, crashes

\* The part of a flight's key that stands for no user: such a key is the pile's id
\* alone, the others have the user's id and a NUL before it.
Shared == "shared"

ASSUME RefreshAssumption ==
    /\ IsFiniteSet(Users) /\ IsFiniteSet(Piles)
    /\ Shared \notin Users
    /\ Quota \in Nat \ {0} /\ Openings \in Nat /\ Events \in Nat

VARIABLES
    rule,           \* piles on which a user has an active reminder
    st,             \* watch_refresh_states
    notice,         \* users with an unresolved credential_expired notification
    refreshEnabled, remindersOn, powerOff,  \* account switch, settings, power window
    cache, validated,       \* the coordinator's maps
    backoff,        \* piles each user's charging client backs off from
    cookieOK,       \* users whose present cookie the provider accepts
    todo, seen, prep,       \* the cycle's targets, the settings it read, and the
                    \* row it is preparing
    thread,         \* the state of each thread
    refreshMu,      \* who holds each user's refreshMu
    left,           \* what is left of Openings and Events
    proven, rejected,       \* history: cookie accepted; some request rejected
    spent, forgotten        \* history: scheduled requests today, and the charges
                            \* for them that were lost with a row

settings == <<refreshEnabled, remindersOn, powerOff>>
coordinator == <<cache, validated>>
history == <<proven, rejected, spent, forgotten>>
cycle == <<todo, seen, prep>>
vars == <<rule, st, notice, settings, coordinator, backoff, cookieOK, cycle,
          thread, refreshMu, left, history>>

-----------------------------------------------------------------------------

Pauses == {"", "in_flight", "backoff", "quota", "global", "account", "power_off",
           "credential"}
Row == [pause: Pauses, due: BOOLEAN, used: Nat, fresh: BOOLEAN]

\* The row prepareReminderTarget starts from when there is none; Absent is the
\* table without a row.
NewRow == [pause |-> "", due |-> TRUE, used |-> 0, fresh |-> FALSE]
Absent == [NewRow EXCEPT !.pause = "absent"]
Present(u, p) == st[u][p] # Absent
Now == [enabled |-> refreshEnabled, on |-> remindersOn, power |-> powerOff]
NoSettings == [enabled |-> {}, on |-> FALSE, power |-> FALSE]
NoTarget == [user |-> "none", pile |-> "none", row |-> Absent]

\* What today's scheduled requests have charged to a row, the charges of some of a
\* user's rows one by one, and their number, SUM(quota_used) in the table.
Charged(r) == IF r.fresh THEN r.used ELSE 0
Charges(rows, piles) == UNION {{p} \X (1..Charged(rows[p])) : p \in piles}
Used(u) == Cardinality(Charges(st[u], Piles))

Threads == Users \X {"job", "api"}
User(t) == t[1]

\* Flights are shared by pile, or by user and pile when the credential is due.
KeyOfPile(u, p) == <<Shared, p>>            \* faulty: everyone shares
Key(u, p) == <<IF validated[u][p] THEN Shared ELSE u, p>>

Denials == {"quota", "off", "power", "notEnabled"}
Outs == Denials \cup {"none", "ok", "skipped", "fail", "auth"}

Idle == [pc |-> "idle", kind |-> "none", pile |-> "none", key |-> <<"none", "none">>,
         copy |-> Absent, out |-> "none", old |-> FALSE]
Leader(t) == thread[t].pc \in {"fetch", "remote"}
Busy(t) == thread[t].pc # "idle"

Write(u, p, r) == st' = [st EXCEPT ![u] = [@ EXCEPT ![p] = r]]
Forget(u, n) == forgotten' = [forgotten EXCEPT ![u] = @ + IF n > 0 THEN n ELSE 0]
Spend(n) == left' = [left EXCEPT !.events = @ - n]
Move(t, r) == thread' = [thread EXCEPT ![t] = r]
UnlockNever(u) == UNCHANGED refreshMu       \* faulty: a return without the unlock
Unlock(u) == refreshMu' = [refreshMu EXCEPT ![u] = "free"]

-----------------------------------------------------------------------------
(* The scheduler cycle *)

\* reminderTargets and reconcileReminderStates.
StartCycle ==
    /\ todo = {} /\ prep = NoTarget /\ \A u \in Users : ~Busy(<<u, "job">>)
    /\ todo' = {x \in Users \X Piles : x[2] \in rule[x[1]]}
    /\ seen' = IF todo' = {} THEN NoSettings ELSE Now
    /\ st' = [u \in Users |-> [p \in Piles |-> IF p \in rule[u] THEN st[u][p] ELSE Absent]]
    /\ forgotten' = [u \in Users |-> forgotten[u]
                                      + Cardinality(Charges(st[u], Piles \ rule[u]))]
    /\ UNCHANGED <<rule, notice, settings, coordinator, backoff, cookieOK, prep, thread,
                   refreshMu, left, proven, rejected, spent>>

\* prepareReminderTarget loads the row ...
LoadTarget(u, p) ==
    /\ prep = NoTarget /\ <<u, p>> \in todo
    /\ prep' = [user |-> u, pile |-> p, row |-> IF Present(u, p) THEN st[u][p] ELSE NewRow]
    /\ UNCHANGED <<rule, st, notice, settings, coordinator, backoff, cookieOK, todo, seen, thread,
                   refreshMu, left, history>>

Paused(r, reason, due) == [r EXCEPT !.pause = reason, !.due = due]

\* ... decides what becomes of it ...
Prepared(u, loaded) ==
    LET r == IF loaded.fresh THEN loaded ELSE [loaded EXCEPT !.fresh = TRUE, !.used = 0]
        resumed == IF \/ r.pause \in {"global", "account"}
                      \/ r.pause = "quota" /\ Used(u) < Quota
                   THEN Paused(r, "", TRUE) ELSE r
    IN CASE r.pause = "credential"             -> [run |-> FALSE, row |-> r]
         [] r.pause # "credential" /\ seen.power -> [run |-> FALSE, row |-> Paused(r, "power_off", FALSE)]
         [] r.pause = "power_off" /\ ~r.due /\ ~seen.power
                                               -> [run |-> FALSE, row |-> r]
         [] OTHER ->
            IF ~seen.on THEN [run |-> FALSE, row |-> Paused(r, "global", TRUE)]
            ELSE IF u \notin seen.enabled THEN [run |-> FALSE, row |-> Paused(r, "account", TRUE)]
            ELSE IF ~resumed.due THEN [run |-> FALSE, row |-> r]
            ELSE IF Used(u) >= Quota THEN [run |-> FALSE, row |-> Paused(r, "quota", FALSE)]
            ELSE [run |-> TRUE, row |-> resumed]

\* ... and saves it when that changed it, or selects it for this cycle, one
\* target per user.
PrepareTarget ==
    LET u == prep.user
        p == prep.pile
        result == Prepared(u, prep.row)
    IN /\ prep # NoTarget
       /\ prep' = NoTarget /\ todo' = todo \ {<<u, p>>}
       /\ seen' = IF todo' = {} THEN NoSettings ELSE seen
       /\ IF result.run
          THEN /\ thread' = IF Busy(<<u, "job">>) THEN thread
                            ELSE [thread EXCEPT ![<<u, "job">>] =
                                    [Idle EXCEPT !.pc = "enter", !.kind = "job", !.pile = p,
                                                 !.copy = result.row]]
               /\ UNCHANGED st
          ELSE /\ IF result.row = prep.row THEN UNCHANGED st ELSE Write(u, p, result.row)
               /\ UNCHANGED thread
       /\ UNCHANGED <<rule, notice, settings, coordinator, backoff, cookieOK, refreshMu, left,
                      history>>

-----------------------------------------------------------------------------
(* refreshWatchedPileWithDelivery *)

\* Jobs are launched when every target has been prepared.
Enter(t) ==
    LET u == User(t) IN
    /\ thread[t].pc = "enter"
    /\ thread[t].kind = "job" => todo = {} /\ prep = NoTarget
    /\ Move(t, IF u \in refreshEnabled /\ thread[t].pile \in rule[u]
               THEN [thread[t] EXCEPT !.pc = "lock"]
               ELSE [thread[t] EXCEPT !.pc = "apply", !.out = "notEnabled"])
    /\ UNCHANGED <<rule, st, notice, settings, coordinator, backoff, cookieOK, cycle,
                   refreshMu, left, history>>

\* Who leads the flight of a key: the thread that entered it in `flights`.
Leaders(key) == {t \in Threads : Leader(t) /\ thread[t].key = key}

\* loadWatchedPile: a fresh cache entry, a flight to join, or a flight to lead.
Lock(t) ==
    LET u == User(t)
        p == thread[t].pile
        key == Key(u, p)
    IN /\ thread[t].pc = "lock" /\ refreshMu[u] = "free"
       /\ refreshMu' = [refreshMu EXCEPT ![u] = t[2]]
       /\ Move(t, IF validated[u][p] /\ p \in cache
                  THEN [thread[t] EXCEPT !.pc = "merge", !.out = "ok"]
                  ELSE IF Leaders(key) # {} THEN [thread[t] EXCEPT !.pc = "wait", !.key = key]
                  ELSE [thread[t] EXCEPT !.pc = "fetch", !.key = key])
       /\ UNCHANGED <<rule, st, notice, settings, coordinator, backoff, cookieOK, cycle,
                      left, history>>

\* The permit of executeReminderTarget, read again right before the request.
Denied(u, p) ==
    CASE powerOff                  -> "power"
      [] ~powerOff /\ ~remindersOn -> "off"
      [] ~powerOff /\ remindersOn /\ (u \notin refreshEnabled \/ p \notin rule[u]) -> "notEnabled"
      [] OTHER -> IF Used(u) >= Quota THEN "quota" ELSE "none"

DeliverToLeader(t, out) ==                  \* faulty: the flight is never closed
    Move(t, [thread[t] EXCEPT !.pc = "merge", !.out = out])
DeliverAfterBackoff(t, out) ==              \* faulty: the refresh sits the backoff out
    IF out = "skipped" THEN Move(t, [thread[t] EXCEPT !.pc = "fetch"])
    ELSE thread' = [s \in Threads |->
            IF s = t \/ (thread[s].pc = "wait" /\ thread[s].key = thread[t].key)
            THEN [thread[s] EXCEPT !.pc = "merge", !.out = out, !.key = Idle.key]
            ELSE thread[s]]
\* Everyone on the flight goes on with the leader's result and error.
Deliver(t, out) ==
    thread' = [s \in Threads |->
        IF s = t \/ (thread[s].pc = "wait" /\ thread[s].key = thread[t].key)
        THEN [thread[s] EXCEPT !.pc = "merge", !.out = out, !.key = Idle.key]
        ELSE thread[s]]

UnpaidReservation(r) ==                     \* faulty: the charge is not stored
    [r EXCEPT !.fresh = TRUE, !.due = FALSE, !.pause = "in_flight"]
Reserved(r) == [pause |-> "in_flight", due |-> FALSE, used |-> Charged(r) + 1, fresh |-> TRUE]

\* FetchPileWithPermit up to the request.
Fetch(t) ==
    LET u == User(t)
        p == thread[t].pile
        job == thread[t].kind = "job"
        row == Reserved(thread[t].copy)
    IN /\ thread[t].pc = "fetch"
       /\ \/ /\ p \in backoff[u]
             /\ Deliver(t, "skipped")
             /\ UNCHANGED <<st, spent, forgotten>>
          \/ /\ p \notin backoff[u] /\ job /\ Denied(u, p) # "none"
             /\ Deliver(t, Denied(u, p))
             /\ UNCHANGED <<st, spent, forgotten>>
          \/ /\ p \notin backoff[u] /\ job /\ Denied(u, p) = "none"
             /\ Write(u, p, row)
             /\ spent' = [spent EXCEPT ![u] = @ + 1]
             /\ Forget(u, Charged(st[u][p]) - Charged(thread[t].copy))
             /\ Move(t, [thread[t] EXCEPT !.pc = "remote", !.copy = row])
          \/ /\ p \notin backoff[u] /\ ~job
             /\ Move(t, [thread[t] EXCEPT !.pc = "remote"])
             /\ UNCHANGED <<st, spent, forgotten>>
       /\ UNCHANGED <<rule, notice, settings, coordinator, backoff, cookieOK, cycle,
                      refreshMu, left, proven, rejected>>

\* The provider answers and loadWatchedPile publishes the result.
Answer(t) ==
    LET u == User(t)
        p == thread[t].pile
    IN /\ thread[t].pc = "remote"
       /\ \E out \in IF u \in cookieOK THEN {"ok", "fail"} ELSE {"auth", "fail"} :
            /\ Deliver(t, out)
            /\ IF out = "ok"
               THEN /\ cache' = cache \cup {p}
                    /\ validated' = [validated EXCEPT ![u] = [@ EXCEPT ![p] = TRUE]]
                    /\ backoff' = [backoff EXCEPT ![u] = @ \ {p}]
                    /\ proven' = proven \cup {u}
               ELSE /\ UNCHANGED <<coordinator, proven>>
                    /\ backoff' = [backoff EXCEPT ![u] = @ \cup {p}]
            /\ rejected' = IF out = "auth" THEN rejected \cup {u} ELSE rejected
       /\ UNCHANGED <<rule, st, notice, settings, cookieOK, cycle, refreshMu, left,
                      spent, forgotten>>

\* Still under refreshMu, availability is recorded: it may create the row, and
\* a notification completes the reminder.
Merge(t) ==
    LET u == User(t)
        p == thread[t].pile
        opening == thread[t].kind = "opening"
        fetched == thread[t].out = "ok"
    IN /\ thread[t].pc = "merge"
       /\ IF fetched /\ ~Present(u, p) /\ (opening \/ p \in rule[u])
          THEN Write(u, p, NewRow) ELSE UNCHANGED st
       /\ \E notified \in BOOLEAN :
            /\ notified => fetched /\ ~opening /\ p \in rule[u]
            /\ rule' = IF notified THEN [rule EXCEPT ![u] = @ \ {p}] ELSE rule
       /\ Unlock(u)
       /\ Move(t, [thread[t] EXCEPT !.pc = "apply"])
       /\ UNCHANGED <<notice, settings, coordinator, backoff, cookieOK, cycle, left, history>>

-----------------------------------------------------------------------------
(* What the callers make of the result *)

\* notifyCredentialExpired
ExpireCredential(u) ==
    /\ notice' = notice \cup {u}
    /\ st' = [st EXCEPT ![u] = [p \in Piles |->
                IF Present(u, p) THEN Paused(st[u][p], "credential", TRUE) ELSE Absent]]

\* resolveCredentialExpired
ResolveCredential(u) ==
    /\ notice' = notice \ {u}
    /\ st' = [st EXCEPT ![u] = [p \in Piles |->
                IF st[u][p].pause = "credential" THEN Paused(st[u][p], "", TRUE) ELSE st[u][p]]]

\* The row a scheduled check is saved with.
Outcome(u, r, out) ==
    CASE out = "quota"               -> Paused(r, "quota", FALSE)
      [] out = "off"                 -> Paused(r, "global", TRUE)
      [] out = "power"               -> Paused(r, "power_off", FALSE)
      [] out = "notEnabled"          -> Paused(r, "account", TRUE)
      [] out \in {"skipped", "fail"} -> Paused(r, "backoff", FALSE)
      [] OTHER                       -> Paused(r, "", FALSE)

\* executeReminderTarget after the refresh.
ApplyJob(u) ==
    LET t == <<u, "job">>
        p == thread[t].pile
        row == Outcome(u, thread[t].copy, thread[t].out)
    IN /\ thread[t].pc = "apply"
       /\ \/ /\ thread[t].out = "auth"
             /\ ExpireCredential(u)
             /\ UNCHANGED forgotten
          \/ /\ thread[t].out = "notEnabled" /\ u \in refreshEnabled
             /\ Write(u, p, Absent) /\ Forget(u, Charged(st[u][p]))
             /\ UNCHANGED notice
          \/ /\ thread[t].out # "auth" /\ (thread[t].out = "notEnabled" => u \notin refreshEnabled)
             /\ Write(u, p, row) /\ Forget(u, Charged(st[u][p]) - Charged(row))
             /\ UNCHANGED notice
       /\ Move(t, Idle)
       /\ UNCHANGED <<rule, settings, coordinator, backoff, cookieOK, cycle, refreshMu,
                      left, proven, rejected, spent>>

\* CreateWatchRuleWithInitialCheck: the reminder is saved, ...
CreateRule(u, p) ==
    LET t == <<u, "api">> IN
    /\ ~Busy(t) /\ p \notin rule[u] /\ left.openings > 0 /\ ~powerOff
    /\ rule' = [rule EXCEPT ![u] = @ \cup {p}]
    /\ left' = [left EXCEPT !.openings = @ - 1]
    /\ Move(t, [Idle EXCEPT !.pc = "invalidate", !.kind = "opening", !.pile = p])
    /\ UNCHANGED <<st, notice, settings, coordinator, backoff, cookieOK, cycle,
                   refreshMu, history>>

\* ... the cached pile is dropped, the pile is refreshed, ...
Invalidate(u) ==
    LET t == <<u, "api">>
        p == thread[t].pile
    IN /\ thread[t].pc = "invalidate"
       /\ cache' = cache \ {p}
       /\ validated' = [validated EXCEPT ![u] = [@ EXCEPT ![p] = FALSE]]
       /\ Move(t, [thread[t] EXCEPT !.pc = "enter"])
       /\ UNCHANGED <<rule, st, notice, settings, backoff, cookieOK, cycle, refreshMu,
                      left, history>>

\* ... and the reminder is kept, kept with a retry, or given up.
ApplyOpening(u) ==
    LET t == <<u, "api">>
        p == thread[t].pile
        out == thread[t].out
        Close == /\ rule' = [rule EXCEPT ![u] = @ \ {p}]
                 /\ Write(u, p, Absent) /\ Forget(u, Charged(st[u][p]))
    IN /\ thread[t].pc = "apply"
       /\ \/ out = "auth" /\ Close
          \/ out = "ok" /\ Close                       \* a port is idle already
          \/ out = "ok" /\ p \notin rule[u] /\ UNCHANGED <<rule, st, forgotten>>
          \/ /\ out = "ok"
             /\ IF Present(u, p) THEN Write(u, p, [st[u][p] EXCEPT !.due = FALSE])
                                 ELSE UNCHANGED st
             /\ UNCHANGED <<rule, forgotten>>
          \/ /\ out \notin {"ok", "auth"}
             /\ Write(u, p, Paused(NewRow, "backoff", FALSE)) /\ Forget(u, Charged(st[u][p]))
             /\ UNCHANGED rule
       /\ Move(t, Idle)
       /\ UNCHANGED <<notice, settings, coordinator, backoff, cookieOK, cycle, refreshMu,
                      left, proven, rejected, spent>>

\* The reminder is cancelled, or deleted or expired, which leaves the row behind.
Cancel(u, p) ==
    /\ p \in rule[u]
    /\ rule' = [rule EXCEPT ![u] = @ \ {p}]
    /\ \/ Write(u, p, Absent) /\ Forget(u, Charged(st[u][p]))
       \/ UNCHANGED <<st, forgotten>>
    /\ UNCHANGED <<notice, settings, coordinator, backoff, cookieOK, cycle, thread,
                   refreshMu, left, proven, rejected, spent>>

-----------------------------------------------------------------------------
(* UpdateCookie *)

KeepValidation(u) == UNCHANGED validated    \* faulty: the old cookie's checks stand
ClearValidation(u) == validated' = [validated EXCEPT ![u] = [p \in Piles |-> FALSE]]

\* A paused account only stores the cookie.
Login(u) ==
    LET t == <<u, "api">> IN
    /\ ~Busy(t) /\ refreshMu[u] = "free" /\ left.events > 0 /\ Spend(1)
    /\ \E good \in BOOLEAN : cookieOK' = IF good THEN cookieOK \cup {u} ELSE cookieOK \ {u}
    /\ proven' = proven \ {u}
    /\ backoff' = [backoff EXCEPT ![u] = {}]
    /\ ClearValidation(u)
    /\ IF u \in refreshEnabled
       THEN /\ refreshMu' = [refreshMu EXCEPT ![u] = "api"]
            /\ Move(t, [Idle EXCEPT !.pc = "login", !.kind = "login", !.old = u \in cookieOK])
       ELSE UNCHANGED <<refreshMu, thread>>
    /\ UNCHANGED <<rule, st, notice, settings, cache, cycle, rejected, spent, forgotten>>

\* The forced refresh of every pile succeeds for some, or fails and the previous
\* cookie is put back.
LoginAnswer(u) ==
    LET t == <<u, "api">> IN
    /\ thread[t].pc = "login"
    /\ \/ /\ u \in cookieOK
          /\ \E fetched \in SUBSET Piles \ {{}} :
                /\ validated' = [validated EXCEPT ![u] =
                                    [p \in Piles |-> p \in fetched \/ validated[u][p]]]
                /\ backoff' = [backoff EXCEPT ![u] = Piles \ fetched]
          /\ ResolveCredential(u)
          /\ proven' = proven \cup {u}
          /\ UNCHANGED <<cookieOK, rejected>>
       \/ /\ cookieOK' = IF thread[t].old THEN cookieOK \cup {u} ELSE cookieOK \ {u}
          /\ backoff' = [backoff EXCEPT ![u] = {}]
          /\ proven' = proven \ {u}
          /\ \/ u \notin cookieOK /\ ExpireCredential(u) /\ rejected' = rejected \cup {u}
             \/ UNCHANGED <<st, notice, rejected>>
          /\ UNCHANGED validated
    /\ Unlock(u) /\ Move(t, Idle)
    /\ UNCHANGED <<rule, settings, cache, cycle, left, spent, forgotten>>

-----------------------------------------------------------------------------
(* Time and the administrator *)

Elapse ==
    /\ \/ /\ \E u \in Users, p \in Piles :
                /\ Present(u, p) /\ ~st[u][p].due
                /\ Write(u, p, [st[u][p] EXCEPT !.due = TRUE])
          /\ UNCHANGED <<coordinator, backoff>>
       \/ /\ \E p \in cache : cache' = cache \ {p}
          /\ UNCHANGED <<st, validated, backoff>>
       \/ /\ \E u \in Users, p \in Piles :
                validated[u][p] /\ validated' = [validated EXCEPT ![u] = [@ EXCEPT ![p] = FALSE]]
          /\ UNCHANGED <<st, cache, backoff>>
       \/ /\ \E u \in Users, p \in Piles :
                p \in backoff[u] /\ backoff' = [backoff EXCEPT ![u] = @ \ {p}]
          /\ UNCHANGED <<st, coordinator>>
    /\ UNCHANGED <<rule, notice, settings, cookieOK, cycle, thread, refreshMu, left, history>>

ExpireCookie(u) ==
    /\ u \in cookieOK /\ left.events > 0 /\ Spend(1)
    /\ cookieOK' = cookieOK \ {u}
    /\ UNCHANGED <<rule, st, notice, settings, coordinator, backoff, cycle, thread,
                   refreshMu, history>>

Switch ==
    /\ left.events > 0 /\ Spend(1)
    /\ \/ powerOff' = ~powerOff /\ UNCHANGED <<refreshEnabled, remindersOn>>
       \/ remindersOn' = ~remindersOn /\ UNCHANGED <<refreshEnabled, powerOff>>
       \/ /\ \E u \in Users : refreshEnabled' = IF u \in refreshEnabled THEN refreshEnabled \ {u}
                                                ELSE refreshEnabled \cup {u}
          /\ UNCHANGED <<remindersOn, powerOff>>
    /\ UNCHANGED <<rule, st, notice, coordinator, backoff, cookieOK, cycle, thread,
                   refreshMu, history>>

\* Midnight: no stored quota_date is today's any more.  A cycle prepares all its
\* targets with one reading of the clock.
NewDay ==
    LET Stale(r) == [r EXCEPT !.fresh = FALSE] IN
    /\ todo = {} /\ prep = NoTarget
    /\ left.events > 0 /\ Spend(1)
    /\ st' = [u \in Users |-> [p \in Piles |-> Stale(st[u][p])]]
    /\ thread' = [t \in Threads |-> [thread[t] EXCEPT !.copy = Stale(@)]]
    /\ spent' = [u \in Users |-> 0] /\ forgotten' = [u \in Users |-> 0]
    /\ UNCHANGED <<rule, notice, settings, coordinator, backoff, cookieOK, cycle,
                   refreshMu, proven, rejected>>

\* The process restarts: what it kept in memory is gone.
Restart ==
    /\ left.events > 0 /\ Spend(1)
    /\ todo' = {} /\ seen' = NoSettings /\ prep' = NoTarget
    /\ thread' = [t \in Threads |-> Idle]
    /\ refreshMu' = [u \in Users |-> "free"]
    /\ cache' = {}
    /\ validated' = [u \in Users |-> [p \in Piles |-> FALSE]]
    /\ backoff' = [u \in Users |-> {}]
    /\ UNCHANGED <<rule, st, notice, settings, cookieOK, history>>

-----------------------------------------------------------------------------

Init ==
    /\ rule \in [Users -> SUBSET Piles]
    /\ st = [u \in Users |-> [p \in Piles |-> Absent]]
    /\ notice = {}
    /\ refreshEnabled \in SUBSET Users /\ remindersOn = TRUE /\ powerOff = FALSE
    /\ cache = {}
    /\ validated = [u \in Users |-> [p \in Piles |-> FALSE]]
    /\ backoff = [u \in Users |-> {}]
    /\ cookieOK = Users
    /\ todo = {} /\ seen = NoSettings /\ prep = NoTarget
    /\ thread = [t \in Threads |-> Idle]
    /\ refreshMu = [u \in Users |-> "free"]
    /\ left = [openings |-> Openings, events |-> Events]
    /\ proven = {} /\ rejected = {}
    /\ spent = [u \in Users |-> 0] /\ forgotten = [u \in Users |-> 0]

Progress(t) == Enter(t) \/ Fetch(t) \/ Answer(t) \/ Merge(t)

Handle(u) == Invalidate(u) \/ ApplyOpening(u) \/ LoginAnswer(u)

Cycle == StartCycle \/ PrepareTarget \/ \E u \in Users, p \in Piles : LoadTarget(u, p)

Next ==
    \/ Cycle
    \/ \E t \in Threads : Progress(t) \/ Lock(t)
    \/ \E u \in Users : ApplyJob(u) \/ Handle(u) \/ Login(u) \/ ExpireCookie(u)
    \/ \E u \in Users, p \in Piles : CreateRule(u, p) \/ Cancel(u, p)
    \/ Elapse \/ Switch \/ NewDay \/ Restart

\* Threads run and the client's timeout bounds every request.  Nothing is assumed
\* of the scheduler's timer or of who gets a mutex.
Fairness ==
    /\ \A t \in Threads : WF_vars(Progress(t))
    /\ \A u \in Users : WF_vars(Handle(u))

Spec == Init /\ [][Next]_vars /\ Fairness

-----------------------------------------------------------------------------
(* Properties *)

Holding == {"wait", "fetch", "remote", "merge", "login"}

\* Every variable stays in its range, and a refreshMu is held by the one thread
\* that is between taking and releasing it, or by none.  (A row
\* may be charged above the quota: the permit counts the stored rows, not the copy
\* the charge is added to.)
TypeOK ==
    /\ rule \in [Users -> SUBSET Piles]
    /\ st \in [Users -> [Piles -> Row \cup {Absent}]]
    /\ notice \subseteq Users /\ refreshEnabled \subseteq Users /\ cookieOK \subseteq Users
    /\ remindersOn \in BOOLEAN /\ powerOff \in BOOLEAN
    /\ cache \subseteq Piles
    /\ validated \in [Users -> [Piles -> BOOLEAN]]
    /\ backoff \in [Users -> SUBSET Piles]
    /\ todo \subseteq Users \X Piles
    /\ seen \in [enabled: SUBSET Users, on: BOOLEAN, power: BOOLEAN]
    /\ prep \in [user: Users, pile: Piles, row: Row] \cup {NoTarget}
    /\ thread \in [Threads -> [pc: {"idle", "enter", "lock", "wait", "fetch", "remote", "merge",
                                    "apply", "invalidate", "login"},
                               kind: {"none", "job", "opening", "login"},
                               pile: Piles \cup {"none"},
                               key: (Users \cup {Shared, "none"}) \X (Piles \cup {"none"}),
                               copy: Row \cup {Absent}, out: Outs, old: BOOLEAN]]
    /\ refreshMu \in [Users -> {"free", "job", "api"}]
    /\ \A t \in Threads : refreshMu[User(t)] = t[2] <=> thread[t].pc \in Holding
    /\ left \in [openings: Nat, events: Nat]
    /\ proven \subseteq Users /\ rejected \subseteq Users
    /\ spent \in [Users -> Nat] /\ forgotten \in [Users -> Nat]

\* A credential counts as validated only when the provider accepted a request
\* of that very user since the cookie last changed; a result received from
\* another user's flight or from the cache never renews it (loadWatchedPile).
ValidationIsOwn == \A u \in Users, p \in Piles : validated[u][p] => u \in proven

\* A pile is requested by at most one of the users whose credential is not due
\* for a check: the others wait for that flight (flights, keyed by pile).
SharedFetchIsUnique ==
    \A s, t \in Threads : s # t /\ Leader(s) /\ Leader(t) => thread[s].key # thread[t].key

\* No thread waits for a flight that nobody leads, or for one its own user leads.
WaitersAreLed ==
    \A t \in Threads : thread[t].pc = "wait" =>
        \E s \in Threads : /\ thread[s].pc \in {"fetch", "remote"} /\ thread[s].key = thread[t].key
                           /\ User(s) # User(t)

\* A pile has one flight at a time, and whoever waits for it waits for somebody who is on
\* his way, never for himself (flights in loadWatchedPile).
FlightsAreSound == SharedFetchIsUnique /\ WaitersAreLed

\* A due credential is checked with the user's own request: neither the cache nor
\* somebody else's flight answers for it.
DueChecksStayOwn ==
    [][\A t \in Threads :
        thread[t].pc = "lock" /\ ~validated[User(t)][thread[t].pile] =>
            thread'[t].pc \in {"lock", "fetch", "idle"}]_vars

\* Whatever the cycle, the opening checks and the waiters save from copies they
\* hold, the day's scheduled requests exceed the quota by no more than the
\* charges of rows that were deleted or replaced.
QuotaHoldsUpToForgotten == \A u \in Users : spent[u] <= Quota + forgotten[u]

\* A refreshMu that is taken is released: waiting for another user's flight while
\* holding one's own mutex never ends in a circle, whatever the flights deliver.
EveryRefreshReturns == \A u \in Users : refreshMu[u] # "free" ~> refreshMu[u] = "free"

\* CHANGELOG.md: a daily quota bounds the scheduled requests of a user.
DailyQuotaHolds == \A u \in Users : spent[u] <= Quota

\* loadWatchedPile: the credential result of a shared flight "is not attributable
\* to this waiter"; so a user is told that the login expired only when a request
\* of that user was rejected.
ExpiryIsAttributable == notice \subseteq rejected
=============================================================================
