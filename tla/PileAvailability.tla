---------------------------- MODULE PileAvailability ----------------------------
(***************************************************************************)
(* How one user is told that a watched pile became free: port transitions  *)
(* are recorded, the availability cursor of watch_refresh_states turns      *)
(* them into at most one notification per reminder, and the start of a      *)
(* scheduler cycle makes up for what a crash interrupted.                   *)
(*                                                                         *)
(* Two goroutines process availability: whoever holds the user's refreshMu *)
(* ("refresh": a scheduled check, a manual refresh or the opening check of *)
(* a new reminder) and the scheduler's recovery ("recover").  Every        *)
(* database write is a step of its own.  Time is counted in seconds, the   *)
(* resolution of the tables.                                               *)
(***************************************************************************)
EXTENDS Integers, Sequences, FiniteSets, FiniteSetsExt, SequencesExt

CONSTANTS
    Ports,
    Shared,         \* whether other users watch the pile as well
    MaxFlips,       \* bound on changes of a port
    MaxEvents,      \* no refresh starts once this many transitions are recorded
    MaxRules,       \* bound on reminders
    MaxClock,       \* bound on seconds
    MaxCrashes      \* bound on restarts of the process

ASSUME AvailabilityAssumption ==
    /\ IsFiniteSet(Ports) /\ Shared \in BOOLEAN
    /\ {MaxFlips, MaxEvents, MaxRules, MaxClock, MaxCrashes} \subseteq Nat

VARIABLES
    world,          \* the ports' real status
    store,          \* the pile in the user's saved dashboard
    cache,          \* the pile as the shared cache of background refreshes has it
    log,            \* port_status_events; the id of an event is its position
    rules,          \* watch_rules of this pile; the id of a rule is its position
    cursor,         \* availability columns of watch_refresh_states
    notes,          \* notifications of type pile_available
    opening,        \* the HTTP handler that makes the opening check
    thread,         \* the two goroutines
    notificationMu, \* who holds it
    clock, flips, crashes,
    owed,           \* history: the reminder a recorded rise must be told to, or 0
    late            \* history: reminders notified when they had ended

history == <<owed, late>>
vars == <<world, store, cache, log, rules, cursor, notes, opening, thread, notificationMu,
          clock, flips, crashes, history>>

-----------------------------------------------------------------------------

Status == {"idle", "in_use", "other"}
HasIdle(pile) == \E p \in Ports : pile.ports[p] = "idle"

Unknown == [known |-> FALSE, idle |-> FALSE, event |-> 0]
Cursor(idle, event) == [known |-> TRUE, idle |-> idle,
                        event |-> IF event > cursor.event THEN event ELSE cursor.event]

Active(i) == rules[i].state = "active"
Actives == {i \in DOMAIN rules : Active(i)}
ActiveRule == IF Actives = {} THEN 0 ELSE CHOOSE i \in Actives : TRUE
End(i, why) == /\ rules' = [rules EXCEPT ![i] = [@ EXCEPT !.state = why]]
               /\ owed' = IF owed = i THEN 0 ELSE owed

NoPile == [ports |-> [p \in Ports |-> "other"], at |-> 0]
Rest == [pc |-> "rest", kind |-> "none", pile |-> NoPile, events |-> {}, rule |-> 0]
Goroutines == {"refresh", "recover"}
Resting(g) == thread[g].pc \in {"rest", "ready"}
Step(g, r) == thread' = [thread EXCEPT ![g] = r]
Goto(g, pc) == Step(g, [thread[g] EXCEPT !.pc = pc])
Leave(g) == Step(g, IF g = "recover" THEN [Rest EXCEPT !.pc = "reconcile"] ELSE Rest)

LastEvent(p) == Max({e \in DOMAIN log : log[e].port = p} \cup {0})

EligibleLater(i, events) ==                 \* faulty: not in the reminder's first second
    {e \in events : /\ log[e].from = "in_use" /\ log[e].to = "idle"
                    /\ rules[i].created < log[e].at}
\* eligiblePileAvailabilityEvent: the first of the events that is an in_use ->
\* idle transition no older than the reminder.
Eligible(i, events) ==
    {e \in events : /\ log[e].from = "in_use" /\ log[e].to = "idle"
                    /\ rules[i].created <= log[e].at}

-----------------------------------------------------------------------------
(* Refreshes *)

\* A pile is fetched, merged into the dashboard and saved, under refreshMu.  A
\* scheduled check follows the recovery of its cycle and may be answered from
\* the cache that all users share.
Fetch(kind) ==
    /\ Resting("refresh") /\ Len(log) < MaxEvents
    /\ CASE kind = "job"     -> Actives # {} /\ thread["recover"].pc = "ready"
         [] kind = "opening" -> opening.pc = "entered"
         [] OTHER            -> TRUE
    /\ store' \in {[ports |-> world, at |-> clock]}
                  \cup (IF kind = "job" /\ cache # NoPile THEN {cache} ELSE {})
    /\ thread' = [refresh |-> [Rest EXCEPT !.pc = "record", !.kind = kind, !.pile = store'],
                  recover |-> IF kind = "job" THEN Rest ELSE thread["recover"]]
    /\ opening' = IF kind = "opening" THEN [opening EXCEPT !.pc = "fetching"] ELSE opening
    /\ UNCHANGED <<world, cache, log, rules, cursor, notes, notificationMu, clock, flips,
                   crashes, history>>

\* Another user's background refresh fills the cache.
Share ==
    /\ Shared
    /\ cache' = [ports |-> world, at |-> clock] /\ cache' # cache
    /\ UNCHANGED <<world, store, log, rules, cursor, notes, opening, thread, notificationMu,
                   clock, flips, crashes, history>>

\* RecordPortStatusTransitions in one transaction; a manual refresh records
\* watched piles only.
Record ==
    LET t == thread["refresh"]
        Old(p) == IF LastEvent(p) = 0 THEN "none" ELSE log[LastEvent(p)].to
        At(p) == IF LastEvent(p) = 0 THEN t.pile.at
                 ELSE Max({t.pile.at, log[LastEvent(p)].at})
        changed == {p \in Ports : t.pile.ports[p] # Old(p)
                                  /\ (t.kind = "manual" => Actives # {})}
        new == [n \in 1..Cardinality(changed) |->
                  LET p == SetToSeq(changed)[n]
                  IN [port |-> p, from |-> Old(p), to |-> t.pile.ports[p], at |-> At(p)]]
        ids == Len(log) + 1 .. Len(log) + Len(new)
    IN /\ t.pc = "record"
       /\ log' = log \o new
       /\ Step("refresh", [t EXCEPT !.pc = IF t.kind = "opening" THEN "baseline" ELSE "rules",
                                    !.events = ids])
       /\ owed' = IF ~HasIdle(t.pile) THEN 0
                  ELSE IF /\ Actives # {} /\ cursor.known /\ ~cursor.idle
                          /\ t.kind # "opening"
                          /\ \E e \in ids : /\ log'[e].from = "in_use" /\ log'[e].to = "idle"
                                            /\ rules[ActiveRule].created <= log'[e].at
                  THEN ActiveRule ELSE owed
       /\ UNCHANGED <<world, store, cache, rules, cursor, notes, opening, notificationMu, clock,
                      flips, crashes, late>>

\* The opening check saves what it saw without a notification.
Baseline ==
    LET t == thread["refresh"] IN
    /\ t.pc = "baseline"
    /\ cursor' = Cursor(HasIdle(t.pile), Max(t.events \cup {0}))
    /\ opening' = [opening EXCEPT !.pc = IF HasIdle(t.pile) THEN "idle" ELSE "waiting"]
    /\ Step("refresh", Rest)
    /\ UNCHANGED <<world, store, cache, log, rules, notes, notificationMu, clock, flips,
                   crashes, history>>

-----------------------------------------------------------------------------
(* processPileAvailability *)

AnyAge(i, pile) == TRUE                     \* faulty: also a pile of before the reminder
\* The reminder is not newer than what was observed.
Covers(i, pile) == rules[i].created <= pile.at

ReadRules(g) ==
    LET t == thread[g] IN
    /\ t.pc = "rules"
    /\ IF Actives # {} /\ Covers(ActiveRule, t.pile)
       THEN Step(g, [t EXCEPT !.pc = "decide", !.rule = ActiveRule])
       ELSE Leave(g)
    /\ UNCHANGED <<world, store, cache, log, rules, cursor, notes, opening, notificationMu,
                   clock, flips, crashes, history>>

StoredOfEvent(i, event, key, at) ==         \* faulty: nothing without a source event
    IF event = 0 THEN notes
    ELSE notes \cup {[rule |-> i, event |-> event, key |-> key, at |-> at]}
\* InsertNotificationWithWxPusherDeliveryIfAbsent: source events are unique, and
\* so are the keys of notifications without one.
Stored(i, event, key, at) ==
    IF \E n \in notes : n.key = key \/ (event # 0 /\ n.event = event) THEN notes
    ELSE notes \cup {[rule |-> i, event |-> event, key |-> key, at |-> at]}

Notify(g, event, key, at) ==
    LET i == thread[g].rule IN
    /\ notes' = Stored(i, event, key, at)
    /\ late' = IF Active(i) THEN late ELSE late \cup {i}
    /\ owed' = IF owed = i THEN 0 ELSE owed
    /\ Goto(g, "complete")

\* processOnePileAvailability up to its first write, under notificationMu.
Decide(g) ==
    LET t == thread[g]
        idle == HasIdle(t.pile)
        events == Eligible(t.rule, t.events)
        latest == Max(t.events \cup {0})
    IN /\ t.pc = "decide" /\ notificationMu = "free"
       /\ \/ /\ ~cursor.known /\ idle
             /\ Notify(g, latest, <<"rule", t.rule>>, t.pile.at)
             /\ notificationMu' = g
          \/ /\ cursor.known /\ idle /\ ~cursor.idle /\ events # {}
             /\ Notify(g, Min(events), <<"event", Min(events)>>, log[Min(events)].at)
             /\ notificationMu' = g
          \/ /\ cursor.known => cursor.idle # idle \/ latest > cursor.event
             /\ idle => cursor.known /\ (~cursor.idle => events = {})
             /\ Goto(g, "save") /\ notificationMu' = g
             /\ UNCHANGED <<notes, late, owed>>
          \/ /\ cursor.known /\ cursor.idle = idle /\ latest <= cursor.event
             /\ Leave(g)
             /\ UNCHANGED <<notes, late, owed, notificationMu>>
       /\ UNCHANGED <<world, store, cache, log, rules, cursor, opening, clock, flips, crashes>>

\* Faulty: the reminder stays open until the next cycle repairs it.
CompleteNever(g) ==
    /\ thread[g].pc = "complete" /\ Goto(g, "save")
    /\ UNCHANGED <<world, store, cache, log, rules, cursor, notes, opening, notificationMu, clock,
                   flips, crashes, history>>
\* CompleteWatchRule closes the reminder unless it is closed already.
Complete(g) ==
    LET i == thread[g].rule IN
    /\ thread[g].pc = "complete"
    /\ IF Active(i) THEN End(i, "notified") ELSE UNCHANGED <<rules, owed>>
    /\ Goto(g, "save")
    /\ UNCHANGED <<world, store, cache, log, cursor, notes, opening, notificationMu, clock,
                   flips, crashes, late>>

FinishHolding(g) == UNCHANGED notificationMu /\ Leave(g)    \* faulty: no unlock
Finish(g) == notificationMu' = "free" /\ Leave(g)

SaveCursor(g) ==
    LET t == thread[g] IN
    /\ t.pc = "save"
    /\ cursor' = Cursor(HasIdle(t.pile), Max(t.events \cup {0}))
    /\ Finish(g)
    /\ UNCHANGED <<world, store, cache, log, rules, notes, opening, clock, flips, crashes,
                   history>>

-----------------------------------------------------------------------------
(* The scheduler's recovery *)

\* UnnotifiedIdleTransitions
Unnotified ==
    {e \in DOMAIN log :
        /\ log[e].from = "in_use" /\ log[e].to = "idle" /\ e > cursor.event
        /\ ~\E n \in notes : n.event = e
        /\ \E i \in Actives : rules[i].created <= log[e].at}

\* CompleteNotifiedTemporaryWatchRules
Told(i) == \E n \in notes : n.at >= rules[i].created

\* A cycle closes the reminders whose notification was stored, then looks for
\* transitions nobody was told of.
Recover ==
    /\ Resting("recover") /\ thread["refresh"].kind # "job"
    /\ rules' = [i \in DOMAIN rules |->
                    IF Active(i) /\ Told(i) THEN [rules[i] EXCEPT !.state = "notified"] ELSE rules[i]]
    /\ owed' = IF owed # 0 /\ rules'[owed].state # "active" THEN 0 ELSE owed
    /\ Step("recover", [Rest EXCEPT !.pc = "find"])
    /\ UNCHANGED <<world, store, cache, log, cursor, notes, opening, notificationMu, clock,
                   flips, crashes, late>>

FindEvents ==
    /\ thread["recover"].pc = "find"
    /\ Step("recover", IF Unnotified = {} THEN [Rest EXCEPT !.pc = "reconcile"]
                       ELSE [Rest EXCEPT !.pc = "snapshot", !.events = Unnotified])
    /\ UNCHANGED <<world, store, cache, log, rules, cursor, notes, opening, notificationMu,
                   clock, flips, crashes, history>>

\* The found events are matched with the pile as the dashboard shows it.
TakeSnapshot ==
    /\ thread["recover"].pc = "snapshot"
    /\ Step("recover", [thread["recover"] EXCEPT !.pc = "rules", !.pile = store])
    /\ UNCHANGED <<world, store, cache, log, rules, cursor, notes, opening, notificationMu,
                   clock, flips, crashes, history>>

\* reconcileReminderStates drops the row of a pile without a reminder, from a
\* list of reminders it read before; then the cycle is ready for its check.
Reconcile ==
    /\ \/ /\ thread["recover"].pc = "reconcile"
          /\ Step("recover", [Rest EXCEPT !.pc = IF Actives = {} THEN "drop" ELSE "ready"])
          /\ UNCHANGED cursor
       \/ /\ thread["recover"].pc = "drop"
          /\ cursor' = Unknown /\ Step("recover", Rest)
    /\ UNCHANGED <<world, store, cache, log, rules, notes, opening, notificationMu, clock,
                   flips, crashes, history>>

-----------------------------------------------------------------------------
(* Reminders *)

NoOpening == [pc |-> "none", rule |-> 0]

\* CreateWatchRuleWithInitialCheck: one active reminder per pile.
CreateRule ==
    /\ opening = NoOpening /\ Actives = {} /\ Len(rules) < MaxRules
    /\ rules' = Append(rules, [created |-> clock, state |-> "active"])
    /\ opening' = [pc |-> "created", rule |-> Len(rules) + 1]
    /\ UNCHANGED <<world, store, cache, log, cursor, notes, thread, notificationMu, clock,
                   flips, crashes, history>>

\* The opening check starts if a reminder is left; it may fail, and is tried
\* again later, or find that the login has expired and take everything back.
EnterOpening ==
    /\ opening.pc = "created"
    /\ \/ Actives # {} /\ opening' = [opening EXCEPT !.pc = "entered"]
          /\ UNCHANGED <<rules, owed, cursor>>
       \/ opening' = NoOpening /\ UNCHANGED <<rules, owed, cursor>>
       \/ opening' = NoOpening /\ End(opening.rule, "deleted") /\ cursor' = Unknown
    /\ UNCHANGED <<world, store, cache, log, notes, thread, notificationMu, clock, flips,
                   crashes, late>>

\* A free port answers the request: the reminder and the row are deleted.
AnswerOpening ==
    /\ opening.pc \in {"idle", "waiting"} /\ opening' = NoOpening
    /\ IF opening.pc = "idle"
       THEN End(opening.rule, "deleted") /\ cursor' = Unknown
       ELSE UNCHANGED <<rules, owed, cursor>>
    /\ UNCHANGED <<world, store, cache, log, notes, thread, notificationMu, clock, flips,
                   crashes, late>>

\* The user cancels the reminder, which also drops the row, or it is deleted or
\* expires.
EndRule(i) ==
    /\ Active(i)
    /\ \/ End(i, "cancelled") /\ cursor' = Unknown
       \/ End(i, "expired") /\ UNCHANGED cursor
    /\ UNCHANGED <<world, store, cache, log, notes, opening, thread, notificationMu, clock,
                   flips, crashes, late>>

-----------------------------------------------------------------------------
(* The pile, time, crashes *)

Flip(p, s) ==
    /\ flips < MaxFlips /\ flips' = flips + 1
    /\ world[p] # s /\ world' = [world EXCEPT ![p] = s]
    /\ UNCHANGED <<store, cache, log, rules, cursor, notes, opening, thread, notificationMu,
                   clock, crashes, history>>

Tick ==
    /\ clock < MaxClock /\ clock' = clock + 1
    /\ UNCHANGED <<world, store, cache, log, rules, cursor, notes, opening, thread,
                   notificationMu, flips, crashes, history>>

Crash ==
    /\ crashes < MaxCrashes /\ crashes' = crashes + 1
    /\ thread' = [g \in Goroutines |-> Rest] /\ cache' = NoPile
    /\ notificationMu' = "free" /\ opening' = NoOpening
    /\ UNCHANGED <<world, store, log, rules, cursor, notes, clock, flips, history>>

-----------------------------------------------------------------------------

Init ==
    /\ world \in [Ports -> Status]
    /\ store = NoPile /\ cache = NoPile
    /\ log = <<>> /\ rules = <<>>
    /\ cursor = Unknown /\ notes = {}
    /\ opening = NoOpening
    /\ thread = [g \in Goroutines |-> Rest]
    /\ notificationMu = "free"
    /\ clock = 0 /\ flips = 0 /\ crashes = 0
    /\ owed = 0 /\ late = {}

Process(g) == ReadRules(g) \/ Decide(g) \/ Complete(g) \/ SaveCursor(g)

Next ==
    \/ \E kind \in {"job", "manual", "opening"} : Fetch(kind)
    \/ Share \/ Record \/ Baseline
    \/ \E g \in Goroutines : Process(g)
    \/ Recover \/ FindEvents \/ TakeSnapshot \/ Reconcile
    \/ CreateRule \/ EnterOpening \/ AnswerOpening
    \/ \E i \in DOMAIN rules : EndRule(i)
    \/ \E p \in Ports, s \in Status : Flip(p, s)
    \/ Tick \/ Crash

\* The goroutines run on once they have started; nothing is assumed of when
\* refreshes and cycles start.
Fairness ==
    /\ WF_vars(Record)
    /\ \A g \in Goroutines : WF_vars(Process(g))

Spec == Init /\ [][Next]_vars /\ Fairness

-----------------------------------------------------------------------------
(* Properties *)

\* Every variable stays in its range, and notificationMu is held by the one
\* goroutine that is between its decision and its last write, or by none.
TypeOK ==
    /\ world \in [Ports -> Status]
    /\ {store, cache} \subseteq [ports: [Ports -> Status], at: 0..MaxClock]
    /\ \A e \in DOMAIN log : log[e] \in [port: Ports, from: Status \cup {"none"}, to: Status,
                                        at: 0..MaxClock]
    /\ \A i \in DOMAIN rules : rules[i] \in [created: 0..MaxClock,
            state: {"active", "notified", "expired", "cancelled", "deleted"}]
    /\ Cardinality(Actives) <= 1
    /\ cursor \in [known: BOOLEAN, idle: BOOLEAN, event: 0..Len(log)]
    /\ \A n \in notes : n.rule \in DOMAIN rules /\ n.event \in 0..Len(log) /\ n.at \in 0..MaxClock
    /\ opening.pc \in {"none", "created", "entered", "fetching", "idle", "waiting"}
    /\ opening.rule \in 0..Len(rules)
    /\ \A g \in Goroutines :
          /\ thread[g].pc \in {"rest", "record", "baseline", "rules", "decide", "complete", "save",
                               "find", "snapshot", "reconcile", "drop", "ready"}
          /\ thread[g].events \subseteq DOMAIN log /\ thread[g].rule \in 0..Len(rules)
          /\ notificationMu = g <=> thread[g].pc \in {"complete", "save"}
    /\ notificationMu \in Goroutines \cup {"free"}
    /\ late \subseteq DOMAIN rules /\ owed \in 0..Len(rules)

\* A reminder is marked as notified only if a notification about the pile, no
\* older than the reminder, exists: neither the direct completion nor the one
\* that repairs a crash closes a reminder whose user was not told.
FirstIsTold == rules # <<>> /\ rules[1].state = "notified" => Told(1)

\* No notification is about a transition from before its reminder was created.
NoticeIsFresh ==
    \A n \in notes : /\ rules[n.rule].created <= n.at
                     /\ n.key[1] = "event" => log[n.event].at >= rules[n.rule].created

\* Until it has ended, and without a crash, a reminder notifies at most once,
\* whichever refreshes and recoveries process the same transition.
NotifiesOnce ==
    crashes = 0 => \A m, n \in notes : m.rule = n.rule /\ m.rule \notin late => m = n

\* A recorded rise that an active reminder must be told of is told, or the pile
\* is in use again, or the reminder has ended (no crash).
OwedIsPaid == owed # 0 ~> owed = 0

\* UnnotifiedIdleTransitions is "a recovery cursor after process crashes": while
\* a rise is owed and nobody processes it, the recovery still finds it.
OwedIsRecoverable ==
    owed # 0 /\ (\A g \in Goroutines : Resting(g)) => Unnotified # {} /\ ~cursor.idle
=============================================================================
