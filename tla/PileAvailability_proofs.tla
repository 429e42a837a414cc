------------------------ MODULE PileAvailability_proofs ------------------------
(***************************************************************************)
(* Proofs about PileAvailability for every set of ports and every bound.   *)
(***************************************************************************)
EXTENDS PileAvailability, SequenceTheorems, FiniteSetTheorems, WellFoundedInduction, TLAPS

-----------------------------------------------------------------------------
(* Type correctness *)

Piles == [ports: [Ports -> Status], at: 0..MaxClock]
Events == [port: Ports, from: Status \cup {"none"}, to: Status, at: 0..MaxClock]
Rules == [created: 0..MaxClock, state: {"active", "notified", "expired", "cancelled", "deleted"}]
Notes == [rule: Nat, event: Nat, key: {"rule", "event"} \X Nat, at: 0..MaxClock]
Steps == {"rest", "record", "baseline", "rules", "decide", "complete", "save",
          "find", "snapshot", "reconcile", "drop", "ready"}
Threads == [pc: Steps, kind: {"none", "job", "manual", "opening"}, pile: Piles,
            events: SUBSET Nat, rule: Nat]

\* The tables and the caches.
DataOK ==
    /\ world \in [Ports -> Status]
    /\ store \in Piles /\ cache \in Piles
    /\ log \in Seq(Events)
    /\ rules \in Seq(Rules)
    /\ \A i, j \in Actives : i = j
    /\ cursor \in [known: BOOLEAN, idle: BOOLEAN, event: Nat] /\ cursor.event <= Len(log)
    /\ \A n \in notes : n \in Notes /\ n.rule \in DOMAIN rules /\ n.event <= Len(log)
    /\ opening \in [pc: {"none", "created", "entered", "fetching", "idle", "waiting"}, rule: Nat]
    /\ opening.rule <= Len(rules)
    /\ clock \in 0..MaxClock
    /\ owed \in 0..Len(rules) /\ late \subseteq DOMAIN rules

\* A goroutine that is past the reading of the reminders works for one of them.
ThreadOK(g) ==
    LET t == thread[g]
    IN /\ t.events \subseteq DOMAIN log
       /\ t.rule <= Len(rules)
       /\ t.pc \in {"decide", "complete", "save"} => t.rule \in DOMAIN rules

LockOK ==
    /\ notificationMu \in Goroutines \cup {"free"}
    /\ \A g \in Goroutines : notificationMu = g <=> thread[g].pc \in {"complete", "save"}

TypeInv == /\ DataOK /\ LockOK
           /\ thread \in [Goroutines -> Threads] /\ \A g \in Goroutines : ThreadOK(g)

\* Facts about least and greatest elements.
LEMMA LeastExists ==
    ASSUME NEW S \in SUBSET Nat, S # {}
    PROVE  \E x \in S : \A y \in S : x <= y
<1>1. PICK x \in S : \A y \in S : ~ (<<y, x>> \in OpToRel(<, Nat))
    BY NatLessThanWellFounded, WFMin, Zenon
<1>2. \A y \in S : ~(y < x)
    BY <1>1 DEF OpToRel
<1> QED BY <1>2

LEMMA MinType ==
    ASSUME NEW S \in SUBSET Nat, S # {}
    PROVE  Min(S) \in S /\ \A y \in S : Min(S) <= y
BY LeastExists DEF Min

LEMMA MaxType ==
    ASSUME NEW N \in Nat, NEW S \in SUBSET (0..N), S # {}
    PROVE  Max(S) \in S /\ \A y \in S : y <= Max(S)
<1> DEFINE T == {N - x : x \in S}
<1>1. T \in SUBSET Nat OBVIOUS
<1>2. T # {}
    <2>1. PICK s \in S : TRUE OBVIOUS
    <2>2. N - s \in T OBVIOUS
    <2> QED BY <2>2
<1>3. PICK t \in T : \A y \in T : t <= y
    BY <1>1, <1>2, LeastExists
<1>4. PICK x \in S : t = N - x OBVIOUS
<1>5. \A y \in S : y <= x
    BY <1>3, <1>4
<1> QED BY <1>5 DEF Max

\* The transitions of a refresh are recorded in some order.
LEMMA OrderOf ==
    ASSUME NEW S, IsFiniteSet(S)
    PROVE  SetToSeq(S) \in [1..Cardinality(S) -> S] /\ Cardinality(S) \in Nat
<1>1. PICK f \in Bijection(1..Cardinality(S), S) : TRUE
    BY FS_CardinalityType DEF ExistsBijection
<1>2. f \in [1..Cardinality(S) -> S] /\ IsInjective(f)
    BY <1>1 DEF Bijection, Injection, IsInjective
<1> QED BY <1>2, FS_CardinalityType DEF SetToSeq

LEMMA TableFacts ==
    ASSUME DataOK
    PROVE  /\ DOMAIN rules = 1..Len(rules) /\ Len(rules) \in Nat
           /\ \A i \in DOMAIN rules : rules[i] \in Rules
           /\ DOMAIN log = 1..Len(log) /\ Len(log) \in Nat
           /\ \A e \in DOMAIN log : log[e] \in Events
BY LenProperties, ElementOfSeq DEF DataOK

\* The id the cursor moves to is one of a recorded event, or none.
LEMMA CursorType ==
    ASSUME DataOK, NEW idle \in BOOLEAN, NEW events \in SUBSET (DOMAIN log)
    PROVE  /\ Max(events \cup {0}) \in 0..Len(log)
           /\ Cursor(idle, Max(events \cup {0})) \in [known: BOOLEAN, idle: BOOLEAN, event: Nat]
           /\ Cursor(idle, Max(events \cup {0})).event <= Len(log)
<1>1. events \cup {0} \in SUBSET (0..Len(log)) /\ events \cup {0} # {} /\ Len(log) \in Nat
    BY TableFacts
<1>2. Max(events \cup {0}) \in 0..Len(log)
    BY <1>1, MaxType
<1> DEFINE m == Max(events \cup {0})
<1> HIDE DEF m
<1>3. m \in 0..Len(log) BY <1>2 DEF m
<1>4. /\ Cursor(idle, m) \in [known: BOOLEAN, idle: BOOLEAN, event: Nat]
      /\ Cursor(idle, m).event <= Len(log)
    BY <1>1, <1>3 DEF Cursor, DataOK
<1> QED BY <1>2, <1>4 DEF m

\* No reminder is opened or moved: some may have ended.
RulesKept ==
    /\ rules' \in Seq(Rules) /\ Len(rules') = Len(rules) /\ DOMAIN rules' = DOMAIN rules
    /\ \A i \in DOMAIN rules : /\ rules'[i].created = rules[i].created
                               /\ rules'[i].state = "active" => rules[i].state = "active"

LEMMA EndKeeps ==
    ASSUME DataOK, NEW i, NEW why \in {"notified", "expired", "cancelled", "deleted"}, End(i, why)
    PROVE  /\ RulesKept /\ owed' \in {0, owed}
           /\ \A j \in DOMAIN rules : rules'[j].state = rules[j].state \/ (j = i /\ rules'[j].state = why)
<1> DEFINE Q(j) == [rules[j] EXCEPT !.state = why]
<1>1. ASSUME NEW j \in DOMAIN rules
      PROVE  Q(j) \in Rules /\ Q(j).created = rules[j].created /\ Q(j).state = why
    BY TableFacts DEF Rules
<1>2. rules' = [rules EXCEPT ![i] = Q(i)]
    BY DEF End
<1> HIDE DEF Q
<1>3. rules' \in Seq(Rules) /\ Len(rules') = Len(rules) /\ DOMAIN rules' = DOMAIN rules
    <2>1. rules' \in [1..Len(rules) -> Rules]
        BY <1>1, <1>2, TableFacts
    <2> QED BY <2>1, TableFacts, IsASeq, LenProperties
<1> QED BY <1>1, <1>2, <1>3 DEF RulesKept, End

\* What the step leaves in the tables is enough for the rest of the state to be
\* typed.
Grown == DOMAIN log \subseteq DOMAIN log' /\ Len(rules') >= Len(rules)
           /\ DOMAIN rules \subseteq DOMAIN rules'

LEMMA ThreadKept ==
    ASSUME TypeInv, Grown, DataOK', UNCHANGED <<thread, notificationMu>>
    PROVE  TypeInv'
<1>1. Len(rules) \in Nat /\ Len(rules') \in Nat BY TableFacts, LenProperties DEF TypeInv, DataOK
<1> QED BY <1>1 DEF TypeInv, Grown, LockOK, ThreadOK, Threads

Holding == {"complete", "save"}

LEMMA ThreadSet ==
    ASSUME TypeInv, Grown, DataOK',
           NEW g \in Goroutines, NEW r \in Threads, Step(g, r),
           r.events \subseteq DOMAIN log', r.rule <= Len(rules'),
           r.pc \in {"decide", "complete", "save"} => r.rule \in DOMAIN rules',
           \/ UNCHANGED notificationMu /\ (r.pc \in Holding <=> thread[g].pc \in Holding)
           \/ notificationMu = "free" /\ notificationMu' = g /\ r.pc \in Holding
           \/ thread[g].pc \in Holding /\ notificationMu' = "free" /\ r.pc \notin Holding
    PROVE  TypeInv'
<1>0. Len(rules) \in Nat /\ Len(rules') \in Nat BY TableFacts, LenProperties DEF TypeInv, DataOK
<1>1. thread' \in [Goroutines -> Threads] /\ thread'[g] = r
      /\ \A h \in Goroutines \ {g} : thread'[h] = thread[h]
    BY DEF Step, TypeInv
<1>2. \A h \in Goroutines : ThreadOK(h)'
    BY <1>0, <1>1 DEF TypeInv, Grown, ThreadOK, Threads
<1>3. LockOK'
    BY <1>1 DEF TypeInv, LockOK, Holding, Goroutines
<1> QED BY <1>1, <1>2, <1>3 DEF TypeInv

LEMMA RestType ==
    /\ NoPile \in Piles
    /\ Rest \in Threads /\ Rest.pc = "rest" /\ Rest.events = {} /\ Rest.rule = 0 /\ Rest.pile = NoPile
BY AvailabilityAssumption DEF NoPile, Piles, Status, Rest, Threads, Steps

\* Moving on keeps the rest of what a goroutine holds.
LEMMA Moving ==
    ASSUME NEW r \in Threads, NEW pc \in Steps
    PROVE  /\ [r EXCEPT !.pc = pc] \in Threads /\ [r EXCEPT !.pc = pc].pc = pc
           /\ [r EXCEPT !.pc = pc].rule = r.rule /\ [r EXCEPT !.pc = pc].events = r.events
           /\ [r EXCEPT !.pc = pc].pile = r.pile /\ [r EXCEPT !.pc = pc].kind = r.kind
BY DEF Threads

LEMMA GotoMoves ==
    ASSUME NEW g \in Goroutines, thread[g] \in Threads, NEW pc \in Steps, Goto(g, pc)
    PROVE  \E r \in Threads : /\ Step(g, r) /\ r.pc = pc
                              /\ r.rule = thread[g].rule /\ r.events = thread[g].events
<1> DEFINE r == [thread[g] EXCEPT !.pc = pc]
<1>1. r \in Threads /\ r.pc = pc /\ r.rule = thread[g].rule /\ r.events = thread[g].events
    BY DEF Threads
<1>2. Step(g, r) BY DEF Goto
<1> QED BY <1>1, <1>2

LEMMA LeaveType ==
    ASSUME NEW g \in Goroutines, Leave(g)
    PROVE  \E r \in Threads : /\ Step(g, r) /\ r.pc \in {"rest", "reconcile"}
                              /\ r.events = {} /\ r.rule = 0
<1> DEFINE r == IF g = "recover" THEN [Rest EXCEPT !.pc = "reconcile"] ELSE Rest
<1>1. r \in Threads /\ r.pc \in {"rest", "reconcile"} /\ r.events = {} /\ r.rule = 0
    BY RestType, Moving DEF Steps
<1>2. Step(g, r) BY DEF Leave
<1> QED BY <1>1, <1>2

LEMMA TypeInit == Init => TypeInv
<1> SUFFICES ASSUME Init PROVE TypeInv OBVIOUS
<1>1. /\ rules \in Seq(Rules) /\ log \in Seq(Events) /\ Len(rules) = 0 /\ Len(log) = 0
      /\ DOMAIN rules = {} /\ DOMAIN log = {}
    BY DEF Init
<1>2. DataOK
    BY <1>1, RestType, AvailabilityAssumption
       DEF Init, DataOK, Actives, Unknown, NoOpening
<1> QED BY <1>1, <1>2, RestType DEF Init, TypeInv, LockOK, ThreadOK, Goroutines

\* Steps that leave the tables alone.
tables == <<store, log, rules, cursor, notes, owed, late>>

LEMMA TablesKept ==
    ASSUME DataOK, UNCHANGED tables,
           world' \in [Ports -> Status], cache' \in Piles, clock' \in 0..MaxClock,
           opening' \in [pc: {"none", "created", "entered", "fetching", "idle", "waiting"}, rule: Nat],
           opening'.rule <= Len(rules)
    PROVE  DataOK' /\ Grown
<1>1. Len(rules) \in Nat BY TableFacts
<1> QED BY <1>1 DEF DataOK, tables, Grown, Actives, Active

\* Steps that end reminders.
LEMMA RulesEnded ==
    ASSUME DataOK, RulesKept,
           UNCHANGED <<world, store, cache, log, notes, clock>>,
           late' \subseteq DOMAIN rules, owed' \in {0, owed},
           cursor' \in {cursor, Unknown},
           opening' \in [pc: {"none", "created", "entered", "fetching", "idle", "waiting"}, rule: Nat],
           opening'.rule <= Len(rules)
    PROVE  DataOK' /\ Grown
<1>1. Len(rules) \in Nat BY TableFacts
<1>2. \A i, j \in Actives' : i = j
    BY DEF RulesKept, Actives, Active, DataOK
<1>3. cursor' \in [known: BOOLEAN, idle: BOOLEAN, event: Nat] /\ cursor'.event <= Len(log)
    <2>1. Unknown \in [known: BOOLEAN, idle: BOOLEAN, event: Nat] /\ Unknown.event <= Len(log)
        BY TableFacts DEF Unknown
    <2>2. cursor \in [known: BOOLEAN, idle: BOOLEAN, event: Nat] /\ cursor.event <= Len(log)
        BY DEF DataOK
    <2> QED BY <2>1, <2>2
<1> QED BY <1>1, <1>2, <1>3 DEF DataOK, RulesKept, Grown

LEMMA TypeFetch ==
    ASSUME TypeInv, NEW kind \in {"job", "manual", "opening"}, Fetch(kind)
    PROVE  TypeInv'
<1>1. store' \in Piles
    <2>1. [ports |-> world, at |-> clock] \in Piles BY DEF TypeInv, DataOK, Piles
    <2> QED BY <2>1 DEF Fetch, TypeInv, DataOK
<1> DEFINE r == [Rest EXCEPT !.pc = "record", !.kind = kind, !.pile = store']
<1>2. r \in Threads /\ r.pc = "record" /\ r.events = {} /\ r.rule = 0
    BY <1>1, RestType DEF Threads, Steps
<1>3. thread'["refresh"] = r /\ thread'["recover"] \in {Rest, thread["recover"]}
      /\ thread' \in [Goroutines -> Threads]
    <2> HIDE DEF r
    <2>1. thread' = [refresh |-> r, recover |-> IF kind = "job" THEN Rest ELSE thread["recover"]]
        BY DEF Fetch, r
    <2> QED BY <1>2, <2>1, RestType DEF TypeInv, Goroutines
<1>4. kind = "job" => thread["recover"].pc = "ready"
    BY DEF Fetch
<1>5. DataOK' /\ Grown
    <2>1. opening' \in [pc: {"none", "created", "entered", "fetching", "idle", "waiting"}, rule: Nat]
          /\ opening'.rule <= Len(rules)
        BY DEF Fetch, TypeInv, DataOK
    <2>2. UNCHANGED <<world, cache, log, rules, cursor, notes, clock, owed, late>>
        BY DEF Fetch, history
    <2> QED BY <1>1, <2>1, <2>2, TableFacts DEF TypeInv, DataOK, Grown, Actives, Active
<1> HIDE DEF r
<1>6. /\ UNCHANGED <<notificationMu, rules, log>>
      /\ thread["refresh"].pc \notin Holding
      /\ thread["recover"].pc \in Holding <=> thread'["recover"].pc \in Holding
    <2>1. thread'["recover"] = IF kind = "job" THEN Rest ELSE thread["recover"]
        BY DEF Fetch
    <2> QED BY <1>4, <2>1, RestType DEF Fetch, Resting, Holding
<1>7. LockOK'
    BY <1>2, <1>3, <1>6 DEF TypeInv, LockOK, Holding, Goroutines
<1>8. \A g \in Goroutines : ThreadOK(g)'
    BY <1>2, <1>3, <1>6, RestType, TableFacts DEF TypeInv, ThreadOK, Goroutines
<1> QED BY <1>3, <1>5, <1>7, <1>8 DEF TypeInv

\* The refresh that has recorded the given transitions.
Recorded(t, ids) == [t EXCEPT !.pc = IF t.kind = "opening" THEN "baseline" ELSE "rules",
                              !.events = ids]

LEMMA RecordedType ==
    ASSUME NEW t \in Threads, NEW ids \in SUBSET Nat
    PROVE  /\ Recorded(t, ids) \in Threads /\ Recorded(t, ids).pc \in {"baseline", "rules"}
           /\ Recorded(t, ids).events = ids /\ Recorded(t, ids).rule = t.rule
           /\ Recorded(t, ids).pile = t.pile
<1>1. PICK pc \in {"baseline", "rules"} : Recorded(t, ids) = [t EXCEPT !.pc = pc, !.events = ids]
    BY DEF Recorded
<1> QED BY <1>1 DEF Threads, Steps

\* What a refresh finds changed extends the log with typed events.
LEMMA RecordType ==
    ASSUME TypeInv, Record
    PROVE  /\ log' \in Seq(Events) /\ Len(log) <= Len(log') /\ DOMAIN log \subseteq DOMAIN log'
           /\ \A e \in DOMAIN log : log'[e] = log[e]
           /\ \E ids \in SUBSET (DOMAIN log') : Step("refresh", Recorded(thread["refresh"], ids))
<1> DEFINE t == thread["refresh"]
           Old(p) == IF LastEvent(p) = 0 THEN "none" ELSE log[LastEvent(p)].to
           At(p) == IF LastEvent(p) = 0 THEN t.pile.at
                    ELSE Max({t.pile.at, log[LastEvent(p)].at})
           changed == {p \in Ports : t.pile.ports[p] # Old(p)
                                     /\ (t.kind = "manual" => Actives # {})}
           E(p) == [port |-> p, from |-> Old(p), to |-> t.pile.ports[p], at |-> At(p)]
           new == [n \in 1..Cardinality(changed) |-> E(SetToSeq(changed)[n])]
<1>1. log' = log \o new
      /\ Step("refresh", Recorded(t, Len(log) + 1 .. Len(log) + Len(new)))
    BY DEF Record, Recorded
<1>2. t \in Threads /\ t.pile \in Piles
    BY DEF TypeInv, Goroutines, Threads
<1>3. log \in Seq(Events) /\ Len(log) \in Nat /\ DOMAIN log = 1..Len(log)
      /\ \A e \in DOMAIN log : log[e] \in Events
    BY TableFacts DEF TypeInv, DataOK
<1>4. ASSUME NEW p \in Ports PROVE LastEvent(p) = 0 \/ LastEvent(p) \in DOMAIN log
    <2> DEFINE S == {e \in DOMAIN log : log[e].port = p} \cup {0}
    <2>1. S \in SUBSET (0..Len(log)) /\ S # {} BY <1>3
    <2>2. Max(S) \in S BY <1>3, <2>1, MaxType
    <2> QED BY <2>2 DEF LastEvent
<1>5. ASSUME NEW p \in Ports PROVE E(p) \in Events
    <2>1. Old(p) \in Status \cup {"none"}
        BY <1>3, <1>4 DEF Events
    <2>2. At(p) \in 0..MaxClock
        <3>1. CASE LastEvent(p) = 0
            BY <1>2, <3>1 DEF Piles
        <3>2. CASE LastEvent(p) \in DOMAIN log
            <4> DEFINE S == {t.pile.at, log[LastEvent(p)].at}
            <4>1. S \in SUBSET (0..MaxClock) /\ S # {}
                BY <1>2, <1>3, <3>2 DEF Piles, Events
            <4>2. Max(S) \in S
                BY <4>1, MaxType, AvailabilityAssumption
            <4>3. LastEvent(p) # 0 BY <1>3, <3>2
            <4> QED BY <4>1, <4>2, <4>3
        <3> QED BY <1>4, <3>1, <3>2
    <2>3. t.pile.ports[p] \in Status BY <1>2 DEF Piles
    <2> HIDE DEF Old, At, t
    <2> QED BY <2>1, <2>2, <2>3 DEF Events
<1> HIDE DEF E, t
<1>6. changed \subseteq Ports /\ IsFiniteSet(changed)
    BY FS_Subset, AvailabilityAssumption
<1> HIDE DEF changed
<1>7. new \in Seq(Events)
    <2>1. /\ Cardinality(changed) \in Nat
          /\ SetToSeq(changed) \in [1..Cardinality(changed) -> changed]
        BY <1>6, OrderOf
    <2>2. \A n \in 1..Cardinality(changed) : E(SetToSeq(changed)[n]) \in Events
        BY <1>5, <1>6, <2>1
    <2>3. new \in [1..Cardinality(changed) -> Events]
        BY <2>2
    <2> QED BY <2>1, <2>3, IsASeq
<1> HIDE DEF new
<1>8. /\ log' \in Seq(Events) /\ Len(log') = Len(log) + Len(new) /\ Len(new) \in Nat
      /\ \A e \in 1..Len(log) : log'[e] = log[e]
    BY <1>1, <1>3, <1>7, ConcatProperties, LenProperties
<1>9. DOMAIN log' = 1..Len(log') BY <1>8, LenProperties
<1>10. Len(log) + 1 .. Len(log) + Len(new) \in SUBSET (DOMAIN log')
    BY <1>3, <1>8, <1>9
<1> QED BY <1>1, <1>3, <1>8, <1>9, <1>10 DEF t

LEMMA TypeRecord ==
    ASSUME TypeInv, Record
    PROVE  TypeInv'
<1> DEFINE t == thread["refresh"]
<1>1. PICK ids \in SUBSET (DOMAIN log') :
            Step("refresh", Recorded(t, ids))
    BY RecordType
<1>2. t \in Threads /\ t.rule <= Len(rules) /\ t.pc = "record"
    BY DEF TypeInv, Goroutines, ThreadOK, Record
<1>3. DataOK' /\ Grown
    <2>1. /\ UNCHANGED <<world, store, cache, rules, cursor, notes, opening, clock, late>>
          /\ owed' \in {0, ActiveRule, owed}
        BY DEF Record
    <2>2. ActiveRule \in 0..Len(rules)
        BY TableFacts DEF TypeInv, ActiveRule, Actives
    <2>3. /\ log' \in Seq(Events) /\ Len(log) <= Len(log') /\ DOMAIN log \subseteq DOMAIN log'
          /\ Len(log) \in Nat /\ Len(log') \in Nat
        BY RecordType, TableFacts, LenProperties DEF TypeInv
    <2>4. owed' \in 0..Len(rules) /\ cursor'.event <= Len(log')
        BY <2>1, <2>2, <2>3 DEF TypeInv, DataOK
    <2>5. \A n \in notes' : n \in Notes /\ n.rule \in DOMAIN rules' /\ n.event <= Len(log')
        BY <2>1, <2>3 DEF TypeInv, DataOK, Notes
    <2>6. \A i, j \in Actives' : i = j
        BY <2>1 DEF TypeInv, DataOK, Actives, Active
    <2>7. Len(rules) \in Nat BY TableFacts DEF TypeInv
    <2> QED BY <2>1, <2>3, <2>4, <2>5, <2>6, <2>7 DEF TypeInv, DataOK, Grown
<1> DEFINE r == Recorded(t, ids)
<1>4. DOMAIN log' = 1..Len(log') /\ Len(log') \in Nat
    BY <1>3, LenProperties DEF DataOK
<1>5. r \in Threads /\ r.pc \in {"baseline", "rules"} /\ r.events = ids /\ r.rule = t.rule
    BY <1>2, <1>4, RecordedType
<1>6. UNCHANGED <<notificationMu, rules>> BY DEF Record
<1>7. Step("refresh", r) BY <1>1
<1> HIDE DEF r
<1> QED BY <1>2, <1>3, <1>5, <1>6, <1>7, ThreadSet DEF Goroutines, Holding

LEMMA TypeBaseline ==
    ASSUME TypeInv, Baseline
    PROVE  TypeInv'
<1> DEFINE t == thread["refresh"]
           e == Max(t.events \cup {0})
<1>1. t.events \in SUBSET (DOMAIN log) /\ HasIdle(t.pile) \in BOOLEAN
    BY DEF TypeInv, Goroutines, ThreadOK, HasIdle
<1>2. cursor' = Cursor(HasIdle(t.pile), e)
      /\ UNCHANGED <<world, store, cache, log, rules, notes, clock, owed, late, notificationMu>>
      /\ opening' = [opening EXCEPT !.pc = IF HasIdle(t.pile) THEN "idle" ELSE "waiting"]
      /\ Step("refresh", Rest) /\ t.pc = "baseline"
    BY DEF Baseline, history
<1>3. cursor' \in [known: BOOLEAN, idle: BOOLEAN, event: Nat] /\ cursor'.event <= Len(log)
    BY <1>1, <1>2, CursorType DEF TypeInv
<1>4. opening' \in [pc: {"none", "created", "entered", "fetching", "idle", "waiting"}, rule: Nat]
      /\ opening'.rule = opening.rule
    BY <1>2 DEF TypeInv, DataOK
<1>5. DataOK' /\ Grown
    BY <1>2, <1>3, <1>4, TableFacts DEF TypeInv, DataOK, Grown, Actives, Active
<1>6. Len(rules) \in Nat BY TableFacts DEF TypeInv
<1> QED BY <1>2, <1>5, <1>6, RestType, ThreadSet DEF Goroutines, Holding

LEMMA TypeReadRules ==
    ASSUME TypeInv, NEW g \in Goroutines, ReadRules(g)
    PROVE  TypeInv'
<1>1. DataOK' /\ Grown
    BY TablesKept DEF ReadRules, TypeInv, DataOK, tables, history
<1>2. thread[g].pc = "rules" /\ UNCHANGED <<notificationMu, log, rules>> BY DEF ReadRules
<1>3. thread[g] \in Threads /\ thread[g].events \subseteq DOMAIN log /\ Len(rules) \in Nat
    BY TableFacts DEF TypeInv, ThreadOK
<1>4. CASE Actives # {} /\ Covers(ActiveRule, thread[g].pile)
    <2> DEFINE r == [thread[g] EXCEPT !.pc = "decide", !.rule = ActiveRule]
    <2>1. ActiveRule \in DOMAIN rules BY <1>4 DEF ActiveRule, Actives
    <2>2. ActiveRule \in Nat /\ ActiveRule <= Len(rules) BY <2>1, TableFacts DEF TypeInv
    <2>3. r \in Threads /\ r.pc = "decide" /\ r.rule = ActiveRule /\ r.events = thread[g].events
        BY <1>3, <2>2 DEF Threads, Steps
    <2>4. Step(g, r) BY <1>4 DEF ReadRules
    <2> HIDE DEF r
    <2> QED BY <1>1, <1>2, <1>3, <2>1, <2>2, <2>3, <2>4, ThreadSet DEF Holding
<1>5. CASE ~(Actives # {} /\ Covers(ActiveRule, thread[g].pile))
    <2>1. Leave(g) BY <1>5 DEF ReadRules
    <2> QED BY <1>1, <1>2, <1>3, <2>1, LeaveType, ThreadSet DEF Holding
<1> QED BY <1>4, <1>5

\* A notification that is stored is about the reminder the goroutine works for.
LEMMA StoredType ==
    ASSUME DataOK, NEW i \in DOMAIN rules, NEW event \in 0..Len(log),
           NEW key \in {"rule", "event"} \X Nat, NEW at \in 0..MaxClock
    PROVE  \A n \in Stored(i, event, key, at) :
                n \in Notes /\ n.rule \in DOMAIN rules /\ n.event <= Len(log)
BY TableFacts DEF Stored, DataOK, Notes

LEMMA EligibleType ==
    ASSUME DataOK, NEW i \in DOMAIN rules, NEW events \in SUBSET (DOMAIN log),
           Eligible(i, events) # {}
    PROVE  /\ Min(Eligible(i, events)) \in events
           /\ Min(Eligible(i, events)) \in 1..Len(log)
           /\ rules[i].created <= log[Min(Eligible(i, events))].at
           /\ log[Min(Eligible(i, events))].at \in 0..MaxClock
<1>1. Eligible(i, events) \in SUBSET Nat BY TableFacts DEF Eligible
<1>2. Min(Eligible(i, events)) \in Eligible(i, events) BY <1>1, MinType
<1> QED BY <1>2, TableFacts DEF Eligible, Events

\* The two notifications, and what a decision comes to otherwise.
LEMMA Decisions ==
    ASSUME TypeInv, NEW g \in Goroutines, Decide(g)
    PROVE  \/ \E event \in 0..Len(log), key \in {"rule", "event"} \X Nat, at \in 0..MaxClock :
                /\ Notify(g, event, key, at)
                /\ notificationMu = "free" /\ notificationMu' = g
                /\ \/ key[1] = "rule" /\ at = thread[g].pile.at
                   \/ key[1] = "event" /\ event \in DOMAIN log /\ at = log[event].at
                        /\ rules[thread[g].rule].created <= at
           \/ Goto(g, "save") /\ notificationMu = "free" /\ notificationMu' = g
                /\ UNCHANGED <<notes, late, owed>>
           \/ Leave(g) /\ UNCHANGED <<notes, late, owed, notificationMu>>
<1> DEFINE t == thread[g]
           events == Eligible(t.rule, t.events)
           latest == Max(t.events \cup {0})
<1>1. /\ t.rule \in DOMAIN rules /\ t.rule \in Nat /\ t.events \in SUBSET (DOMAIN log)
      /\ t.pile.at \in 0..MaxClock
    BY TableFacts DEF TypeInv, ThreadOK, Threads, Piles, Decide
<1>2. latest \in 0..Len(log) BY <1>1, CursorType DEF TypeInv
<1>3. events # {} => /\ Min(events) \in 0..Len(log) /\ Min(events) \in Nat /\ Min(events) \in DOMAIN log
                     /\ log[Min(events)].at \in 0..MaxClock
                     /\ rules[t.rule].created <= log[Min(events)].at
    BY <1>1, EligibleType, TableFacts DEF TypeInv
<1>4. CASE Notify(g, latest, <<"rule", t.rule>>, t.pile.at) /\ notificationMu' = g
    <2>1. <<"rule", t.rule>> \in {"rule", "event"} \X Nat /\ <<"rule", t.rule>>[1] = "rule"
        BY <1>1
    <2>2. notificationMu = "free" BY DEF Decide
    <2> QED BY <1>1, <1>2, <1>4, <2>1, <2>2
<1>5. CASE /\ events # {} /\ notificationMu' = g
           /\ Notify(g, Min(events), <<"event", Min(events)>>, log[Min(events)].at)
    <2>1. <<"event", Min(events)>> \in {"rule", "event"} \X Nat /\ <<"event", Min(events)>>[1] = "event"
        BY <1>3, <1>5
    <2>2. notificationMu = "free" BY DEF Decide
    <2> QED BY <1>3, <1>5, <2>1, <2>2
<1>6. CASE Goto(g, "save") /\ notificationMu' = g /\ UNCHANGED <<notes, late, owed>>
    BY <1>6 DEF Decide
<1>7. CASE Leave(g) /\ UNCHANGED <<notes, late, owed, notificationMu>>
    BY <1>7
<1> HIDE DEF events, latest, t
<1> QED BY <1>4, <1>5, <1>6, <1>7 DEF Decide, events, latest, t

LEMMA TypeDecide ==
    ASSUME TypeInv, NEW g \in Goroutines, Decide(g)
    PROVE  TypeInv'
<1>0. /\ UNCHANGED <<world, store, cache, log, rules, cursor, opening, clock>>
      /\ thread[g] \in Threads /\ thread[g].pc = "decide"
      /\ thread[g].rule \in DOMAIN rules /\ thread[g].events \subseteq DOMAIN log
      /\ thread[g].rule <= Len(rules)
      /\ Len(rules) \in Nat
    BY TableFacts DEF Decide, TypeInv, ThreadOK
<1>1. ASSUME NEW event \in 0..Len(log), NEW key \in {"rule", "event"} \X Nat,
             NEW at \in 0..MaxClock, Notify(g, event, key, at),
             notificationMu = "free", notificationMu' = g
      PROVE  TypeInv'
    <2> DEFINE i == thread[g].rule
    <2>1. /\ notes' = Stored(i, event, key, at)
          /\ late' \subseteq late \cup {i} /\ owed' \in {0, owed}
        BY <1>1 DEF Notify
    <2>2. \A n \in notes' : n \in Notes /\ n.rule \in DOMAIN rules /\ n.event <= Len(log)
        BY <1>0, <1>1, <2>1, StoredType DEF TypeInv
    <2>3. DataOK' /\ Grown
        BY <1>0, <2>1, <2>2 DEF TypeInv, DataOK, Grown, Actives, Active
    <2>4. Goto(g, "complete") /\ "complete" \in Steps
        BY <1>1 DEF Notify, Steps
    <2>5. PICK r \in Threads : /\ Step(g, r) /\ r.pc = "complete"
                              /\ r.rule = i /\ r.events = thread[g].events
        BY <1>0, <2>4, GotoMoves
    <2> QED BY <1>0, <1>1, <2>3, <2>4, <2>5, ThreadSet DEF Holding
<1>2. ASSUME UNCHANGED <<notes, late, owed>>
      PROVE  DataOK' /\ Grown
    BY <1>0, <1>2, TablesKept DEF TypeInv, DataOK, tables
<1>3. CASE Goto(g, "save") /\ notificationMu = "free" /\ notificationMu' = g
             /\ UNCHANGED <<notes, late, owed>>
    <2>1. Goto(g, "save") /\ "save" \in Steps
        BY <1>3 DEF Steps
    <2>2. PICK r \in Threads : /\ Step(g, r) /\ r.pc = "save"
                              /\ r.rule = thread[g].rule /\ r.events = thread[g].events
        BY <1>0, <2>1, GotoMoves
    <2> QED BY <1>0, <1>2, <1>3, <2>1, <2>2, ThreadSet DEF Holding
<1>4. CASE Leave(g) /\ UNCHANGED <<notes, late, owed, notificationMu>>
    BY <1>0, <1>2, <1>4, LeaveType, ThreadSet DEF Holding
<1> QED BY <1>1, <1>3, <1>4, Decisions

LEMMA TypeComplete ==
    ASSUME TypeInv, NEW g \in Goroutines, Complete(g)
    PROVE  TypeInv'
<1>0. /\ UNCHANGED <<world, store, cache, log, cursor, notes, opening, clock, late, notificationMu>>
      /\ thread[g] \in Threads /\ thread[g].pc = "complete"
      /\ thread[g].rule \in DOMAIN rules /\ thread[g].events \subseteq DOMAIN log
      /\ thread[g].rule <= Len(rules)
    BY DEF Complete, TypeInv, ThreadOK
<1>1. RulesKept /\ owed' \in {0, owed}
    <2>1. CASE Active(thread[g].rule)
        BY <2>1, EndKeeps DEF Complete, TypeInv
    <2>2. CASE ~Active(thread[g].rule)
        BY <2>2, TableFacts DEF Complete, TypeInv, DataOK, RulesKept
    <2> QED BY <2>1, <2>2
<1>2. DataOK' /\ Grown
    BY <1>0, <1>1, RulesEnded DEF TypeInv, DataOK
<1>3. Goto(g, "save") /\ "save" \in Steps
    BY DEF Complete, Steps
<1>4. PICK r \in Threads : /\ Step(g, r) /\ r.pc = "save"
                          /\ r.rule = thread[g].rule /\ r.events = thread[g].events
    BY <1>0, <1>3, GotoMoves
<1> QED BY <1>0, <1>1, <1>2, <1>3, <1>4, ThreadSet DEF Holding, RulesKept

LEMMA TypeSaveCursor ==
    ASSUME TypeInv, NEW g \in Goroutines, SaveCursor(g)
    PROVE  TypeInv'
<1> DEFINE t == thread[g]
           e == Max(t.events \cup {0})
<1>1. t.events \in SUBSET (DOMAIN log) /\ HasIdle(t.pile) \in BOOLEAN
    BY DEF TypeInv, ThreadOK, HasIdle
<1>2. cursor' = Cursor(HasIdle(t.pile), e)
      /\ UNCHANGED <<world, store, cache, log, rules, notes, opening, clock, owed, late>>
      /\ notificationMu' = "free" /\ Leave(g) /\ t.pc = "save"
    BY DEF SaveCursor, Finish, history
<1>3. cursor' \in [known: BOOLEAN, idle: BOOLEAN, event: Nat] /\ cursor'.event <= Len(log)
    BY <1>1, <1>2, CursorType DEF TypeInv
<1>4. DataOK' /\ Grown
    BY <1>2, <1>3, TableFacts DEF TypeInv, DataOK, Grown, Actives, Active
<1>5. Len(rules) \in Nat BY TableFacts DEF TypeInv
<1> QED BY <1>2, <1>4, <1>5, LeaveType, ThreadSet DEF Holding

LEMMA RecoverKeeps ==
    ASSUME DataOK, Recover
    PROVE  RulesKept /\ \A i \in DOMAIN rules :
                rules'[i].state = rules[i].state
                  \/ (Active(i) /\ Told(i) /\ rules'[i].state = "notified")
<1> DEFINE Q(i) == [rules[i] EXCEPT !.state = "notified"]
<1>1. ASSUME NEW i \in DOMAIN rules
      PROVE  Q(i) \in Rules /\ Q(i).created = rules[i].created /\ Q(i).state = "notified"
    BY TableFacts DEF Rules
<1>2. rules' = [i \in DOMAIN rules |-> IF Active(i) /\ Told(i) THEN Q(i) ELSE rules[i]]
    BY DEF Recover
<1> HIDE DEF Q
<1>3. rules' \in Seq(Rules) /\ Len(rules') = Len(rules) /\ DOMAIN rules' = DOMAIN rules
    <2>1. rules' \in [1..Len(rules) -> Rules]
        BY <1>1, <1>2, TableFacts
    <2> QED BY <2>1, TableFacts, IsASeq, LenProperties
<1> QED BY <1>1, <1>2, <1>3 DEF RulesKept

LEMMA TypeRecovery ==
    ASSUME TypeInv, Recover \/ FindEvents \/ TakeSnapshot \/ Reconcile
    PROVE  TypeInv'
<1> DEFINE t == thread["recover"]
<1>0. /\ t \in Threads /\ t.events \subseteq DOMAIN log /\ t.rule <= Len(rules)
      /\ Len(rules) \in Nat /\ DOMAIN log \in SUBSET Nat /\ DataOK
    BY TableFacts DEF TypeInv, Goroutines, ThreadOK
<1>1. CASE Recover
    <2>1. UNCHANGED <<world, store, cache, log, notes, clock, late, cursor, opening, notificationMu>>
          /\ owed' \in {0, owed}
        BY <1>1 DEF Recover
    <2>2. RulesKept BY <1>0, <1>1, RecoverKeeps
    <2>3. DataOK' /\ Grown
        BY <1>0, <2>1, <2>2, RulesEnded DEF DataOK
    <2> DEFINE r == [Rest EXCEPT !.pc = "find"]
    <2>4. r \in Threads /\ r.pc = "find" /\ r.events = {} /\ r.rule = 0 /\ Step("recover", r)
        BY <1>1, RestType, Moving DEF Recover, Steps
    <2>5. t.pc \in {"rest", "ready"} BY <1>1 DEF Recover, Resting
    <2> HIDE DEF r
    <2> QED BY <1>0, <2>1, <2>2, <2>3, <2>4, <2>5, ThreadSet DEF Goroutines, Holding, RulesKept
<1>2. CASE FindEvents
    <2>1. DataOK' /\ Grown
        BY <1>0, <1>2, TablesKept DEF FindEvents, DataOK, tables, history
    <2>2. UNCHANGED <<notificationMu, log, rules>> /\ t.pc = "find" BY <1>2 DEF FindEvents
    <2>3. \E r \in Threads : /\ Step("recover", r) /\ r.pc \in {"reconcile", "snapshot"}
                             /\ r.events \subseteq DOMAIN log /\ r.rule = 0
        <3>1. Unnotified \subseteq DOMAIN log BY DEF Unnotified
        <3> DEFINE e == [Rest EXCEPT !.pc = "reconcile"]
                   f == [Rest EXCEPT !.pc = "snapshot", !.events = Unnotified]
        <3>2. e \in Threads /\ e.pc = "reconcile" /\ e.events = {} /\ e.rule = 0
            BY RestType, Moving DEF Steps
        <3>3. f \in Threads /\ f.pc = "snapshot" /\ f.events = Unnotified /\ f.rule = 0
            BY <1>0, <3>1, RestType DEF Threads, Steps
        <3>4. Step("recover", e) \/ Step("recover", f) BY <1>2 DEF FindEvents
        <3> HIDE DEF e, f
        <3> QED BY <3>1, <3>2, <3>3, <3>4
    <2> QED BY <1>0, <2>1, <2>2, <2>3, ThreadSet DEF Goroutines, Holding
<1>3. CASE TakeSnapshot
    <2>1. DataOK' /\ Grown
        BY <1>0, <1>3, TablesKept DEF TakeSnapshot, DataOK, tables, history
    <2>2. UNCHANGED <<notificationMu, log, rules>> /\ t.pc = "snapshot" BY <1>3 DEF TakeSnapshot
    <2> DEFINE r == [t EXCEPT !.pc = "rules", !.pile = store]
    <2>3. r \in Threads /\ r.pc = "rules" /\ r.events = t.events /\ r.rule = t.rule
        BY <1>0 DEF Threads, Steps, DataOK
    <2>4. Step("recover", r) BY <1>3 DEF TakeSnapshot
    <2> HIDE DEF r
    <2> QED BY <1>0, <2>1, <2>2, <2>3, <2>4, ThreadSet DEF Goroutines, Holding
<1>4. CASE Reconcile
    <2>1. UNCHANGED <<world, store, cache, log, rules, notes, opening, clock, late, owed, notificationMu>>
          /\ cursor' \in {cursor, Unknown} /\ t.pc \in {"reconcile", "drop"}
        BY <1>4 DEF Reconcile, history
    <2>2. RulesKept BY <1>0, <2>1, TableFacts DEF RulesKept, DataOK
    <2>3. DataOK' /\ Grown
        BY <1>0, <2>1, <2>2, RulesEnded DEF DataOK
    <2>4. \E r \in Threads : /\ Step("recover", r) /\ r.pc \in {"drop", "ready", "rest"}
                             /\ r.events = {} /\ r.rule = 0
        <3> DEFINE e == [Rest EXCEPT !.pc = "drop"]
                   f == [Rest EXCEPT !.pc = "ready"]
        <3>1. e \in Threads /\ e.pc = "drop" /\ e.events = {} /\ e.rule = 0
            BY RestType, Moving DEF Steps
        <3>2. f \in Threads /\ f.pc = "ready" /\ f.events = {} /\ f.rule = 0
            BY RestType, Moving DEF Steps
        <3>3. Step("recover", e) \/ Step("recover", f) \/ Step("recover", Rest)
            BY <1>4 DEF Reconcile
        <3> HIDE DEF e, f
        <3> QED BY <3>1, <3>2, <3>3, RestType
    <2> QED BY <1>0, <2>1, <2>3, <2>4, ThreadSet DEF Goroutines, Holding
<1> QED BY <1>1, <1>2, <1>3, <1>4

LEMMA TypeReminders ==
    ASSUME TypeInv,
           CreateRule \/ EnterOpening \/ AnswerOpening \/ \E i \in DOMAIN rules : EndRule(i)
    PROVE  TypeInv'
<1>0. DataOK /\ Len(rules) \in Nat BY TableFacts DEF TypeInv
<1>1. CASE CreateRule
    <2> DEFINE new == [created |-> clock, state |-> "active"]
    <2>1. new \in Rules BY <1>0 DEF Rules, DataOK
    <2>2. /\ rules' = Append(rules, new) /\ Actives = {}
          /\ opening' = [pc |-> "created", rule |-> Len(rules) + 1]
          /\ UNCHANGED <<world, store, cache, log, cursor, notes, thread, notificationMu, clock, owed, late>>
        BY <1>1 DEF CreateRule, history
    <2> HIDE DEF new
    <2>3. /\ rules' \in Seq(Rules) /\ Len(rules') = Len(rules) + 1
          /\ DOMAIN rules' = 1..(Len(rules) + 1)
          /\ \A i \in DOMAIN rules : rules'[i] = rules[i]
        BY <1>0, <2>1, <2>2, AppendProperties, LenProperties DEF DataOK
    <2>4. \A i, j \in Actives' : i = j
        <3>1. \A i \in DOMAIN rules : ~Active(i) BY <2>2 DEF Actives
        <3>2. \A i \in DOMAIN rules' : i \in DOMAIN rules \/ i = Len(rules) + 1
            BY <1>0, <2>3, TableFacts
        <3> QED BY <2>3, <3>1, <3>2 DEF Actives, Active
    <2>5. Grown BY <1>0, <2>2, <2>3, TableFacts DEF Grown
    <2>6. DataOK' BY <1>0, <2>2, <2>3, <2>4, <2>5 DEF DataOK, Grown
    <2> QED BY <2>2, <2>5, <2>6, ThreadKept
<1>2. ASSUME RulesKept, UNCHANGED <<world, store, cache, log, notes, clock, late, thread, notificationMu>>,
             owed' \in {0, owed}, cursor' \in {cursor, Unknown},
             opening' \in {opening, NoOpening, [opening EXCEPT !.pc = "entered"]}
      PROVE  TypeInv'
    <2>1. opening' \in [pc: {"none", "created", "entered", "fetching", "idle", "waiting"}, rule: Nat]
          /\ opening'.rule <= Len(rules)
        BY <1>0, <1>2 DEF DataOK, NoOpening
    <2> QED BY <1>0, <1>2, <2>1, RulesEnded, ThreadKept DEF DataOK
<1>3. ASSUME UNCHANGED rules PROVE RulesKept
    BY <1>0, <1>3, TableFacts DEF RulesKept, DataOK
<1>4. CASE EnterOpening
    <2>1. UNCHANGED <<world, store, cache, log, notes, clock, late, thread, notificationMu>>
          /\ opening' \in {opening, NoOpening, [opening EXCEPT !.pc = "entered"]}
          /\ cursor' \in {cursor, Unknown}
        BY <1>4 DEF EnterOpening
    <2>2. \/ UNCHANGED <<rules, owed>> \/ End(opening.rule, "deleted")
        BY <1>4 DEF EnterOpening
    <2>3. RulesKept /\ owed' \in {0, owed} BY <1>0, <1>3, <2>2, EndKeeps
    <2> QED BY <1>2, <2>1, <2>3
<1>5. CASE AnswerOpening
    <2>1. UNCHANGED <<world, store, cache, log, notes, clock, late, thread, notificationMu>>
          /\ opening' \in {opening, NoOpening, [opening EXCEPT !.pc = "entered"]}
          /\ cursor' \in {cursor, Unknown}
        BY <1>5 DEF AnswerOpening
    <2>2. \/ UNCHANGED <<rules, owed>> \/ End(opening.rule, "deleted")
        BY <1>5 DEF AnswerOpening
    <2>3. RulesKept /\ owed' \in {0, owed} BY <1>0, <1>3, <2>2, EndKeeps
    <2> QED BY <1>2, <2>1, <2>3
<1>6. ASSUME NEW i \in DOMAIN rules, EndRule(i) PROVE TypeInv'
    <2>1. UNCHANGED <<world, store, cache, log, notes, clock, late, thread, notificationMu, opening>>
          /\ cursor' \in {cursor, Unknown}
        BY <1>6 DEF EndRule
    <2>2. End(i, "cancelled") \/ End(i, "expired")
        BY <1>6 DEF EndRule
    <2>3. RulesKept /\ owed' \in {0, owed} BY <1>0, <2>2, EndKeeps
    <2> QED BY <1>2, <2>1, <2>3
<1> QED BY <1>1, <1>4, <1>5, <1>6

LEMMA TypeWorld ==
    ASSUME TypeInv, Share \/ (\E p \in Ports, s \in Status : Flip(p, s)) \/ Tick
    PROVE  TypeInv'
<1>1. UNCHANGED <<thread, notificationMu>> /\ UNCHANGED tables /\ UNCHANGED opening
    BY DEF Share, Flip, Tick, tables, history
<1>2. world' \in [Ports -> Status] /\ cache' \in Piles /\ clock' \in 0..MaxClock
    <2>1. CASE Share
        BY <2>1 DEF Share, TypeInv, DataOK, Piles
    <2>2. CASE \E p \in Ports, s \in Status : Flip(p, s)
        BY <2>2 DEF Flip, TypeInv, DataOK
    <2>3. CASE Tick
        BY <2>3, AvailabilityAssumption DEF Tick, TypeInv, DataOK
    <2> QED BY <2>1, <2>2, <2>3
<1>3. DataOK' /\ Grown
    BY <1>1, <1>2, TablesKept DEF TypeInv, DataOK
<1> QED BY <1>1, <1>3, ThreadKept

LEMMA TypeCrash ==
    ASSUME TypeInv, Crash
    PROVE  TypeInv'
<1>1. UNCHANGED tables /\ UNCHANGED <<world, clock, log, rules>>
      /\ cache' = NoPile /\ opening' = NoOpening
      /\ thread' = [g \in Goroutines |-> Rest] /\ notificationMu' = "free"
    BY DEF Crash, tables, history
<1>2. DataOK' /\ Grown
    <2>1. NoOpening \in [pc: {"none", "created", "entered", "fetching", "idle", "waiting"}, rule: Nat]
          /\ NoOpening.rule <= Len(rules)
        BY TableFacts DEF TypeInv, NoOpening
    <2> QED BY <1>1, <2>1, RestType, TablesKept DEF TypeInv, DataOK
<1> QED BY <1>1, <1>2, RestType, TableFacts DEF TypeInv, LockOK, ThreadOK, Goroutines

LEMMA TypeStep == TypeInv /\ [Next]_vars => TypeInv'
<1> SUFFICES ASSUME TypeInv, [Next]_vars PROVE TypeInv' OBVIOUS
<1>1. CASE UNCHANGED vars
    <2>1. UNCHANGED tables /\ UNCHANGED <<world, cache, clock, opening, thread, notificationMu>>
        BY <1>1 DEF vars, tables, history
    <2>2. DataOK' /\ Grown BY <2>1, TablesKept DEF TypeInv, DataOK
    <2> QED BY <2>1, <2>2, ThreadKept
<1>2. ASSUME NEW g \in Goroutines, Process(g) PROVE TypeInv'
    BY <1>2, TypeReadRules, TypeDecide, TypeComplete, TypeSaveCursor DEF Process
<1> QED BY <1>1, <1>2, TypeFetch, TypeRecord, TypeBaseline, TypeRecovery, TypeReminders, TypeWorld,
           TypeCrash DEF Next

LEMMA TypeAlways == Spec => []TypeInv
BY TypeInit, TypeStep, PTL DEF Spec

\* Every variable of the component stays in its range, there is at most one
\* active reminder, and notificationMu is held by the one goroutine that is
\* between its decision and its last write.
THEOREM TypeCorrect == Spec => []TypeOK
<1>1. ASSUME TypeInv PROVE TypeOK
    <2>1. Cardinality(Actives) <= 1
        <3>1. CASE Actives = {}
            BY <3>1, FS_EmptySet
        <3>2. ASSUME NEW i \in Actives PROVE Cardinality(Actives) = 1
            <4>1. Actives = {i} BY <1>1, <3>2 DEF TypeInv, DataOK
            <4> QED BY <4>1, FS_Singleton
        <3> QED BY <3>1, <3>2
    <2>2. \A g \in Goroutines : thread[g].rule \in 0..Len(rules) /\ thread[g].pc \in Steps
        BY <1>1, TableFacts DEF TypeInv, ThreadOK, Threads
    <2>3. \A n \in notes : n.rule \in DOMAIN rules /\ n.event \in 0..Len(log) /\ n.at \in 0..MaxClock
        BY <1>1, TableFacts DEF TypeInv, DataOK, Notes
    <2>4. cursor \in [known: BOOLEAN, idle: BOOLEAN, event: 0..Len(log)]
        BY <1>1, TableFacts DEF TypeInv, DataOK
    <2>5. opening.pc \in {"none", "created", "entered", "fetching", "idle", "waiting"}
          /\ opening.rule \in 0..Len(rules)
        BY <1>1, TableFacts DEF TypeInv, DataOK
    <2>6. (\A e \in DOMAIN log : log[e] \in Events) /\ (\A i \in DOMAIN rules : rules[i] \in Rules)
        BY <1>1, TableFacts DEF TypeInv
    <2> QED BY <1>1, <2>1, <2>2, <2>3, <2>4, <2>5, <2>6
            DEF TypeOK, TypeInv, DataOK, LockOK, ThreadOK, Piles, Events, Rules, Steps
<1> QED BY <1>1, TypeAlways, PTL

-----------------------------------------------------------------------------
(* What one step does to the log and the reminders *)

\* Recorded transitions and the creation times of reminders never change, and a
\* reminder that ended stays so.
RowsStay ==
    /\ \A e \in DOMAIN log : e \in DOMAIN log' /\ log'[e] = log[e]
    /\ \A i \in DOMAIN rules : /\ i \in DOMAIN rules' /\ rules'[i].created = rules[i].created
                               /\ Active(i)' => Active(i)

LEMMA RowsStayAlways ==
    ASSUME TypeInv, [Next]_vars
    PROVE  RowsStay
<1>0. DataOK BY DEF TypeInv
<1>1. CASE UNCHANGED <<log, rules>>
    BY <1>1 DEF RowsStay, Active
<1>2. CASE UNCHANGED log /\ RulesKept
    BY <1>2 DEF RowsStay, RulesKept, Active
<1>3. CASE Record
    <2>1. /\ \A e \in DOMAIN log : e \in DOMAIN log' /\ log'[e] = log[e]
        BY <1>3, RecordType
    <2>2. UNCHANGED rules BY <1>3 DEF Record
    <2> QED BY <2>1, <2>2 DEF RowsStay, Active
<1>4. CASE CreateRule
    <2> DEFINE new == [created |-> clock, state |-> "active"]
    <2>1. new \in Rules BY <1>0 DEF Rules, DataOK
    <2>2. rules' = Append(rules, new) /\ UNCHANGED log BY <1>4 DEF CreateRule
    <2> HIDE DEF new
    <2>3. \A i \in DOMAIN rules : i \in DOMAIN rules' /\ rules'[i] = rules[i]
        BY <1>0, <2>1, <2>2, AppendProperties, TableFacts DEF DataOK
    <2> QED BY <2>2, <2>3 DEF RowsStay, Active
<1>5. CASE Recover
    <2>1. UNCHANGED log BY <1>5 DEF Recover
    <2> QED BY <1>0, <1>2, <1>5, <2>1, RecoverKeeps
<1>6. CASE EnterOpening \/ AnswerOpening
    <2>1. UNCHANGED log /\ (UNCHANGED rules \/ End(opening.rule, "deleted"))
        BY <1>6 DEF EnterOpening, AnswerOpening
    <2> QED BY <1>0, <1>1, <1>2, <2>1, EndKeeps
<1>7. ASSUME NEW i \in DOMAIN rules, EndRule(i) PROVE RowsStay
    <2>1. UNCHANGED log /\ (End(i, "cancelled") \/ End(i, "expired")) BY <1>7 DEF EndRule
    <2> QED BY <1>0, <1>2, <2>1, EndKeeps
<1>8. ASSUME NEW g \in Goroutines, Process(g) PROVE RowsStay
    <2>1. CASE Complete(g)
        <3>1. UNCHANGED log /\ (UNCHANGED rules \/ End(thread[g].rule, "notified"))
            BY <2>1 DEF Complete
        <3> QED BY <1>0, <1>1, <1>2, <3>1, EndKeeps
    <2>2. CASE ~Complete(g)
        BY <1>1, <1>8, <2>2 DEF Process, ReadRules, Decide, SaveCursor
    <2> QED BY <2>1, <2>2
<1>9. CASE \/ \E kind \in {"job", "manual", "opening"} : Fetch(kind)
           \/ Share \/ Baseline \/ FindEvents \/ TakeSnapshot \/ Reconcile
           \/ \E p \in Ports, s \in Status : Flip(p, s)
           \/ Tick \/ Crash \/ UNCHANGED vars
    BY <1>1, <1>9 DEF Fetch, Share, Baseline, FindEvents, TakeSnapshot, Reconcile, Flip, Tick, Crash, vars
<1> QED BY <1>3, <1>4, <1>5, <1>6, <1>7, <1>8, <1>9 DEF Next

\* Notifications only come from a decision: one about the reminder of the
\* goroutine that decides, unless one with the same key or event is there.
LEMMA NotesGrow ==
    ASSUME TypeInv, [Next]_vars
    PROVE  \/ UNCHANGED <<notes, late>>
           \/ \E g \in Goroutines : Decide(g)
BY DEF Next, Process, Fetch, Share, Record, Baseline, ReadRules, Complete, SaveCursor, Recover,
       FindEvents, TakeSnapshot, Reconcile, CreateRule, EnterOpening, AnswerOpening, EndRule,
       Flip, Tick, Crash, history, vars

\* Where the goroutines go: one reaches "decide" only from the reading of the
\* reminders, "complete" only from a decision, and stays there with its
\* reminder and its pile until it moves on.
LEMMA ThreadMoves ==
    ASSUME TypeInv, [Next]_vars, NEW g \in Goroutines
    PROVE  \/ thread'[g] = thread[g]
           \/ thread'[g].pc \notin {"decide", "complete", "save"} /\ (thread[g].pc # "complete" \/ Crash)
           \/ /\ ReadRules(g) /\ thread'[g].pc = "decide" /\ Actives # {}
              /\ Covers(ActiveRule, thread[g].pile)
              /\ thread'[g].rule = ActiveRule /\ thread'[g].pile = thread[g].pile
           \/ /\ Decide(g) /\ thread[g].pc = "decide" /\ thread'[g].pc \in {"complete", "save"}
              /\ thread'[g].rule = thread[g].rule /\ thread'[g].pile = thread[g].pile
           \/ /\ Complete(g) /\ thread[g].pc = "complete" /\ thread'[g].pc = "save"
              /\ thread'[g].rule = thread[g].rule /\ thread'[g].pile = thread[g].pile
<1> DEFINE t == thread[g]
<1>0. /\ thread \in [Goroutines -> Threads] /\ t \in Threads
      /\ Goroutines = {"refresh", "recover"}
    BY DEF TypeInv, Goroutines
<1>1. ASSUME NEW h \in Goroutines, NEW r, Step(h, r)
      PROVE  thread'[h] = r /\ \A k \in Goroutines \ {h} : thread'[k] = thread[k]
    BY <1>0, <1>1 DEF Step
<1>2. ASSUME NEW h \in Goroutines, NEW r, Step(h, r), thread[h].pc # "complete",
             r.pc \notin {"decide", "complete", "save"}
      PROVE  \/ thread'[g] = thread[g]
             \/ thread'[g].pc \notin {"decide", "complete", "save"} /\ thread[g].pc # "complete"
    BY <1>1, <1>2
<1>3. ASSUME NEW pc \in Steps \ {"decide", "complete", "save"}
      PROVE  [Rest EXCEPT !.pc = pc].pc \notin {"decide", "complete", "save"}
    BY RestType, Moving
<1>4. ASSUME NEW h \in Goroutines, thread[h].pc # "complete", Leave(h)
      PROVE  \/ thread'[g] = thread[g]
             \/ thread'[g].pc \notin {"decide", "complete", "save"} /\ thread[g].pc # "complete"
    BY <1>2, <1>4, LeaveType
<1>5. CASE UNCHANGED thread
    BY <1>5
<1>6. ASSUME NEW kind \in {"job", "manual", "opening"}, Fetch(kind)
      PROVE  \/ thread'[g] = thread[g]
             \/ thread'[g].pc \notin {"decide", "complete", "save"} /\ thread[g].pc # "complete"
    <2> DEFINE r == [Rest EXCEPT !.pc = "record", !.kind = kind, !.pile = store']
    <2>1. r.pc = "record" BY RestType DEF Threads
    <2> HIDE DEF r
    <2>2. thread' = [refresh |-> r, recover |-> IF kind = "job" THEN Rest ELSE thread["recover"]]
        BY <1>6 DEF Fetch, r
    <2>3. /\ thread["refresh"].pc \in {"rest", "ready"}
          /\ kind = "job" => thread["recover"].pc = "ready"
        BY <1>6 DEF Fetch, Resting
    <2>4. thread'["refresh"] = r /\ thread'["recover"] = IF kind = "job" THEN Rest ELSE thread["recover"]
        BY <2>2
    <2> QED BY <1>0, <2>1, <2>3, <2>4, RestType
<1>7. CASE Record
    <2>1. PICK ids \in SUBSET (DOMAIN log') : Step("refresh", Recorded(thread["refresh"], ids))
        BY <1>7, RecordType
    <2>2. TypeInv' BY <1>7, TypeRecord
    <2>3. DOMAIN log' \in SUBSET Nat
        <3>1. DataOK' BY <2>2 DEF TypeInv
        <3> QED BY <3>1, LenProperties DEF DataOK
    <2>4. Recorded(thread["refresh"], ids).pc \in {"baseline", "rules"}
        BY <1>0, <2>1, <2>3, RecordedType
    <2>5. thread["refresh"].pc = "record" BY <1>7 DEF Record
    <2> QED BY <1>0, <1>2, <2>1, <2>4, <2>5
<1>8. CASE Baseline
    <2>1. Step("refresh", Rest) /\ thread["refresh"].pc = "baseline" BY <1>8 DEF Baseline
    <2> QED BY <1>0, <1>2, <2>1, RestType
<1>9. CASE Recover \/ FindEvents \/ TakeSnapshot \/ Reconcile
    <2>1. thread["recover"].pc \in {"rest", "ready", "find", "snapshot", "reconcile", "drop"}
        BY <1>9 DEF Recover, FindEvents, TakeSnapshot, Reconcile, Resting
    <2>2. thread["recover"] \in Threads BY <1>0
    <2> DEFINE f == [Rest EXCEPT !.pc = "snapshot", !.events = Unnotified]
               s == [thread["recover"] EXCEPT !.pc = "rules", !.pile = store]
    <2>3. f.pc = "snapshot" /\ s.pc = "rules" BY <2>2, RestType DEF Threads
    <2>4. \/ \E pc \in {"find", "reconcile", "drop", "ready"} : Step("recover", [Rest EXCEPT !.pc = pc])
          \/ Step("recover", Rest) \/ Step("recover", f) \/ Step("recover", s)
        BY <1>9 DEF Recover, FindEvents, TakeSnapshot, Reconcile
    <2> HIDE DEF f, s
    <2>5. \A pc \in {"find", "reconcile", "drop", "ready"} : [Rest EXCEPT !.pc = pc].pc = pc
        BY RestType, Moving DEF Steps
    <2> QED BY <1>0, <1>2, <2>1, <2>3, <2>4, <2>5, RestType
<1>10. ASSUME NEW h \in Goroutines, ReadRules(h), h # g \/ ~(Actives # {} /\ Covers(ActiveRule, thread[h].pile))
       PROVE  \/ thread'[g] = thread[g]
              \/ thread'[g].pc \notin {"decide", "complete", "save"} /\ thread[g].pc # "complete"
    <2>1. CASE Leave(h)
        BY <1>4, <1>10, <2>1 DEF ReadRules
    <2>2. CASE h # g /\ Step(h, [thread[h] EXCEPT !.pc = "decide", !.rule = ActiveRule])
        BY <1>1, <2>2
    <2> QED BY <1>10, <2>1, <2>2 DEF ReadRules
<1>11. CASE ReadRules(g) /\ Actives # {} /\ Covers(ActiveRule, thread[g].pile)
    <2> DEFINE r == [t EXCEPT !.pc = "decide", !.rule = ActiveRule]
    <2>1. ActiveRule \in Nat BY <1>11, TableFacts DEF ActiveRule, Actives, TypeInv
    <2>2. r.pc = "decide" /\ r.rule = ActiveRule /\ r.pile = t.pile BY <1>0, <2>1 DEF Threads
    <2>3. Step(g, r) BY <1>11 DEF ReadRules
    <2> HIDE DEF r
    <2> QED BY <1>1, <1>11, <2>2, <2>3
<1>12. ASSUME NEW h \in Goroutines, NEW pc \in Steps, Goto(h, pc)
       PROVE  /\ thread'[h].pc = pc /\ thread'[h].rule = thread[h].rule
              /\ thread'[h].pile = thread[h].pile
              /\ \A k \in Goroutines \ {h} : thread'[k] = thread[k]
    <2> DEFINE r == [thread[h] EXCEPT !.pc = pc]
    <2>1. r.pc = pc /\ r.rule = thread[h].rule /\ r.pile = thread[h].pile
        BY <1>0, Moving
    <2>2. Step(h, r) BY <1>12 DEF Goto
    <2> HIDE DEF r
    <2> QED BY <1>1, <2>1, <2>2
<1>13. ASSUME NEW h \in Goroutines, Decide(h)
       PROVE  \/ thread'[g] = thread[g]
              \/ thread'[g].pc \notin {"decide", "complete", "save"} /\ thread[g].pc # "complete"
              \/ /\ Decide(g) /\ thread[g].pc = "decide" /\ thread'[g].pc \in {"complete", "save"}
                 /\ thread'[g].rule = thread[g].rule /\ thread'[g].pile = thread[g].pile
    <2>1. thread[h].pc = "decide" BY <1>13 DEF Decide
    <2>2. Goto(h, "complete") \/ Goto(h, "save") \/ Leave(h) BY <1>13, Decisions DEF Notify
    <2>3. CASE Leave(h) BY <1>4, <2>1, <2>3
    <2>4. CASE Goto(h, "complete") \/ Goto(h, "save")
        <3>1. /\ thread'[h].pc \in {"complete", "save"} /\ thread'[h].rule = thread[h].rule
              /\ thread'[h].pile = thread[h].pile
              /\ \A k \in Goroutines \ {h} : thread'[k] = thread[k]
            BY <1>12, <2>4 DEF Steps
        <3> QED BY <1>13, <2>1, <3>1
    <2> QED BY <2>2, <2>3, <2>4
<1>14. ASSUME NEW h \in Goroutines, Complete(h)
       PROVE  \/ thread'[g] = thread[g]
              \/ /\ Complete(g) /\ thread[g].pc = "complete" /\ thread'[g].pc = "save"
                 /\ thread'[g].rule = thread[g].rule /\ thread'[g].pile = thread[g].pile
    <2>1. thread[h].pc = "complete" /\ Goto(h, "save") BY <1>14 DEF Complete
    <2>2. /\ thread'[h].pc = "save" /\ thread'[h].rule = thread[h].rule
          /\ thread'[h].pile = thread[h].pile
          /\ \A k \in Goroutines \ {h} : thread'[k] = thread[k]
        BY <1>12, <2>1 DEF Steps
    <2> QED BY <1>14, <2>1, <2>2
<1>15. ASSUME NEW h \in Goroutines, SaveCursor(h)
       PROVE  \/ thread'[g] = thread[g]
              \/ thread'[g].pc \notin {"decide", "complete", "save"} /\ thread[g].pc # "complete"
    BY <1>4, <1>15 DEF SaveCursor, Finish
<1>16. CASE Crash
    BY <1>16, RestType DEF Crash
<1>17. CASE Share \/ CreateRule \/ EnterOpening \/ AnswerOpening
            \/ (\E i \in DOMAIN rules : EndRule(i)) \/ (\E p \in Ports, s \in Status : Flip(p, s))
            \/ Tick \/ UNCHANGED vars
    BY <1>5, <1>17 DEF Share, CreateRule, EnterOpening, AnswerOpening, EndRule, Flip, Tick, vars
<1>18. ASSUME NEW h \in Goroutines, Process(h)
       PROVE  \/ ReadRules(g) /\ Actives # {} /\ Covers(ActiveRule, thread[g].pile)
              \/ thread'[g] = thread[g]
              \/ thread'[g].pc \notin {"decide", "complete", "save"} /\ thread[g].pc # "complete"
              \/ /\ Decide(g) /\ thread[g].pc = "decide" /\ thread'[g].pc \in {"complete", "save"}
                 /\ thread'[g].rule = thread[g].rule /\ thread'[g].pile = thread[g].pile
              \/ /\ Complete(g) /\ thread[g].pc = "complete" /\ thread'[g].pc = "save"
                 /\ thread'[g].rule = thread[g].rule /\ thread'[g].pile = thread[g].pile
    BY <1>10, <1>13, <1>14, <1>15, <1>18 DEF Process
<1> HIDE DEF t
<1> QED BY <1>6, <1>7, <1>8, <1>9, <1>11, <1>16, <1>17, <1>18 DEF Next

\* A decision either leaves the notifications alone, or moves on to close the
\* reminder, having stored one about it or found one.
Told1(g, n) ==
    /\ n \in Notes /\ n.rule = thread[g].rule
    /\ \/ n.key[1] = "rule" /\ n.at = thread[g].pile.at
       \/ n.key[1] = "event" /\ n.event \in DOMAIN log /\ n.at = log[n.event].at
            /\ rules[n.rule].created <= n.at

LEMMA DecisionNotes ==
    ASSUME TypeInv, NEW g \in Goroutines, Decide(g)
    PROVE  \/ UNCHANGED <<notes, late>> /\ thread'[g].pc # "complete"
           \/ /\ notificationMu = "free"
              /\ late' = IF Active(thread[g].rule) THEN late ELSE late \cup {thread[g].rule}
              /\ thread'[g].pc = "complete" /\ thread'[g].rule = thread[g].rule
              /\ \/ notes' = notes /\ notes # {}
                 \/ \E n \in Notes : notes' = notes \cup {n} /\ Told1(g, n)
<1>0. /\ thread[g] \in Threads /\ thread \in [Goroutines -> Threads] /\ thread[g].rule \in Nat
    BY DEF TypeInv, Threads
<1>1. ASSUME NEW event \in 0..Len(log), NEW key \in {"rule", "event"} \X Nat,
             NEW at \in 0..MaxClock, Notify(g, event, key, at), notificationMu = "free",
             \/ key[1] = "rule" /\ at = thread[g].pile.at
             \/ key[1] = "event" /\ event \in DOMAIN log /\ at = log[event].at
                  /\ rules[thread[g].rule].created <= at
      PROVE  /\ late' = IF Active(thread[g].rule) THEN late ELSE late \cup {thread[g].rule}
             /\ thread'[g].pc = "complete" /\ thread'[g].rule = thread[g].rule
             /\ \/ notes' = notes /\ notes # {}
                \/ \E n \in Notes : notes' = notes \cup {n} /\ Told1(g, n)
    <2> DEFINE n == [rule |-> thread[g].rule, event |-> event, key |-> key, at |-> at]
               r == [thread[g] EXCEPT !.pc = "complete"]
    <2>1. Step(g, r) BY <1>1 DEF Notify, Goto
    <2>2. r.pc = "complete" /\ r.rule = thread[g].rule BY <1>0, Moving DEF Steps
    <2>3. /\ n \in Notes /\ n.rule = thread[g].rule /\ n.key = key /\ n.event = event /\ n.at = at
        BY <1>0, TableFacts DEF Notes, TypeInv
    <2>4. \/ notes' = notes /\ notes # {}
          \/ notes' = notes \cup {n}
        BY <1>1 DEF Notify, Stored
    <2>5. late' = IF Active(thread[g].rule) THEN late ELSE late \cup {thread[g].rule}
        BY <1>1 DEF Notify
    <2> HIDE DEF n, r
    <2>6. thread'[g].pc = "complete" /\ thread'[g].rule = thread[g].rule
        BY <1>0, <2>1, <2>2 DEF Step
    <2>7. Told1(g, n) BY <1>1, <2>3 DEF Told1
    <2> QED BY <2>3, <2>4, <2>5, <2>6, <2>7
<1>2. ASSUME Goto(g, "save") PROVE thread'[g].pc # "complete"
    <2> DEFINE r == [thread[g] EXCEPT !.pc = "save"]
    <2>1. Step(g, r) BY <1>2 DEF Goto
    <2>2. r.pc = "save" BY <1>0, Moving DEF Steps
    <2> HIDE DEF r
    <2> QED BY <1>0, <2>1, <2>2 DEF Step
<1>3. ASSUME Leave(g) PROVE thread'[g].pc # "complete"
    BY <1>0, <1>3, LeaveType DEF Step
<1> QED BY <1>1, <1>2, <1>3, Decisions

\* Notifications and the marks on late ones are kept.
LEMMA NotesKept ==
    ASSUME TypeInv, [Next]_vars
    PROVE  notes \subseteq notes' /\ late \subseteq late'
BY NotesGrow, DecisionNotes

-----------------------------------------------------------------------------
(* Notifications are about what happened after their reminder *)

\* Reminders are created one after the other.
RulesInOrder ==
    /\ \A i \in DOMAIN rules : rules[i].created <= clock
    /\ \A i, j \in DOMAIN rules : i <= j => rules[i].created <= rules[j].created

CoversPile(g) ==
    thread[g].pc \in {"decide", "complete", "save"}
        => rules[thread[g].rule].created <= thread[g].pile.at

\* The first reminder is only closed, or about to be, when something was stored.
FirstHasNote ==
    /\ rules # <<>> /\ rules[1].state = "notified" => notes # {}
    /\ \A g \in Goroutines : thread[g].pc = "complete" => notes # {}

EventsKnown == \A n \in notes : n.key[1] = "event" => n.event \in DOMAIN log

FreshInv == /\ RulesInOrder /\ NoticeIsFresh /\ EventsKnown /\ FirstHasNote
            /\ \A g \in Goroutines : CoversPile(g)

LEMMA FreshInit == Init => FreshInv
BY DEF Init, FreshInv, RulesInOrder, NoticeIsFresh, EventsKnown, FirstHasNote, CoversPile, Rest

\* Reminders are only added by CreateRule, and time only goes on.
LEMMA RulesAdded ==
    ASSUME TypeInv, [Next]_vars
    PROVE  clock' >= clock /\ (CreateRule \/ DOMAIN rules' = DOMAIN rules)
<1>0. DataOK /\ clock \in Nat BY DEF TypeInv, DataOK
<1>1. clock' >= clock
    <2>1. UNCHANGED clock \/ Tick
        BY DEF Next, Process, Fetch, Share, Record, Baseline, ReadRules, Decide, Complete, SaveCursor,
               Recover, FindEvents, TakeSnapshot, Reconcile, CreateRule, EnterOpening, AnswerOpening,
               EndRule, Flip, Crash, vars
    <2> QED BY <1>0, <2>1 DEF Tick
<1>2. CreateRule \/ DOMAIN rules' = DOMAIN rules
    <2>1. ASSUME NEW i, NEW why, End(i, why) PROVE DOMAIN rules' = DOMAIN rules
        BY <2>1 DEF End
    <2>2. ASSUME NEW g \in Goroutines, Process(g) PROVE DOMAIN rules' = DOMAIN rules
        BY <2>1, <2>2 DEF Process, ReadRules, Decide, Complete, SaveCursor
    <2>3. ASSUME NEW i, EndRule(i) PROVE DOMAIN rules' = DOMAIN rules
        BY <2>1, <2>3 DEF EndRule
    <2>4. CASE Recover
        BY <2>4 DEF Recover
    <2>5. CASE EnterOpening \/ AnswerOpening
        BY <2>1, <2>5 DEF EnterOpening, AnswerOpening
    <2>6. CASE \/ \E kind \in {"job", "manual", "opening"} : Fetch(kind)
               \/ Share \/ Record \/ Baseline \/ FindEvents \/ TakeSnapshot \/ Reconcile
               \/ \E p \in Ports, s \in Status : Flip(p, s)
               \/ Tick \/ Crash \/ UNCHANGED vars
        BY <2>6 DEF Fetch, Share, Record, Baseline, FindEvents, TakeSnapshot, Reconcile, Flip, Tick, Crash, vars
    <2> QED BY <2>2, <2>3, <2>4, <2>5, <2>6 DEF Next
<1> QED BY <1>1, <1>2

LEMMA OrderKept ==
    ASSUME TypeInv, RulesInOrder, [Next]_vars
    PROVE  RulesInOrder'
<1>0. /\ RowsStay /\ clock' >= clock /\ TypeInv' /\ (CreateRule \/ DOMAIN rules' = DOMAIN rules)
    BY RowsStayAlways, RulesAdded, TypeStep
<1>1. /\ clock \in Nat /\ clock' \in Nat
      /\ \A i \in DOMAIN rules : rules[i].created \in Nat
      /\ \A i \in DOMAIN rules' : rules'[i].created \in Nat
    <2>1. \A i \in DOMAIN rules : rules[i] \in Rules BY TableFacts DEF TypeInv
    <2>2. \A i \in DOMAIN rules' : rules'[i] \in Rules
        BY <1>0, LenProperties, ElementOfSeq DEF TypeInv, DataOK
    <2>3. clock \in Nat /\ clock' \in Nat
        BY <1>0, AvailabilityAssumption DEF TypeInv, DataOK
    <2> QED BY <2>1, <2>2, <2>3, AvailabilityAssumption DEF Rules
<1>2. CASE DOMAIN rules' = DOMAIN rules
    <2>1. \A i \in DOMAIN rules' : rules'[i].created = rules[i].created /\ i \in DOMAIN rules
        BY <1>0, <1>2 DEF RowsStay
    <2> QED BY <1>0, <1>1, <2>1 DEF RulesInOrder
<1>3. CASE CreateRule
    <2> DEFINE new == [created |-> clock, state |-> "active"]
    <2>1. new \in Rules /\ new.created = clock BY DEF Rules, TypeInv, DataOK
    <2>2. rules' = Append(rules, new) /\ UNCHANGED clock BY <1>3 DEF CreateRule
    <2> HIDE DEF new
    <2>3. /\ rules'[Len(rules) + 1] = new /\ DOMAIN rules = 1..Len(rules) /\ Len(rules) \in Nat
          /\ DOMAIN rules' = 1..(Len(rules) + 1)
          /\ \A i \in DOMAIN rules : rules'[i] = rules[i]
        BY <2>1, <2>2, AppendProperties, LenProperties, TableFacts DEF TypeInv, DataOK
    <2>4. \A i \in DOMAIN rules' : i \in DOMAIN rules \/ i = Len(rules) + 1
        BY <2>3
    <2>5. \A i \in DOMAIN rules' : rules'[i].created <= clock
        BY <1>1, <2>1, <2>3, <2>4 DEF RulesInOrder
    <2>6. ASSUME NEW i \in DOMAIN rules', NEW j \in DOMAIN rules', i <= j
          PROVE  rules'[i].created <= rules'[j].created
        <3>1. CASE j = Len(rules) + 1
            BY <2>1, <2>3, <2>5, <3>1
        <3>2. CASE j \in DOMAIN rules
            <4>1. i \in DOMAIN rules BY <2>3, <2>6, <3>2
            <4> QED BY <2>3, <2>6, <3>2, <4>1 DEF RulesInOrder
        <3> QED BY <2>4, <3>1, <3>2
    <2> QED BY <2>2, <2>5, <2>6 DEF RulesInOrder
<1> QED BY <1>0, <1>2, <1>3

LEMMA CoversKept ==
    ASSUME TypeInv, FreshInv, [Next]_vars, NEW g \in Goroutines
    PROVE  CoversPile(g)'
<1>0. RowsStay /\ (thread[g].pc \in {"decide", "complete", "save"} => thread[g].rule \in DOMAIN rules)
    BY RowsStayAlways DEF TypeInv, ThreadOK
<1>1. CASE /\ thread'[g].pc \in {"decide", "complete", "save"} => thread[g].pc \in {"decide", "complete", "save"}
           /\ thread'[g].pc \in {"decide", "complete", "save"} =>
                thread'[g].rule = thread[g].rule /\ thread'[g].pile = thread[g].pile
    BY <1>0, <1>1 DEF FreshInv, CoversPile, RowsStay
<1>2. CASE /\ thread'[g].pc = "decide" /\ Actives # {} /\ Covers(ActiveRule, thread[g].pile)
           /\ thread'[g].rule = ActiveRule /\ thread'[g].pile = thread[g].pile
    <2>1. ActiveRule \in DOMAIN rules BY <1>2 DEF ActiveRule, Actives
    <2> QED BY <1>0, <1>2, <2>1 DEF CoversPile, Covers, RowsStay
<1> QED BY <1>1, <1>2, ThreadMoves

LEMMA FreshKept ==
    ASSUME TypeInv, FreshInv, [Next]_vars
    PROVE  NoticeIsFresh' /\ EventsKnown'
<1>0. RowsStay /\ \A n \in notes : n.rule \in DOMAIN rules
    BY RowsStayAlways DEF TypeInv, DataOK
<1>1. \A n \in notes : /\ rules'[n.rule].created <= n.at
                       /\ n.key[1] = "event" => /\ n.event \in DOMAIN log'
                                                /\ log'[n.event].at >= rules'[n.rule].created
    BY <1>0 DEF FreshInv, NoticeIsFresh, EventsKnown, RowsStay
<1>2. CASE UNCHANGED notes
    BY <1>1, <1>2 DEF NoticeIsFresh, EventsKnown
<1>3. ASSUME NEW g \in Goroutines, Decide(g), NEW n \in Notes, notes' = notes \cup {n}, Told1(g, n)
      PROVE  NoticeIsFresh' /\ EventsKnown'
    <2>1. /\ thread[g].rule \in DOMAIN rules /\ rules[thread[g].rule].created <= thread[g].pile.at
          /\ n.rule = thread[g].rule
        BY <1>3 DEF Decide, TypeInv, ThreadOK, FreshInv, CoversPile, Told1
    <2>2. rules[n.rule].created \in Nat /\ n.at \in Nat
        BY <2>1, TableFacts DEF TypeInv, Rules, Notes
    <2>3. rules[n.rule].created <= n.at BY <1>3, <2>1 DEF Told1
    <2>4. n.key[1] = "event" => n.event \in DOMAIN log /\ log[n.event].at = n.at
        BY <1>3 DEF Told1
    <2>5. /\ rules'[n.rule].created <= n.at
          /\ n.key[1] = "event" => /\ n.event \in DOMAIN log'
                                   /\ log'[n.event].at >= rules'[n.rule].created
        BY <1>0, <2>1, <2>2, <2>3, <2>4 DEF RowsStay
    <2> QED BY <1>1, <1>3, <2>5 DEF NoticeIsFresh, EventsKnown
<1> QED BY <1>2, <1>3, NotesGrow, DecisionNotes

\* Where a reminder turns "notified".
LEMMA NotifiedFrom ==
    ASSUME TypeInv, [Next]_vars, NEW i \in DOMAIN rules, rules'[i].state = "notified"
    PROVE  \/ rules[i].state = "notified"
           \/ Told(i)
           \/ \E g \in Goroutines : thread[g].pc = "complete" /\ thread[g].rule = i
<1>0. DataOK BY DEF TypeInv
<1>1. ASSUME NEW j, NEW why \in {"notified", "expired", "cancelled", "deleted"}, End(j, why)
      PROVE  rules[i].state = "notified" \/ (j = i /\ why = "notified")
    BY <1>0, <1>1, EndKeeps
<1>2. ASSUME NEW g \in Goroutines, Process(g)
      PROVE  rules[i].state = "notified" \/ (thread[g].pc = "complete" /\ thread[g].rule = i)
    <2>1. UNCHANGED rules \/ (thread[g].pc = "complete" /\ End(thread[g].rule, "notified"))
        BY <1>2 DEF Process, ReadRules, Decide, Complete, SaveCursor
    <2> QED BY <1>1, <2>1
<1>3. ASSUME NEW j, EndRule(j) PROVE rules[i].state = "notified"
    BY <1>1, <1>3 DEF EndRule
<1>4. CASE Recover
    BY <1>0, <1>4, RecoverKeeps
<1>5. CASE EnterOpening \/ AnswerOpening
    BY <1>1, <1>5 DEF EnterOpening, AnswerOpening
<1>6. CASE CreateRule
    <2> DEFINE new == [created |-> clock, state |-> "active"]
    <2>1. new \in Rules BY <1>0 DEF Rules, DataOK
    <2>2. rules' = Append(rules, new) BY <1>6 DEF CreateRule
    <2> HIDE DEF new
    <2>3. rules'[i] = rules[i]
        BY <1>0, <2>1, <2>2, AppendProperties, TableFacts DEF DataOK
    <2> QED BY <2>3
<1>7. CASE \/ \E kind \in {"job", "manual", "opening"} : Fetch(kind)
           \/ Share \/ Record \/ Baseline \/ FindEvents \/ TakeSnapshot \/ Reconcile
           \/ \E p \in Ports, s \in Status : Flip(p, s)
           \/ Tick \/ Crash \/ UNCHANGED vars
    BY <1>7 DEF Fetch, Share, Record, Baseline, FindEvents, TakeSnapshot, Reconcile, Flip, Tick, Crash, vars
<1> QED BY <1>2, <1>3, <1>4, <1>5, <1>6, <1>7 DEF Next

LEMMA FirstKept ==
    ASSUME TypeInv, FreshInv, [Next]_vars
    PROVE  FirstHasNote'
<1>0. notes \subseteq notes' /\ TypeInv' BY NotesKept, TypeStep
<1>1. ASSUME NEW g \in Goroutines, thread'[g].pc = "complete" PROVE notes' # {}
    <2>1. CASE thread[g].pc = "complete"
        BY <1>0, <2>1 DEF FreshInv, FirstHasNote
    <2>2. CASE thread[g].pc # "complete"
        <3>1. Decide(g) BY <1>1, <2>2, ThreadMoves
        <3> QED BY <1>1, <3>1, DecisionNotes
    <2> QED BY <2>1, <2>2
<1>2. ASSUME rules' # <<>>, rules'[1].state = "notified" PROVE notes' # {}
    <2>1. CASE rules # <<>>
        <3>1. 1 \in DOMAIN rules
            BY <2>1, TableFacts, EmptySeq DEF TypeInv, DataOK
        <3>2. Told(1) => notes # {} BY DEF Told
        <3> QED BY <1>0, <1>2, <2>1, <3>1, <3>2, NotifiedFrom DEF FreshInv, FirstHasNote
    <2>2. CASE rules = <<>>
        <3>1. DOMAIN rules = {} BY <2>2
        <3>2. 1 \in DOMAIN rules'
            BY <1>0, <1>2, LenProperties, EmptySeq DEF TypeInv, DataOK
        <3>3. CreateRule BY <3>1, <3>2, RulesAdded
        <3> DEFINE new == [created |-> clock, state |-> "active"]
        <3>4. rules' = Append(rules, new) /\ new.state = "active" BY <3>3 DEF CreateRule
        <3> HIDE DEF new
        <3>5. rules'[1] = new BY <2>2, <3>4
        <3> QED BY <1>2, <3>4, <3>5
    <2> QED BY <2>1, <2>2
<1> QED BY <1>1, <1>2 DEF FirstHasNote

LEMMA FreshStep == TypeInv /\ FreshInv /\ [Next]_vars => FreshInv'
BY OrderKept, CoversKept, FreshKept, FirstKept DEF FreshInv

LEMMA FreshAlways == Spec => []FreshInv
BY TypeAlways, FreshInit, FreshStep, PTL DEF Spec

\* No notification is about a pile, or a transition, from before its reminder
\* was created, whatever cached dashboard and whatever found events the two
\* goroutines work on.
THEOREM NoticesStayFresh == Spec => []NoticeIsFresh
<1>1. FreshInv => NoticeIsFresh BY DEF FreshInv
<1> QED BY <1>1, FreshAlways, PTL

\* The first reminder is closed as notified only when a notification no older
\* than it is stored, by the goroutine that decided or by the repair after a
\* crash.
THEOREM FirstStaysTold == Spec => []FirstIsTold
<1>1. ASSUME TypeInv, FreshInv PROVE FirstIsTold
    <2> SUFFICES ASSUME rules # <<>>, rules[1].state = "notified" PROVE Told(1)
        BY DEF FirstIsTold
    <2>1. PICK n \in notes : TRUE BY <1>1 DEF FreshInv, FirstHasNote
    <2>2. /\ 1 \in DOMAIN rules /\ n.rule \in DOMAIN rules /\ 1 <= n.rule /\ n.at \in Nat
          /\ rules[1].created \in Nat /\ rules[n.rule].created \in Nat
        <3>1. 1 \in DOMAIN rules /\ DOMAIN rules = 1..Len(rules) /\ Len(rules) \in Nat
            BY <1>1, TableFacts, EmptySeq DEF TypeInv, DataOK
        <3>2. n.rule \in DOMAIN rules /\ n \in Notes BY <1>1 DEF TypeInv, DataOK
        <3> QED BY <1>1, <3>1, <3>2, TableFacts DEF TypeInv, Rules, Notes
    <2>3. rules[1].created <= rules[n.rule].created BY <1>1, <2>2 DEF FreshInv, RulesInOrder
    <2>4. rules[n.rule].created <= n.at BY <1>1 DEF FreshInv, NoticeIsFresh
    <2>5. n.at >= rules[1].created BY <2>2, <2>3, <2>4
    <2> QED BY <2>5 DEF Told
<1> QED BY <1>1, TypeAlways, FreshAlways, PTL

-----------------------------------------------------------------------------
(* At most one notification *)

\* A reminder that notified has ended, or the goroutine that told its user is
\* about to close it and holds notificationMu.
Closing(i) == \E g \in Goroutines : thread[g].pc = "complete" /\ thread[g].rule = i

NotifiedEnds ==
    crashes = 0 => \A n \in notes : n.rule \in late \/ ~Active(n.rule) \/ Closing(n.rule)

OnceInv == crashes \in Nat /\ NotifiedEnds /\ NotifiesOnce

LEMMA OnceInit == Init => OnceInv
BY DEF Init, OnceInv, NotifiedEnds, NotifiesOnce

LEMMA CrashesCounted ==
    ASSUME crashes \in Nat, [Next]_vars
    PROVE  crashes' \in Nat /\ (crashes' = 0 => crashes = 0 /\ ~Crash)
<1>1. Crash \/ UNCHANGED crashes
    BY DEF Next, Process, Fetch, Share, Record, Baseline, ReadRules, Decide, Complete, SaveCursor,
           Recover, FindEvents, TakeSnapshot, Reconcile, CreateRule, EnterOpening, AnswerOpening,
           EndRule, Flip, Tick, vars
<1>2. Crash => crashes' = crashes + 1 BY DEF Crash
<1> QED BY <1>1, <1>2

\* Without a crash, who is about to close a reminder goes on to close it.
LEMMA ClosingEnds ==
    ASSUME TypeInv, crashes \in Nat, [Next]_vars, crashes' = 0,
           NEW i \in DOMAIN rules, Closing(i)
    PROVE  crashes = 0 /\ (Closing(i)' \/ ~Active(i)')
<1>0. crashes = 0 /\ ~Crash BY CrashesCounted
<1>1. PICK g \in Goroutines : thread[g].pc = "complete" /\ thread[g].rule = i
    BY DEF Closing
<1>2. CASE thread'[g] = thread[g]
    BY <1>0, <1>1, <1>2 DEF Closing
<1>3. CASE Complete(g)
    <2>1. CASE Active(i)
        <3>1. End(i, "notified") BY <1>1, <1>3, <2>1 DEF Complete
        <3>2. rules'[i].state = rules[i].state \/ rules'[i].state = "notified"
            BY <3>1, EndKeeps DEF TypeInv
        <3>3. rules[i] \in Rules BY TableFacts DEF TypeInv
        <3>4. rules'[i].state = "notified" BY <3>1, <3>3 DEF End, Rules
        <3> QED BY <1>0, <3>4 DEF Active
    <2>2. CASE ~Active(i)
        <3>1. UNCHANGED rules BY <1>1, <1>3, <2>2 DEF Complete
        <3> QED BY <1>0, <2>2, <3>1 DEF Active
    <2> QED BY <2>1, <2>2
<1>4. ~ReadRules(g) /\ ~Decide(g) BY <1>1 DEF ReadRules, Decide
<1> QED BY <1>0, <1>1, <1>2, <1>3, <1>4, ThreadMoves

LEMMA OnceStep == TypeInv /\ OnceInv /\ [Next]_vars => OnceInv'
<1> SUFFICES ASSUME TypeInv, OnceInv, [Next]_vars, crashes' = 0
             PROVE  /\ \A n \in notes' : n.rule \in late' \/ ~Active(n.rule)' \/ Closing(n.rule)'
                    /\ \A m, n \in notes' : m.rule = n.rule /\ m.rule \notin late' => m = n
    BY CrashesCounted DEF OnceInv, NotifiedEnds, NotifiesOnce
<1>0. crashes = 0 /\ crashes \in Nat
    BY CrashesCounted DEF OnceInv
<1>1. /\ RowsStay /\ late \subseteq late' /\ \A n \in notes : n.rule \in DOMAIN rules
    BY RowsStayAlways, NotesKept DEF TypeInv, DataOK
<1>2. \A n \in notes : n.rule \in late' \/ ~Active(n.rule)' \/ Closing(n.rule)'
    BY <1>0, <1>1, ClosingEnds DEF OnceInv, NotifiedEnds, RowsStay
<1>3. CASE UNCHANGED notes
    BY <1>0, <1>1, <1>2, <1>3 DEF OnceInv, NotifiesOnce
<1>4. ASSUME NEW g \in Goroutines, Decide(g), NEW n \in Notes, notes' = notes \cup {n}, Told1(g, n),
             notificationMu = "free",
             late' = IF Active(thread[g].rule) THEN late ELSE late \cup {thread[g].rule},
             thread'[g].pc = "complete" /\ thread'[g].rule = thread[g].rule
      PROVE  /\ \A k \in notes' : k.rule \in late' \/ ~Active(k.rule)' \/ Closing(k.rule)'
             /\ \A m, k \in notes' : m.rule = k.rule /\ m.rule \notin late' => m = k
    <2>1. n.rule = thread[g].rule BY <1>4 DEF Told1
    <2>2. Closing(n.rule)' BY <1>4, <2>1 DEF Closing
    <2>3. \A i : ~Closing(i) BY <1>4 DEF Closing, TypeInv, LockOK, Goroutines
    <2>4. ASSUME NEW m \in notes, m.rule = n.rule PROVE m.rule \in late'
        <3>1. m.rule \in late \/ ~Active(m.rule)
            BY <1>0, <2>3, <2>4 DEF OnceInv, NotifiedEnds
        <3> QED BY <1>1, <1>4, <2>1, <2>4, <3>1
    <2> QED BY <1>0, <1>1, <1>2, <1>4, <2>2, <2>4 DEF OnceInv, NotifiesOnce
<1> QED BY <1>3, <1>4, NotesGrow, DecisionNotes

\* Until it has ended, and without a crash, a reminder notifies at most once,
\* whichever refreshes and recoveries process the same transition.
THEOREM NotifiesOnceAlways == Spec => []NotifiesOnce
<1>1. Spec => []OnceInv BY TypeAlways, OnceInit, OnceStep, PTL DEF Spec
<1>2. OnceInv => NotifiesOnce BY DEF OnceInv
<1> QED BY <1>1, <1>2, PTL
=============================================================================
