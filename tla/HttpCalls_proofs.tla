-------------------------- MODULE HttpCalls_proofs --------------------------
(***************************************************************************)
(* Lemmas on HttpCalls: how requests are posted, answered, crossed and     *)
(* ended, the locks that are held while one of them waits, and what a page *)
(* knows of the backend then.  The proofs about the pages rest on them.    *)
(***************************************************************************)
EXTENDS HttpCalls, FiniteSetTheorems, TLAPS

-----------------------------------------------------------------------------
(* Calls *)

\* A record of a call.
IsCall(call, fields) ==
    /\ "op" \in DOMAIN call
    /\ call.op # "idle" => "answer" \in DOMAIN call /\ fields \subseteq DOMAIN call

\* A call takes a slot that was idle, and the other calls stay.
LEMMA BegunCalls ==
    ASSUME NEW calls, DOMAIN calls = Slots, Free(calls) # {}, NEW call
    PROVE  /\ DOMAIN Begin(calls, call) = Slots
           /\ NextSlot(calls) \in Slots /\ calls[NextSlot(calls)].op = "idle"
           /\ \A t \in Slots : Begin(calls, call)[t] = IF t = NextSlot(calls) THEN call ELSE calls[t]
<1>1. NextSlot(calls) \in Free(calls)
    BY DEF NextSlot
<1>2. NextSlot(calls) \in Slots /\ calls[NextSlot(calls)].op = "idle"
    BY <1>1 DEF Free, Busy
<1> HIDE DEF NextSlot
<1> QED BY <1>2 DEF Begin

\* The end of a call empties its slot alone.
LEMMA EndedCalls ==
    ASSUME NEW calls, DOMAIN calls = Slots, NEW s \in Slots
    PROVE  /\ DOMAIN End(calls, s) = Slots
           /\ \A t \in Slots : End(calls, s)[t] = IF t = s THEN NoCall ELSE calls[t]
BY DEF End

\* An answer changes nothing of its call but the answer, and nothing of the others.
LEMMA ToldCalls ==
    ASSUME NEW calls, DOMAIN calls = Slots, NEW s \in Slots, NEW answer, NEW after,
           after = [calls EXCEPT ![s].answer = answer]
    PROVE  /\ DOMAIN after = Slots
           /\ \A t \in Slots \ {s} : after[t] = calls[t]
           /\ DOMAIN after[s] = DOMAIN calls[s]
           /\ \A f \in DOMAIN calls[s] \ {"answer"} : after[s][f] = calls[s][f]
           /\ "answer" \in DOMAIN calls[s] => after[s].answer = answer
OBVIOUS

\* Fields of its own first, and the common ones where it has none.
LEMMA WithFields ==
    ASSUME NEW own, NEW common
    PROVE  /\ DOMAIN With(own, common) = DOMAIN own \cup DOMAIN common
           /\ \A f \in DOMAIN own : With(own, common)[f] = own[f]
           /\ \A f \in DOMAIN common \ DOMAIN own : With(own, common)[f] = common[f]
BY DEF With

\* One waits for each of a flag.
LEMMA OneIfFlag ==
    ASSUME NEW S, NEW flag \in BOOLEAN, flag <=> S # {}, \A s, t \in S : s = t
    PROVE  Cardinality(S) = IF flag THEN 1 ELSE 0
<1>1. CASE flag
    <2>1. PICK s : s \in S
        BY <1>1
    <2>2. S = {s}
        BY <2>1
    <2> QED BY <1>1, <2>2, FS_Singleton, Zenon
<1>2. CASE ~flag
    BY <1>2, FS_EmptySet, Zenon
<1> QED BY <1>1, <1>2
\* At most one waits.
LEMMA AtMostOne ==
    ASSUME NEW S, \A s, t \in S : s = t
    PROVE  Cardinality(S) <= 1
<1>1. CASE S = {}
    <2>1. Cardinality(S) = 0
        BY <1>1, FS_EmptySet, Zenon
    <2> QED BY <2>1
<1>2. CASE S # {}
    <2>1. PICK s : s \in S
        BY <1>2
    <2>2. S = {s}
        BY <2>1
    <2>3. Cardinality(S) = 1
        BY <2>2, FS_Singleton, Zenon
    <2> QED BY <2>3
<1> QED BY <1>1, <1>2

\* What a request that is posted leaves: it waits alone or not, and where it is one of the
\* writers, no other of them is alone any more.
IsPosted(calls, call, writers, after) ==
    /\ DOMAIN after = Slots
    /\ \E s \in Slots :
          /\ calls[s].op = "idle"
          /\ DOMAIN after[s] = DOMAIN call \cup {"answer", "alone"}
          /\ \A f \in DOMAIN call : after[s][f] = call[f]
          /\ after[s].answer = Unanswered
          /\ after[s].alone <=> \A t \in Slots : calls[t].op \notin writers
          /\ \A t \in Slots \ {s} :
                /\ DOMAIN after[t] = DOMAIN calls[t]
                /\ \A f \in DOMAIN calls[t] \ {"alone"} : after[t][f] = calls[t][f]
                /\ call.op \notin writers \/ calls[t].op \notin writers => after[t] = calls[t]
                /\ "alone" \in DOMAIN calls[t] /\ call.op \in writers /\ calls[t].op \in writers =>
                      after[t].alone = FALSE

\* A request that is posted is the only new call, and says whether it wrote alone.
LEMMA PostedCalls ==
    ASSUME NEW calls, DOMAIN calls = Slots, Free(calls) # {}, NEW call, NEW writers,
           \A t \in Slots : "op" \in DOMAIN calls[t], {"answer", "alone"} \cap DOMAIN call = {}
    PROVE  IsPosted(calls, call, writers, Post(calls, call, writers))
<1>0. PICK after : after = Post(calls, call, writers)
    OBVIOUS
<1>1. PICK before : before = IF call.op \in writers THEN Crossed(calls, writers) ELSE calls
    OBVIOUS
<1>2. PICK next : next = With([answer |-> Unanswered, alone |-> Waiting(calls, writers) = {}], call)
    OBVIOUS
<1>3. after = Begin(before, next)
    BY <1>0, <1>1, <1>2 DEF Post
<1>4. /\ DOMAIN before = Slots
      /\ \A t \in Slots : /\ DOMAIN before[t] = DOMAIN calls[t]
                          /\ \A f \in DOMAIN calls[t] \ {"alone"} : before[t][f] = calls[t][f]
                          /\ call.op \notin writers \/ calls[t].op \notin writers => before[t] = calls[t]
                          /\ "alone" \in DOMAIN calls[t] /\ call.op \in writers /\ calls[t].op \in writers =>
                                before[t].alone = FALSE
    <2>1. CASE call.op \in writers
        <3>1. before = [t \in Slots |-> IF calls[t].op \in writers THEN [calls[t] EXCEPT !.alone = FALSE]
                                        ELSE calls[t]]
            BY <1>1, <2>1 DEF Crossed
        <3>2. DOMAIN before = Slots
            BY <3>1
        <3>3. ASSUME NEW t \in Slots
              PROVE  /\ DOMAIN before[t] = DOMAIN calls[t]
                     /\ \A f \in DOMAIN calls[t] \ {"alone"} : before[t][f] = calls[t][f]
                     /\ call.op \notin writers \/ calls[t].op \notin writers => before[t] = calls[t]
                     /\ "alone" \in DOMAIN calls[t] /\ call.op \in writers /\ calls[t].op \in writers =>
                           before[t].alone = FALSE
            <4>1. PICK old : old = calls[t]
                OBVIOUS
            <4>2. CASE old.op \in writers
                <5>1. PICK crossed : crossed = [old EXCEPT !.alone = FALSE]
                    OBVIOUS
                <5>2. before[t] = crossed
                    BY <3>1, <4>1, <4>2, <5>1
                <5>3. /\ DOMAIN crossed = DOMAIN old /\ \A f \in DOMAIN old \ {"alone"} : crossed[f] = old[f]
                      /\ "alone" \in DOMAIN old => crossed.alone = FALSE
                    BY <5>1
                <5> QED BY <2>1, <4>1, <4>2, <5>2, <5>3
            <4>3. CASE old.op \notin writers
                <5>1. before[t] = old
                    BY <3>1, <4>1, <4>3
                <5> QED BY <4>1, <4>3, <5>1
            <4> QED BY <4>2, <4>3
        <3> QED BY <3>2, <3>3
    <2>2. CASE call.op \notin writers
        BY <1>1, <2>2
    <2> QED BY <2>1, <2>2
<1>5. \A t \in Slots : before[t].op = calls[t].op
    BY <1>4
<1>6. Free(before) # {}
    BY <1>5 DEF Free, Busy
<1>7. PICK slot : slot = NextSlot(before)
    OBVIOUS
<1>8. /\ DOMAIN after = Slots /\ slot \in Slots /\ before[slot].op = "idle"
      /\ \A t \in Slots : after[t] = IF t = slot THEN next ELSE before[t]
    BY <1>3, <1>4, <1>6, <1>7, BegunCalls
<1>9. PICK own : own = [answer |-> Unanswered, alone |-> Waiting(calls, writers) = {}]
    OBVIOUS
<1>10. DOMAIN own = {"answer", "alone"} /\ own.answer = Unanswered /\ (own.alone <=> Waiting(calls, writers) = {})
    BY <1>9
<1>11. /\ DOMAIN next = DOMAIN own \cup DOMAIN call /\ \A f \in DOMAIN own : next[f] = own[f]
       /\ \A f \in DOMAIN call \ DOMAIN own : next[f] = call[f]
    <2>1. next = With(own, call)
        BY <1>2, <1>9
    <2>2. /\ DOMAIN With(own, call) = DOMAIN own \cup DOMAIN call
          /\ \A f \in DOMAIN own : With(own, call)[f] = own[f]
          /\ \A f \in DOMAIN call \ DOMAIN own : With(own, call)[f] = call[f]
        BY DEF With
    <2> QED BY <2>1, <2>2
<1>12. /\ DOMAIN next = DOMAIN call \cup {"answer", "alone"} /\ next.answer = Unanswered
       /\ next.alone <=> Waiting(calls, writers) = {}
       /\ \A f \in DOMAIN call : next[f] = call[f]
    BY <1>10, <1>11
<1>13. Waiting(calls, writers) = {} <=> \A t \in Slots : calls[t].op \notin writers
    BY DEF Waiting
<1>14. IsPosted(calls, call, writers, after)
    BY <1>4, <1>5, <1>8, <1>12, <1>13 DEF IsPosted
<1> QED BY <1>0, <1>14

-----------------------------------------------------------------------------
(* Locks: each is held while one call of its kind waits *)

Held(S, flag) == (flag <=> S # {}) /\ \A s, t \in S : s = t

\* Where none waits, one may begin.
LEMMA HeldBy ==
    ASSUME NEW S, NEW flag, NEW s, NEW T, NEW raised, Held(S, flag), ~flag, T = S \cup {s}, raised
    PROVE  Held(T, raised)
BY DEF Held

\* The end of the one that waits frees the lock.
LEMMA HeldNoMore ==
    ASSUME NEW S, NEW flag, NEW s, NEW T, NEW lowered, Held(S, flag), s \in S, T = S \ {s}, ~lowered
    PROVE  Held(T, lowered)
BY DEF Held

\* The number of those that wait.
LEMMA HeldOne ==
    ASSUME NEW S, NEW flag, Held(S, flag)
    PROVE  Cardinality(S) = IF flag THEN 1 ELSE 0
<1>1. CASE flag
    <2>1. PICK s : s \in S
        BY <1>1 DEF Held
    <2>2. S = {s}
        BY <2>1 DEF Held
    <2>3. Cardinality(S) = 1
        BY <2>2, FS_Singleton, Zenon
    <2> QED BY <1>1, <2>3
<1>2. CASE ~flag
    <2>1. S = {}
        BY <1>2 DEF Held
    <2>2. Cardinality(S) = 0
        BY <2>1, FS_EmptySet, Zenon
    <2> QED BY <1>2, <2>2
<1> QED BY <1>1, <1>2

-----------------------------------------------------------------------------
(* What a page knows: a load that was alone brought what is stored, and as long as the page is
   sure and no writer waits, it shows that. *)

Shaped(calls, fields) == DOMAIN calls = Slots /\ \A s \in Slots : IsCall(calls[s], fields)

Known(calls, writers, load, value, shown, sure) ==
    /\ \A s, t \in Slots : calls[s].op \in writers /\ calls[t].op \in writers /\ calls[s].alone => s = t
    /\ \A s \in Slots : calls[s].op = load /\ calls[s].alone /\ Succeeds(calls[s]) => calls[s].answer.body = value
    /\ sure => \A s \in Slots : calls[s].op \in writers => ~calls[s].left
    /\ sure /\ (\A s \in Slots : calls[s].op \notin writers) => shown = value

\* A request is posted: of the writers, or of the others, which cross none of them.
LEMMA KnownPosted ==
    ASSUME NEW calls, NEW writers, NEW load, NEW value, NEW shown, NEW sure,
           Known(calls, writers, load, value, shown, sure), Shaped(calls, {"left", "alone"}),
           load \in writers, "idle" \notin writers,
           NEW call, NEW used, NEW after, IsPosted(calls, call, used, after), {"op", "left"} \subseteq DOMAIN call,
           NEW next, NEW seen,
           \/ /\ call.op \in writers /\ used = writers
              /\ next => ~call.left /\ \A s \in Slots : calls[s].op \in writers => ~calls[s].left
           \/ call.op \notin writers /\ used \cap writers = {} /\ (next => sure) /\ seen = shown
           \/ call.op \notin writers \cup used /\ (next => sure) /\ seen = shown
    PROVE  Known(after, writers, load, value, seen, next)
<1>1. PICK slot \in Slots :
          /\ calls[slot].op = "idle"
          /\ DOMAIN after[slot] = DOMAIN call \cup {"answer", "alone"}
          /\ \A f \in DOMAIN call : after[slot][f] = call[f]
          /\ after[slot].answer = Unanswered
          /\ after[slot].alone <=> \A t \in Slots : calls[t].op \notin used
          /\ \A t \in Slots \ {slot} :
                /\ DOMAIN after[t] = DOMAIN calls[t]
                /\ \A f \in DOMAIN calls[t] \ {"alone"} : after[t][f] = calls[t][f]
                /\ call.op \notin used \/ calls[t].op \notin used => after[t] = calls[t]
                /\ "alone" \in DOMAIN calls[t] /\ call.op \in used /\ calls[t].op \in used =>
                      after[t].alone = FALSE
    BY DEF IsPosted
<1>2. after[slot].op = call.op /\ after[slot].left = call.left /\ ~Succeeds(after[slot])
    BY <1>1 DEF Succeeds, Unanswered
<1>3. ASSUME NEW t \in Slots \ {slot}
      PROVE  /\ after[t].op = calls[t].op
             /\ calls[t].op \in writers => after[t].left = calls[t].left /\ after[t].answer = calls[t].answer
             /\ calls[t].op \in writers /\ after[t].alone => after[t] = calls[t]
             /\ call.op \in writers /\ calls[t].op \in writers => ~after[t].alone
    <2>1. /\ "op" \in DOMAIN calls[t]
          /\ calls[t].op # "idle" => {"answer", "left", "alone"} \subseteq DOMAIN calls[t]
        BY DEF Shaped, IsCall
    <2>2. after[t].op = calls[t].op
        BY <1>1, <2>1
    <2>3. CASE calls[t].op \in writers
        <3>1. after[t].left = calls[t].left /\ after[t].answer = calls[t].answer
            BY <1>1, <2>1, <2>3
        <3>2. after[t].alone => after[t] = calls[t]
            BY <1>1, <2>1, <2>3
        <3>3. call.op \in writers => ~after[t].alone
            BY <1>1, <2>1, <2>3
        <3> QED BY <2>2, <3>1, <3>2, <3>3
    <2> QED BY <2>2, <2>3
<1>4. ASSUME NEW s \in Slots, NEW t \in Slots, after[s].op \in writers, after[t].op \in writers, after[s].alone
      PROVE  s = t
    <2>1. CASE s = slot
        <3>1. \A u \in Slots : calls[u].op \notin writers
            BY <1>1, <1>2, <1>4, <2>1
        <3> QED BY <1>3, <1>4, <2>1, <3>1
    <2>2. CASE s # slot
        <3>1. after[s] = calls[s] /\ call.op \notin writers
            BY <1>3, <1>4, <2>2
        <3>2. t # slot
            BY <1>2, <1>4, <3>1
        <3> QED BY <1>3, <1>4, <2>2, <3>1, <3>2 DEF Known
    <2> QED BY <2>1, <2>2
<1>5. ASSUME NEW s \in Slots, after[s].op = load, after[s].alone, Succeeds(after[s])
      PROVE  after[s].answer.body = value
    <2>1. s # slot
        BY <1>2, <1>5
    <2>2. after[s] = calls[s]
        BY <1>3, <1>5, <2>1
    <2> QED BY <1>5, <2>2 DEF Known
<1>6. ASSUME next, NEW s \in Slots, after[s].op \in writers
      PROVE  ~after[s].left
    <2>1. CASE s = slot
        BY <1>2, <1>6, <2>1
    <2>2. CASE s # slot
        BY <1>3, <1>6, <2>2 DEF Known
    <2> QED BY <2>1, <2>2
<1>7. ASSUME next, \A s \in Slots : after[s].op \notin writers
      PROVE  seen = value
    <2>1. call.op \notin writers
        BY <1>2, <1>7
    <2>2. \A s \in Slots : calls[s].op \notin writers
        BY <1>1, <1>3, <1>7
    <2> QED BY <1>7, <2>1, <2>2 DEF Known
<1> QED BY <1>4, <1>5, <1>6, <1>7 DEF Known

\* A request ends: another one, or a writer whose answer is shown or makes the page unsure.
LEMMA KnownEnded ==
    ASSUME NEW calls, NEW writers, NEW load, NEW value, NEW shown, NEW sure,
           Known(calls, writers, load, value, shown, sure), "idle" \notin writers, load \in writers,
           NEW s \in Slots, NEW after, DOMAIN calls = Slots, after = End(calls, s), NEW next, NEW seen,
           \/ ~next
           \/ calls[s].op \notin writers /\ sure /\ seen = shown
           \/ calls[s].op = load /\ calls[s].alone /\ Succeeds(calls[s]) /\ seen = calls[s].answer.body
    PROVE  Known(after, writers, load, value, seen, next)
<1>1. \A t \in Slots : after[t] = IF t = s THEN NoCall ELSE calls[t]
    BY EndedCalls
<1>2. after[s].op = "idle"
    BY <1>1 DEF NoCall
<1>3. \A t \in Slots : after[t].op \in writers => t # s /\ after[t] = calls[t]
    BY <1>1, <1>2
<1>4. ASSUME next, NEW t \in Slots, after[t].op \in writers
      PROVE  ~after[t].left
    BY <1>3, <1>4 DEF Known
<1>5. ASSUME next, \A t \in Slots : after[t].op \notin writers
      PROVE  seen = value
    <2>1. CASE calls[s].op \notin writers /\ sure /\ seen = shown
        <3>1. \A t \in Slots : calls[t].op \notin writers
            BY <1>1, <1>5, <2>1
        <3> QED BY <2>1, <3>1 DEF Known
    <2>2. CASE calls[s].op = load /\ calls[s].alone /\ Succeeds(calls[s]) /\ seen = calls[s].answer.body
        BY <2>2 DEF Known
    <2> QED BY <1>5, <2>1, <2>2
<1> QED BY <1>2, <1>3, <1>4, <1>5 DEF Known

IsTold(calls, s, answer, after) == after = [calls EXCEPT ![s].answer = answer]

\* A request is answered: a load brings what is stored, and only a writer changes that.
LEMMA KnownTold ==
    ASSUME NEW calls, NEW writers, NEW load, NEW value, NEW shown, NEW sure,
           Known(calls, writers, load, value, shown, sure), Shaped(calls, {"left", "alone"}),
           load \in writers, "idle" \notin writers, NEW s \in Slots, calls[s].op # "idle", NEW answer, NEW after,
           IsTold(calls, s, answer, after), NEW then,
           then = value \/ calls[s].op \in writers \ {load},
           calls[s].op = load /\ answer.kind = "ok" => answer.body = then
    PROVE  Known(after, writers, load, then, shown, sure)
<1>1. /\ \A t \in Slots \ {s} : after[t] = calls[t]
      /\ DOMAIN after[s] = DOMAIN calls[s]
      /\ \A f \in DOMAIN calls[s] \ {"answer"} : after[s][f] = calls[s][f]
      /\ "answer" \in DOMAIN calls[s] => after[s].answer = answer
    BY ToldCalls DEF Shaped, IsTold
<1>2. /\ after[s].op = calls[s].op /\ after[s].left = calls[s].left
      /\ after[s].alone = calls[s].alone /\ after[s].answer = answer
    BY <1>1 DEF Shaped, IsCall
<1>3. \A t \in Slots : after[t].op = calls[t].op /\ after[t].left = calls[t].left /\ after[t].alone = calls[t].alone
    BY <1>1, <1>2
<1>4. ASSUME NEW t \in Slots, after[t].op = load, after[t].alone, Succeeds(after[t])
      PROVE  after[t].answer.body = then
    <2>1. CASE t = s
        BY <1>2, <1>4, <2>1 DEF Succeeds
    <2>2. CASE t # s
        <3>1. after[t] = calls[t]
            BY <1>1, <2>2
        <3>2. then = value
            BY <1>3, <1>4, <2>2 DEF Known
        <3> QED BY <1>4, <3>1, <3>2 DEF Known
    <2> QED BY <2>1, <2>2
<1>5. ASSUME sure, \A t \in Slots : after[t].op \notin writers
      PROVE  shown = then
    <2>1. \A t \in Slots : calls[t].op \notin writers
        BY <1>3, <1>5
    <2> QED BY <1>5, <2>1 DEF Known
<1> QED BY <1>3, <1>4, <1>5 DEF Known

\* What is stored changes elsewhere.
LEMMA KnownCrossed ==
    ASSUME NEW calls, NEW writers, NEW load, NEW value, NEW shown, NEW sure,
           Known(calls, writers, load, value, shown, sure), Shaped(calls, {"left", "alone"}),
           load \in writers, "idle" \notin writers, NEW used, NEW after, after = Crossed(calls, used),
           NEW then, NEW next,
           \/ used = writers /\ ~next
           \/ used \cap writers = {} /\ then = value /\ (next => sure)
    PROVE  Known(after, writers, load, then, shown, next)
<1>1. ASSUME NEW t \in Slots
      PROVE  /\ after[t].op = calls[t].op
             /\ calls[t].op \in writers => after[t].left = calls[t].left
             /\ calls[t].op \notin used => after[t] = calls[t]
             /\ calls[t].op \in writers /\ used = writers => ~after[t].alone
    <2>1. PICK call : call = calls[t]
        OBVIOUS
    <2>2. /\ "op" \in DOMAIN call
          /\ call.op # "idle" => {"answer", "left", "alone"} \subseteq DOMAIN call
        BY <2>1 DEF Shaped, IsCall
    <2>3. after[t] = IF call.op \in used THEN [call EXCEPT !.alone = FALSE] ELSE call
        BY <2>1 DEF Crossed
    <2>4. CASE call.op \notin used
        BY <2>1, <2>3, <2>4
    <2>5. CASE call.op \in used
        <3>1. after[t] = [call EXCEPT !.alone = FALSE]
            BY <2>3, <2>5
        <3>2. after[t].op = call.op
            BY <2>2, <3>1
        <3>3. call.op \in writers => after[t].left = call.left /\ ~after[t].alone
            BY <2>2, <3>1
        <3> QED BY <2>1, <2>5, <3>2, <3>3
    <2> QED BY <2>4, <2>5
<1>2. CASE used = writers /\ ~next
    BY <1>1, <1>2 DEF Known
<1>3. CASE used \cap writers = {} /\ then = value /\ (next => sure)
    <2>1. \A t \in Slots : calls[t].op \in writers => after[t] = calls[t]
        BY <1>1, <1>3
    <2>2. \A t \in Slots : after[t].op = calls[t].op
        BY <1>1
    <2> QED BY <1>3, <2>1, <2>2 DEF Known
<1> QED BY <1>2, <1>3

\* A panel is left: its calls change, but not what they are or were answered.
LEMMA KnownLeft ==
    ASSUME NEW calls, NEW writers, NEW load, NEW value, NEW shown, NEW sure,
           Known(calls, writers, load, value, shown, sure), NEW after,
           \A s \in Slots : /\ after[s].op = calls[s].op
                            /\ calls[s].op \in writers \cup {load} =>
                                  after[s].alone = calls[s].alone /\ after[s].answer = calls[s].answer,
           NEW next, NEW seen, ~next
    PROVE  Known(after, writers, load, value, seen, next)
BY DEF Known, Succeeds

-----------------------------------------------------------------------------
(* The shape of the calls through what may happen to them *)

\* A request is posted.
LEMMA ShapedPosted ==
    ASSUME NEW calls, NEW fields, Shaped(calls, fields), Free(calls) # {}, NEW call, NEW writers, NEW after,
           after = Post(calls, call, writers), {"answer", "alone"} \cap DOMAIN call = {}, "op" \in DOMAIN call,
           fields \subseteq DOMAIN call \cup {"alone"}
    PROVE  IsPosted(calls, call, writers, after) /\ Shaped(after, fields)
<1>1. IsPosted(calls, call, writers, after)
    BY PostedCalls DEF Shaped, IsCall
<1>2. PICK slot \in Slots :
          /\ DOMAIN after[slot] = DOMAIN call \cup {"answer", "alone"}
          /\ \A t \in Slots \ {slot} :
                /\ DOMAIN after[t] = DOMAIN calls[t]
                /\ \A f \in DOMAIN calls[t] \ {"alone"} : after[t][f] = calls[t][f]
    BY <1>1 DEF IsPosted
<1>3. ASSUME NEW t \in Slots
      PROVE  IsCall(after[t], fields)
    <2>1. CASE t = slot
        BY <1>2, <2>1 DEF IsCall
    <2>2. CASE t # slot
        <3>1. IsCall(calls[t], fields)
            BY DEF Shaped
        <3>2. after[t].op = calls[t].op
            BY <1>2, <2>2, <3>1 DEF IsCall
        <3> QED BY <1>2, <2>2, <3>1, <3>2 DEF IsCall
    <2> QED BY <2>1, <2>2
<1>4. DOMAIN after = Slots
    BY <1>1 DEF IsPosted
<1> QED BY <1>1, <1>3, <1>4 DEF Shaped

\* A request ends.
LEMMA ShapedEnded ==
    ASSUME NEW calls, NEW fields, Shaped(calls, fields), NEW s \in Slots, NEW after, after = End(calls, s)
    PROVE  Shaped(after, fields)
<1>1. DOMAIN after = Slots /\ \A t \in Slots : after[t] = IF t = s THEN NoCall ELSE calls[t]
    BY EndedCalls DEF Shaped
<1>2. IsCall(NoCall, fields)
    BY DEF IsCall, NoCall
<1> QED BY <1>1, <1>2 DEF Shaped

\* The slot of a request that ended is free.
LEMMA EndFrees ==
    ASSUME NEW calls, DOMAIN calls = Slots, NEW s \in Slots, NEW after, after = End(calls, s)
    PROVE  Free(after) # {}
<1>1. after[s].op = "idle"
    BY EndedCalls DEF NoCall
<1> QED BY <1>1 DEF Free, Busy

\* A request is answered.
LEMMA ShapedTold ==
    ASSUME NEW calls, NEW fields, Shaped(calls, fields), NEW s \in Slots, NEW answer, NEW after,
           after = [calls EXCEPT ![s].answer = answer]
    PROVE  Shaped(after, fields)
<1>1. /\ DOMAIN after = Slots
      /\ \A t \in Slots \ {s} : after[t] = calls[t]
      /\ DOMAIN after[s] = DOMAIN calls[s]
      /\ \A f \in DOMAIN calls[s] \ {"answer"} : after[s][f] = calls[s][f]
    BY ToldCalls DEF Shaped
<1>2. IsCall(calls[s], fields)
    BY DEF Shaped
<1>3. after[s].op = calls[s].op
    BY <1>1, <1>2 DEF IsCall
<1>4. IsCall(after[s], fields)
    BY <1>1, <1>2, <1>3 DEF IsCall
<1> QED BY <1>1, <1>4 DEF Shaped

\* Requests are crossed by what happens elsewhere.
LEMMA ShapedCrossed ==
    ASSUME NEW calls, NEW fields, Shaped(calls, fields), NEW writers, NEW after, after = Crossed(calls, writers)
    PROVE  /\ Shaped(after, fields)
           /\ \A t \in Slots : /\ DOMAIN after[t] = DOMAIN calls[t]
                                /\ \A f \in DOMAIN calls[t] \ {"alone"} : after[t][f] = calls[t][f]
<1>1. DOMAIN after = Slots
    BY DEF Crossed
<1>2. ASSUME NEW t \in Slots
      PROVE  /\ IsCall(after[t], fields) /\ DOMAIN after[t] = DOMAIN calls[t]
             /\ \A f \in DOMAIN calls[t] \ {"alone"} : after[t][f] = calls[t][f]
    <2>1. PICK call : call = calls[t]
        OBVIOUS
    <2>2. after[t] = IF call.op \in writers THEN [call EXCEPT !.alone = FALSE] ELSE call
        BY <2>1 DEF Crossed
    <2>3. DOMAIN after[t] = DOMAIN call /\ \A f \in DOMAIN call \ {"alone"} : after[t][f] = call[f]
        BY <2>2
    <2>4. IsCall(call, fields)
        BY <2>1 DEF Shaped
    <2>5. after[t].op = call.op
        BY <2>3, <2>4 DEF IsCall
    <2>6. IsCall(after[t], fields)
        BY <2>3, <2>4, <2>5 DEF IsCall
    <2> QED BY <2>1, <2>3, <2>6
<1> QED BY <1>1, <1>2 DEF Shaped

-----------------------------------------------------------------------------
(* Locks of one operation each *)

\* A request that is posted takes the lock of its operation.
LEMMA WaitingPosted ==
    ASSUME NEW calls, NEW fields, Shaped(calls, fields), NEW op, op # "idle", NEW flag, NEW raised,
           Held(Waiting(calls, {op}), flag), NEW call, NEW used, NEW after, IsPosted(calls, call, used, after),
           "op" \in DOMAIN call, IF call.op = op THEN ~flag /\ raised ELSE (raised <=> flag)
    PROVE  Held(Waiting(after, {op}), raised)
<1>1. PICK slot \in Slots :
          /\ calls[slot].op = "idle" /\ after[slot].op = call.op
          /\ \A t \in Slots \ {slot} : after[t].op = calls[t].op
    <2>1. PICK slot \in Slots :
              /\ calls[slot].op = "idle"
              /\ \A f \in DOMAIN call : after[slot][f] = call[f]
              /\ \A t \in Slots \ {slot} : \A f \in DOMAIN calls[t] \ {"alone"} : after[t][f] = calls[t][f]
        BY DEF IsPosted
    <2>2. \A t \in Slots : "op" \in DOMAIN calls[t]
        BY DEF Shaped, IsCall
    <2> QED BY <2>1, <2>2
<1>2. CASE call.op = op
    <2>1. Waiting(after, {op}) = Waiting(calls, {op}) \cup {slot}
        BY <1>1, <1>2 DEF Waiting
    <2>2. PICK T : T = Waiting(after, {op})
        OBVIOUS
    <2>3. PICK S : S = Waiting(calls, {op})
        OBVIOUS
    <2>4. Held(S, flag) /\ ~flag /\ raised /\ T = S \cup {slot}
        BY <1>2, <2>1, <2>2, <2>3
    <2>5. Held(T, raised)
        BY <2>4 DEF Held
    <2> QED BY <2>2, <2>5
<1>3. CASE call.op # op
    <2>1. Waiting(after, {op}) = Waiting(calls, {op})
        BY <1>1, <1>3 DEF Waiting
    <2> QED BY <1>3, <2>1 DEF Held
<1> QED BY <1>2, <1>3

\* A request that ends frees it.
LEMMA WaitingEnded ==
    ASSUME NEW calls, DOMAIN calls = Slots, NEW op, op # "idle", NEW flag, NEW lowered,
           Held(Waiting(calls, {op}), flag), NEW s \in Slots, NEW after, after = End(calls, s),
           IF calls[s].op = op THEN ~lowered ELSE (lowered <=> flag)
    PROVE  Held(Waiting(after, {op}), lowered)
<1>1. \A t \in Slots : after[t] = IF t = s THEN NoCall ELSE calls[t]
    BY EndedCalls
<1>2. Waiting(after, {op}) = Waiting(calls, {op}) \ {s}
    BY <1>1 DEF Waiting, NoCall
<1>3. CASE calls[s].op = op
    <2>1. PICK T : T = Waiting(after, {op})
        OBVIOUS
    <2>2. PICK S : S = Waiting(calls, {op})
        OBVIOUS
    <2>3. s \in S
        BY <1>3, <2>2 DEF Waiting
    <2>4. Held(S, flag) /\ ~lowered /\ T = S \ {s}
        BY <1>2, <1>3, <2>1, <2>2
    <2>5. Held(T, lowered)
        BY <2>3, <2>4 DEF Held
    <2> QED BY <2>1, <2>5
<1>4. CASE calls[s].op # op
    <2>1. Waiting(after, {op}) = Waiting(calls, {op})
        BY <1>2, <1>4 DEF Waiting
    <2> QED BY <1>4, <2>1 DEF Held
<1> QED BY <1>3, <1>4

\* What leaves the operations leaves their locks.
LEMMA WaitingKept ==
    ASSUME NEW calls, NEW op, NEW flag, Held(Waiting(calls, {op}), flag), NEW after,
           \A t \in Slots : after[t].op = op <=> calls[t].op = op
    PROVE  Held(Waiting(after, {op}), flag)
<1>1. Waiting(after, {op}) = Waiting(calls, {op})
    BY DEF Waiting
<1> QED BY <1>1
=============================================================================
