--------------------------- MODULE WatchRefresh_proofs ---------------------------
(***************************************************************************)
(* Background refreshes for any number of users and piles, any quota and   *)
(* any number of events: what a credential check, a shared flight and the  *)
(* day's quota promise holds in every reachable state of WatchRefresh.     *)
(***************************************************************************)
EXTENDS WatchRefresh, FiniteSetTheorems, TLAPS

-----------------------------------------------------------------------------
(* Rows and what they are charged *)

StoredRow == Row \cup {Absent}

LEMMA RowFacts ==
    /\ NewRow \in Row /\ Absent \in StoredRow
    /\ Charged(NewRow) = 0 /\ Charged(Absent) = 0
BY DEF NewRow, Absent, Row, StoredRow, Pauses, Charged

LEMMA ChargedType ==
    ASSUME NEW r \in StoredRow
    PROVE  Charged(r) \in Nat
BY DEF StoredRow, Row, Absent, NewRow, Charged

\* A pause is recorded in a row without touching its charge.
LEMMA PausedFacts ==
    ASSUME NEW r \in StoredRow, NEW reason \in Pauses, NEW due \in BOOLEAN
    PROVE  Paused(r, reason, due) \in Row /\ Charged(Paused(r, reason, due)) = Charged(r)
<1>1. CASE r \in Row
    BY <1>1 DEF Row, Paused, Charged
<1>2. CASE r = Absent
    BY <1>2 DEF Row, Paused, Charged, Absent, NewRow
<1> QED BY <1>1, <1>2 DEF StoredRow

LEMMA DueFacts ==
    ASSUME NEW r \in StoredRow, r # Absent, NEW due \in BOOLEAN
    PROVE  [r EXCEPT !.due = due] \in Row /\ Charged([r EXCEPT !.due = due]) = Charged(r)
BY DEF StoredRow, Row, Charged

\* The reservation of a request adds one charge, and starts the day's count anew.
LEMMA ReservedFacts ==
    ASSUME NEW r \in StoredRow
    PROVE  Reserved(r) \in Row /\ Charged(Reserved(r)) = Charged(r) + 1
<1>1. Charged(r) \in Nat
    BY ChargedType
<1> QED BY <1>1 DEF Reserved, Row, Pauses, Charged

LEMMA OutcomeFacts ==
    ASSUME NEW u, NEW r \in StoredRow, NEW out
    PROVE  Outcome(u, r, out) \in Row /\ Charged(Outcome(u, r, out)) = Charged(r)
BY PausedFacts DEF Outcome, Pauses

\* Preparing a target keeps what was charged to the row it loaded.
LEMMA PreparedFacts ==
    ASSUME NEW u, NEW loaded \in Row
    PROVE  Prepared(u, loaded).row \in Row /\ Charged(Prepared(u, loaded).row) = Charged(loaded)
<1> DEFINE r == IF loaded.fresh THEN loaded ELSE [loaded EXCEPT !.fresh = TRUE, !.used = 0]
<1>1. r \in Row /\ Charged(r) = Charged(loaded)
    BY DEF Row, Charged
<1>2. \A reason \in Pauses, due \in BOOLEAN :
        Paused(r, reason, due) \in Row /\ Charged(Paused(r, reason, due)) = Charged(loaded)
    BY <1>1, PausedFacts DEF StoredRow
<1> HIDE DEF r
<1> DEFINE resumed == IF \/ r.pause \in {"global", "account"}
                         \/ r.pause = "quota" /\ Used(u) < Quota
                      THEN Paused(r, "", TRUE) ELSE r
<1>3. resumed \in Row /\ Charged(resumed) = Charged(loaded)
    BY <1>1, <1>2 DEF Pauses
<1> HIDE DEF resumed
<1> QED BY <1>1, <1>2, <1>3 DEF Prepared, Pauses, r, resumed

-----------------------------------------------------------------------------
(* Sums of charges *)

\* The charges of one pile.
LEMMA OnePile ==
    ASSUME NEW p, NEW n \in Nat
    PROVE  IsFiniteSet({p} \X (1..n)) /\ Cardinality({p} \X (1..n)) = n
<1>1. IsFiniteSet({p}) /\ Cardinality({p}) = 1
    BY FS_Singleton
<1>2. IsFiniteSet(1..n) /\ Cardinality(1..n) = n
    BY FS_Interval
<1>3. /\ IsFiniteSet({p} \X (1..n))
      /\ Cardinality({p} \X (1..n)) = Cardinality({p}) * Cardinality(1..n)
    BY <1>1, <1>2, FS_Product
<1> QED BY <1>1, <1>2, <1>3

LEMMA ChargesFinite ==
    ASSUME NEW rows, NEW piles \in SUBSET Piles, \A p \in Piles : Charged(rows[p]) \in Nat
    PROVE  IsFiniteSet(Charges(rows, piles)) /\ Cardinality(Charges(rows, piles)) \in Nat
<1> DEFINE S == {{p} \X (1..Charged(rows[p])) : p \in piles}
<1>1. IsFiniteSet(piles)
    BY RefreshAssumption, FS_Subset
<1>2. IsFiniteSet(S)
    <2> DEFINE f == [p \in piles |-> {p} \X (1..Charged(rows[p]))]
    <2>1. f \in Surjection(piles, S)
        <3>1. f \in [piles -> S] /\ \A T \in S : \E p \in piles : f[p] = T
            OBVIOUS
        <3> QED BY <3>1 DEF Surjection
    <2> HIDE DEF f, S
    <2> QED BY <1>1, <2>1, FS_Surjection, Zenon
<1>3. \A T \in S : IsFiniteSet(T)
    <2>1. \A p \in piles : IsFiniteSet({p} \X (1..Charged(rows[p])))
        BY OnePile
    <2> QED BY <2>1
<1>4. IsFiniteSet(UNION S)
    BY <1>2, <1>3, FS_UNION
<1> QED BY <1>4, FS_CardinalityType DEF Charges

\* Two disjoint sets of piles are charged separately.
LEMMA ChargesApart ==
    ASSUME NEW rows, \A p \in Piles : Charged(rows[p]) \in Nat,
           NEW some \in SUBSET Piles
    PROVE  Cardinality(Charges(rows, Piles)) =
             Cardinality(Charges(rows, some)) + Cardinality(Charges(rows, Piles \ some))
<1> DEFINE A == Charges(rows, some)
           B == Charges(rows, Piles \ some)
<1>1. /\ IsFiniteSet(A) /\ Cardinality(A) \in Nat
      /\ IsFiniteSet(B) /\ Cardinality(B) \in Nat
    <2>1. Piles \ some \in SUBSET Piles
        OBVIOUS
    <2> QED BY <2>1, ChargesFinite
<1>2. A \cap B = {} /\ Charges(rows, Piles) = A \cup B
    BY DEF Charges
<1> HIDE DEF A, B
<1>3. Cardinality(A \cap B) = 0
    BY <1>2, FS_EmptySet, Zenon
<1>4. Cardinality(A \cup B) = Cardinality(A) + Cardinality(B) - Cardinality(A \cap B)
    BY <1>1, FS_Union
<1>5. Cardinality(Charges(rows, Piles)) = Cardinality(A \cup B)
    BY <1>2, Zenon
<1> QED BY <1>1, <1>3, <1>4, <1>5 DEF A, B

LEMMA SameCharges ==
    ASSUME NEW rows, NEW others, NEW piles, \A p \in piles : Charged(rows[p]) = Charged(others[p])
    PROVE  Charges(rows, piles) = Charges(others, piles)
BY DEF Charges

LEMMA ChargesOne ==
    ASSUME NEW rows, NEW p
    PROVE  Charges(rows, {p}) = {p} \X (1..Charged(rows[p]))
<1> DEFINE T == {p} \X (1..Charged(rows[p]))
<1>1. {{q} \X (1..Charged(rows[q])) : q \in {p}} = {T}
    OBVIOUS
<1> HIDE DEF T
<1>2. UNION {T} = T
    OBVIOUS
<1> QED BY <1>1, <1>2 DEF Charges, T

\* Writing one row moves the sum by the difference of its charges.
LEMMA ChargesWritten ==
    ASSUME NEW rows, NEW written, NEW p \in Piles,
           \A q \in Piles : Charged(rows[q]) \in Nat /\ Charged(written[q]) \in Nat,
           \A q \in Piles \ {p} : Charged(written[q]) = Charged(rows[q])
    PROVE  Cardinality(Charges(written, Piles)) =
             Cardinality(Charges(rows, Piles)) - Charged(rows[p]) + Charged(written[p])
<1>1. {p} \in SUBSET Piles
    OBVIOUS
<1>2. /\ Charges(rows, {p}) = {p} \X (1..Charged(rows[p]))
      /\ Charges(written, {p}) = {p} \X (1..Charged(written[p]))
    BY ChargesOne
<1>3. /\ Cardinality(Charges(rows, {p})) = Charged(rows[p])
      /\ Cardinality(Charges(written, {p})) = Charged(written[p])
    <2>1. /\ Cardinality(Charges(rows, {p})) = Cardinality({p} \X (1..Charged(rows[p])))
          /\ Cardinality(Charges(written, {p})) = Cardinality({p} \X (1..Charged(written[p])))
        BY <1>2, Zenon
    <2> QED BY <2>1, OnePile
<1>4. Cardinality(Charges(written, Piles \ {p})) = Cardinality(Charges(rows, Piles \ {p}))
    <2>1. Charges(written, Piles \ {p}) = Charges(rows, Piles \ {p})
        BY SameCharges
    <2> QED BY <2>1, Zenon
<1>5. /\ Cardinality(Charges(rows, Piles)) =
            Cardinality(Charges(rows, {p})) + Cardinality(Charges(rows, Piles \ {p}))
      /\ Cardinality(Charges(written, Piles)) =
            Cardinality(Charges(written, {p})) + Cardinality(Charges(written, Piles \ {p}))
    BY <1>1, ChargesApart
<1>6. Cardinality(Charges(rows, Piles \ {p})) \in Nat
    BY ChargesFinite
<1> QED BY <1>3, <1>4, <1>5, <1>6

LEMMA UsedType ==
    ASSUME NEW u \in Users, \A p \in Piles : st[u][p] \in StoredRow
    PROVE  Used(u) \in Nat
BY ChargedType, ChargesFinite DEF Used
-----------------------------------------------------------------------------
(* Types, and what the threads of a user hold *)

DataOK ==
    /\ rule \in [Users -> SUBSET Piles]
    /\ st \in [Users -> [Piles -> StoredRow]]
    /\ notice \subseteq Users /\ refreshEnabled \subseteq Users /\ cookieOK \subseteq Users
    /\ remindersOn \in BOOLEAN /\ powerOff \in BOOLEAN
    /\ cache \subseteq Piles
    /\ validated \in [Users -> [Piles -> BOOLEAN]]
    /\ backoff \in [Users -> SUBSET Piles]
    /\ todo \subseteq Users \X Piles
    /\ seen \in [enabled: SUBSET Users, on: BOOLEAN, power: BOOLEAN]
    /\ prep \in [user: Users, pile: Piles, row: Row] \cup {NoTarget}
    /\ left \in [openings: Nat, events: Nat]
    /\ proven \subseteq Users /\ rejected \subseteq Users
    /\ spent \in [Users -> Nat] /\ forgotten \in [Users -> Nat]

State == [pc: {"idle", "enter", "lock", "wait", "fetch", "remote", "merge",
               "apply", "invalidate", "login"},
          kind: {"none", "job", "opening", "login"},
          pile: Piles \cup {"none"},
          key: (Users \cup {Shared, "none"}) \X (Piles \cup {"none"}),
          copy: StoredRow, out: Outs, old: BOOLEAN]

\* A thread that is under way works for its own kind on a pile, and only an HTTP
\* handler opens a reminder or changes a cookie.
KindOK(t) ==
    /\ thread[t].pc \notin {"idle", "login"} =>
          /\ thread[t].pile \in Piles
          /\ thread[t].kind = IF t[2] = "job" THEN "job" ELSE "opening"
    /\ thread[t].pc \in {"invalidate", "login"} => t[2] = "api"

ThreadsOK == thread \in [Threads -> State] /\ \A t \in Threads : KindOK(t)

LocksOK ==
    /\ refreshMu \in [Users -> {"free", "job", "api"}]
    /\ \A t \in Threads : refreshMu[User(t)] = t[2] <=> thread[t].pc \in Holding

TypeInv == DataOK /\ ThreadsOK /\ LocksOK

LEMMA TypeInvImplies == TypeInv => TypeOK
BY DEF TypeInv, DataOK, ThreadsOK, LocksOK, TypeOK, State, StoredRow

LEMMA ThreadPairs ==
    /\ \A t \in Threads : User(t) \in Users /\ t[2] \in {"job", "api"} /\ t = <<User(t), t[2]>>
    /\ \A u \in Users : /\ <<u, "job">> \in Threads /\ <<u, "api">> \in Threads
                        /\ User(<<u, "job">>) = u /\ User(<<u, "api">>) = u
BY DEF Threads, User

\* A row is written: the table stays one of rows.
LEMMA WriteType ==
    ASSUME DataOK, NEW u \in Users, NEW p \in Piles, NEW r \in StoredRow, Write(u, p, r)
    PROVE  /\ st' \in [Users -> [Piles -> StoredRow]]
           /\ st'[u][p] = r
           /\ \A v \in Users, q \in Piles : v # u \/ q # p => st'[v][q] = st[v][q]
BY DEF DataOK, Write

LEMMA ForgetType ==
    ASSUME DataOK, NEW u \in Users, NEW n \in Int, Forget(u, n)
    PROVE  /\ forgotten' \in [Users -> Nat]
           /\ forgotten'[u] >= forgotten[u] /\ forgotten'[u] >= forgotten[u] + n
           /\ \A v \in Users : v # u => forgotten'[v] = forgotten[v]
BY DEF DataOK, Forget

\* One thread moves on, and keeps the mutex of its user or stays without it.
LEMMA MoveKeeps ==
    ASSUME ThreadsOK, LocksOK, NEW t \in Threads, NEW r \in State, Move(t, r),
           UNCHANGED refreshMu, r.pc \in Holding <=> thread[t].pc \in Holding,
           r.pc \notin {"idle", "login"} =>
             /\ r.pile \in Piles
             /\ r.kind = IF t[2] = "job" THEN "job" ELSE "opening",
           r.pc \in {"invalidate", "login"} => t[2] = "api"
    PROVE  ThreadsOK' /\ LocksOK'
BY DEF ThreadsOK, LocksOK, KindOK, Move

\* One thread takes the free mutex of its user.
LEMMA MoveTakes ==
    ASSUME ThreadsOK, LocksOK, NEW t \in Threads, NEW r \in State, Move(t, r),
           refreshMu[User(t)] = "free",
           refreshMu' = [refreshMu EXCEPT ![User(t)] = t[2]], r.pc \in Holding,
           r.pc \notin {"idle", "login"} =>
             /\ r.pile \in Piles
             /\ r.kind = IF t[2] = "job" THEN "job" ELSE "opening",
           r.pc \in {"invalidate", "login"} => t[2] = "api"
    PROVE  ThreadsOK' /\ LocksOK'
BY ThreadPairs DEF ThreadsOK, LocksOK, KindOK, Move

\* One thread gives the mutex of its user back.
LEMMA MoveReleases ==
    ASSUME ThreadsOK, LocksOK, NEW t \in Threads, NEW r \in State, Move(t, r),
           thread[t].pc \in Holding, Unlock(User(t)), r.pc \notin Holding,
           r.pc \notin {"idle", "login"} =>
             /\ r.pile \in Piles
             /\ r.kind = IF t[2] = "job" THEN "job" ELSE "opening",
           r.pc \in {"invalidate", "login"} => t[2] = "api"
    PROVE  ThreadsOK' /\ LocksOK'
BY ThreadPairs DEF ThreadsOK, LocksOK, KindOK, Move, Unlock

\* A flight is delivered to its leader and to everyone who waits for it.
LEMMA DeliverKeeps ==
    ASSUME ThreadsOK, LocksOK, NEW t \in Threads, NEW out \in Outs, Leader(t),
           Deliver(t, out), UNCHANGED refreshMu
    PROVE  ThreadsOK' /\ LocksOK'
<1>1. Idle.key = <<"none", "none">>
    BY DEF Idle
<1>2. ASSUME NEW s \in Threads
      PROVE  /\ thread'[s] \in State
             /\ thread'[s].pc \in Holding <=> thread[s].pc \in Holding
             /\ KindOK(s)'
    <2> DEFINE r == [thread[s] EXCEPT !.pc = "merge", !.out = out, !.key = <<"none", "none">>]
    <2>1. thread[s] \in State /\ KindOK(s)
        BY DEF ThreadsOK
    <2>2. r \in State /\ r.pc = "merge" /\ r.kind = thread[s].kind /\ r.pile = thread[s].pile
        BY <2>1 DEF State
    <2>3. \/ thread'[s] = r /\ thread[s].pc \in {"wait", "fetch", "remote"}
          \/ thread'[s] = thread[s]
        BY <1>1 DEF Deliver, Leader
    <2> HIDE DEF r
    <2> QED BY <2>1, <2>2, <2>3 DEF KindOK, Holding
<1>3. thread' \in [Threads -> State]
    <2>1. DOMAIN thread' = Threads /\ thread' = [s \in Threads |-> thread'[s]]
        BY DEF Deliver
    <2> QED BY <1>2, <2>1
<1> QED BY <1>2, <1>3 DEF ThreadsOK, LocksOK

LEMMA IdleFacts == Idle \in State /\ Idle.pc = "idle" /\ Idle.key = <<"none", "none">>
BY RowFacts DEF Idle, State, Outs

LEMMA SettingsFacts ==
    ASSUME DataOK
    PROVE  Now \in [enabled: SUBSET Users, on: BOOLEAN, power: BOOLEAN]
BY DEF DataOK, Now

LEMMA NoSettingsFacts == NoSettings \in [enabled: SUBSET Users, on: BOOLEAN, power: BOOLEAN]
BY DEF NoSettings

\* A target that is being prepared is one of the table's, and NoTarget is none.
LEMMA TargetFacts ==
    ASSUME DataOK, prep # NoTarget
    PROVE  prep.user \in Users /\ prep.pile \in Piles /\ prep.row \in Row
BY DEF DataOK

LEMMA InitType == Init => TypeInv
<1> SUFFICES ASSUME Init PROVE TypeInv
    OBVIOUS
<1>1. DataOK
    BY RowFacts, NoSettingsFacts, RefreshAssumption DEF Init, DataOK
<1>2. \A t \in Threads : thread[t] = Idle
    BY DEF Init
<1>3. ThreadsOK
    <2>1. thread \in [Threads -> State]
        BY IdleFacts DEF Init
    <2> QED BY <1>2, <2>1, IdleFacts DEF ThreadsOK, KindOK
<1>4. LocksOK
    BY <1>2, IdleFacts, ThreadPairs DEF Init, LocksOK, Holding
<1> QED BY <1>1, <1>3, <1>4 DEF TypeInv

LEMMA CycleType ==
    ASSUME TypeInv, Cycle
    PROVE  TypeInv'
<1> USE DEF TypeInv
<1>1. CASE StartCycle
    <2>1. st' \in [Users -> [Piles -> StoredRow]]
        BY <1>1, RowFacts DEF StartCycle, DataOK
    <2>2. \A u \in Users : Cardinality(Charges(st[u], Piles \ rule[u])) \in Nat
        <3>1. \A u \in Users, p \in Piles : Charged(st[u][p]) \in Nat
            BY ChargedType DEF DataOK
        <3> QED BY <3>1, ChargesFinite
    <2>3. forgotten' \in [Users -> Nat]
        BY <1>1, <2>2 DEF StartCycle, DataOK
    <2>4. todo' \subseteq Users \X Piles
        BY <1>1 DEF StartCycle
    <2>5. seen' \in [enabled: SUBSET Users, on: BOOLEAN, power: BOOLEAN]
        BY <1>1, SettingsFacts, NoSettingsFacts DEF StartCycle
    <2>6. DataOK'
        BY <1>1, <2>1, <2>3, <2>4, <2>5 DEF StartCycle, DataOK, settings, coordinator
    <2> QED BY <1>1, <2>6 DEF StartCycle, ThreadsOK, LocksOK, KindOK
<1>2. ASSUME NEW u \in Users, NEW p \in Piles, LoadTarget(u, p)
      PROVE  TypeInv'
    <2>1. (IF Present(u, p) THEN st[u][p] ELSE NewRow) \in Row
        BY RowFacts DEF DataOK, Present, StoredRow
    <2>2. prep' \in [user: Users, pile: Piles, row: Row]
        BY <1>2, <2>1 DEF LoadTarget
    <2>3. DataOK'
        BY <1>2, <2>2 DEF LoadTarget, DataOK, settings, coordinator, history
    <2> QED BY <1>2, <2>3 DEF LoadTarget, ThreadsOK, LocksOK, KindOK
<1>3. CASE PrepareTarget
    <2> DEFINE u == prep.user
               p == prep.pile
               result == Prepared(u, prep.row)
               job == [Idle EXCEPT !.pc = "enter", !.kind = "job", !.pile = p,
                                   !.copy = result.row]
    <2>1. u \in Users /\ p \in Piles /\ prep.row \in Row
        BY <1>3, TargetFacts DEF PrepareTarget
    <2>2. result.row \in Row
        BY <2>1, PreparedFacts
    <2> HIDE DEF result
    <2>3. st' \in [Users -> [Piles -> StoredRow]]
        <3>1. UNCHANGED st \/ Write(u, p, result.row)
            BY <1>3 DEF PrepareTarget, result
        <3>2. CASE UNCHANGED st
            BY <3>2 DEF DataOK
        <3>3. CASE Write(u, p, result.row)
            <4>1. result.row \in StoredRow
                BY <2>2 DEF StoredRow
            <4> QED BY <2>1, <3>3, <4>1, WriteType
        <3> QED BY <3>1, <3>2, <3>3
    <2>4. todo' \subseteq Users \X Piles /\ prep' = NoTarget
        BY <1>3 DEF PrepareTarget, DataOK
    <2>5. seen' \in [enabled: SUBSET Users, on: BOOLEAN, power: BOOLEAN]
        BY <1>3, NoSettingsFacts DEF PrepareTarget, DataOK
    <2>6. DataOK'
        BY <1>3, <2>3, <2>4, <2>5 DEF PrepareTarget, DataOK, settings, coordinator, history
    <2>7. job \in State /\ job.pc = "enter" /\ job.kind = "job" /\ job.pile = p
        BY <2>1, <2>2, IdleFacts DEF State, StoredRow
    <2>8. \/ UNCHANGED thread
          \/ ~Busy(<<u, "job">>) /\ Move(<<u, "job">>, job)
        BY <1>3 DEF PrepareTarget, Move, result
    <2>9. UNCHANGED refreshMu
        BY <1>3 DEF PrepareTarget
    <2> HIDE DEF job
    <2>10. ThreadsOK' /\ LocksOK'
        <3>1. CASE UNCHANGED thread
            BY <2>9, <3>1 DEF ThreadsOK, LocksOK, KindOK
        <3>2. CASE ~Busy(<<u, "job">>) /\ Move(<<u, "job">>, job)
            <4>1. <<u, "job">> \in Threads /\ <<u, "job">>[2] = "job"
                BY <2>1, ThreadPairs
            <4>2. job.pc \in Holding <=> thread[<<u, "job">>].pc \in Holding
                BY <2>7, <3>2 DEF Busy, Holding
            <4> QED BY <2>1, <2>7, <2>9, <3>2, <4>1, <4>2, MoveKeeps
        <3> QED BY <2>8, <3>1, <3>2
    <2> QED BY <2>6, <2>10
<1> QED BY <1>1, <1>2, <1>3 DEF Cycle


\* Rows of a user after the credential expired, and after it was accepted again.
LEMMA CredentialType ==
    ASSUME DataOK, NEW u \in Users, ExpireCredential(u) \/ ResolveCredential(u)
    PROVE  /\ st' \in [Users -> [Piles -> StoredRow]] /\ notice' \subseteq Users
           /\ \A v \in Users, p \in Piles : Charged(st'[v][p]) = Charged(st[v][p])
<1>1. \A p \in Piles : st[u][p] \in StoredRow
    BY DEF DataOK
<1>2. \A p \in Piles, reason \in {"credential", ""} :
        /\ Paused(st[u][p], reason, TRUE) \in StoredRow
        /\ Charged(Paused(st[u][p], reason, TRUE)) = Charged(st[u][p])
    BY <1>1, PausedFacts DEF StoredRow, Pauses
<1> DEFINE row(p) == st'[u][p]
<1>3. \A p \in Piles : row(p) \in StoredRow /\ Charged(row(p)) = Charged(st[u][p])
    <2>1. CASE ExpireCredential(u)
        BY <1>1, <1>2, <2>1, RowFacts DEF ExpireCredential, DataOK, Present
    <2>2. CASE ResolveCredential(u)
        BY <1>1, <1>2, <2>2 DEF ResolveCredential, DataOK
    <2> QED BY <2>1, <2>2
<1>4. st' = [st EXCEPT ![u] = [p \in Piles |-> row(p)]]
    BY DEF ExpireCredential, ResolveCredential, DataOK
<1>5. notice' \subseteq Users
    BY DEF ExpireCredential, ResolveCredential, DataOK
<1> HIDE DEF row
<1> QED BY <1>3, <1>4, <1>5 DEF DataOK

LEMMA EnterType ==
    ASSUME TypeInv, NEW t \in Threads, Enter(t)
    PROVE  TypeInv'
<1> USE DEF TypeInv
<1>1. DataOK'
    BY DEF Enter, DataOK, settings, coordinator, history, cycle
<1> DEFINE r == IF User(t) \in refreshEnabled /\ thread[t].pile \in rule[User(t)]
                THEN [thread[t] EXCEPT !.pc = "lock"]
                ELSE [thread[t] EXCEPT !.pc = "apply", !.out = "notEnabled"]
<1>2. Move(t, r) /\ UNCHANGED refreshMu /\ thread[t].pc = "enter"
    BY DEF Enter
<1>3. thread[t] \in State /\ KindOK(t)
    BY DEF ThreadsOK
<1>4. /\ r \in State /\ r.pc \in {"lock", "apply"}
      /\ r.kind = thread[t].kind /\ r.pile = thread[t].pile
    <2>1. "notEnabled" \in Outs
        BY DEF Outs, Denials
    <2> QED BY <1>3, <2>1 DEF State
<1> HIDE DEF r
<1> QED BY <1>1, <1>2, <1>3, <1>4, MoveKeeps DEF KindOK, Holding

LEMMA LockType ==
    ASSUME TypeInv, NEW t \in Threads, Lock(t)
    PROVE  TypeInv'
<1> USE DEF TypeInv
<1> DEFINE u == User(t)
           p == thread[t].pile
           r == IF validated[u][p] /\ p \in cache
                THEN [thread[t] EXCEPT !.pc = "merge", !.out = "ok"]
                ELSE IF Leaders(Key(u, p)) # {}
                THEN [thread[t] EXCEPT !.pc = "wait", !.key = Key(u, p)]
                ELSE [thread[t] EXCEPT !.pc = "fetch", !.key = Key(u, p)]
<1>1. DataOK'
    BY DEF Lock, DataOK, settings, coordinator, history, cycle
<1>2. /\ Move(t, r) /\ refreshMu[u] = "free"
      /\ refreshMu' = [refreshMu EXCEPT ![u] = t[2]] /\ thread[t].pc = "lock"
    BY DEF Lock
<1>3. thread[t] \in State /\ KindOK(t)
    BY DEF ThreadsOK
<1>4. u \in Users /\ p \in Piles
    BY <1>2, <1>3, ThreadPairs DEF KindOK
<1>5. Key(u, p) \in (Users \cup {Shared, "none"}) \X (Piles \cup {"none"})
    BY <1>4 DEF Key
<1>6. /\ r \in State /\ r.pc \in {"merge", "wait", "fetch"}
      /\ r.kind = thread[t].kind /\ r.pile = thread[t].pile
    <2> DEFINE Lands(s) == /\ s \in State /\ s.pc \in {"merge", "wait", "fetch"}
                           /\ s.kind = thread[t].kind /\ s.pile = thread[t].pile
    <2>1. Lands([thread[t] EXCEPT !.pc = "merge", !.out = "ok"])
        BY <1>3 DEF State, Outs
    <2>2. \A key \in (Users \cup {Shared, "none"}) \X (Piles \cup {"none"}) :
            /\ Lands([thread[t] EXCEPT !.pc = "wait", !.key = key])
            /\ Lands([thread[t] EXCEPT !.pc = "fetch", !.key = key])
        BY <1>3 DEF State
    <2> HIDE DEF Lands
    <2>3. Lands(r)
        BY <1>5, <2>1, <2>2
    <2> QED BY <2>3 DEF Lands
<1> HIDE DEF r
<1> QED BY <1>1, <1>2, <1>3, <1>6, MoveTakes DEF KindOK, Holding

LEMMA FetchType ==
    ASSUME TypeInv, NEW t \in Threads, Fetch(t)
    PROVE  TypeInv'
<1> USE DEF TypeInv
<1> DEFINE u == User(t)
           p == thread[t].pile
           row == Reserved(thread[t].copy)
           lost == Charged(st[u][p]) - Charged(thread[t].copy)
<1>1. thread[t] \in State /\ KindOK(t) /\ thread[t].pc = "fetch" /\ u \in Users /\ p \in Piles
    BY ThreadPairs DEF ThreadsOK, KindOK, Fetch
<1>2. row \in Row /\ row \in StoredRow /\ lost \in Int
    <2>1. thread[t].copy \in StoredRow /\ st[u][p] \in StoredRow
        BY <1>1 DEF State, DataOK
    <2> QED BY <2>1, ReservedFacts, ChargedType DEF StoredRow
<1> HIDE DEF row, lost
<1>3. DataOK'
    <2>1. /\ UNCHANGED <<rule, notice, settings, coordinator, backoff, cookieOK, cycle,
                         refreshMu, left, proven, rejected>>
          /\ \/ UNCHANGED <<st, spent, forgotten>>
             \/ /\ Write(u, p, row) /\ Forget(u, lost)
                /\ spent' = [spent EXCEPT ![u] = @ + 1]
        BY DEF Fetch, row, lost
    <2>2. /\ st' \in [Users -> [Piles -> StoredRow]]
          /\ forgotten' \in [Users -> Nat] /\ spent' \in [Users -> Nat]
        <3>1. CASE UNCHANGED <<st, spent, forgotten>>
            BY <3>1 DEF DataOK
        <3>2. ASSUME Write(u, p, row), Forget(u, lost), spent' = [spent EXCEPT ![u] = @ + 1]
              PROVE  /\ st' \in [Users -> [Piles -> StoredRow]]
                     /\ forgotten' \in [Users -> Nat] /\ spent' \in [Users -> Nat]
            <4>1. st' \in [Users -> [Piles -> StoredRow]]
                BY <1>1, <1>2, <3>2, WriteType
            <4>2. forgotten' \in [Users -> Nat]
                BY <1>1, <1>2, <3>2, ForgetType
            <4>3. spent' \in [Users -> Nat]
                BY <1>1, <3>2 DEF DataOK
            <4> QED BY <4>1, <4>2, <4>3
        <3> QED BY <2>1, <3>1, <3>2
    <2> QED BY <2>1, <2>2 DEF DataOK, settings, coordinator, cycle
<1>4. ThreadsOK' /\ LocksOK'
    <2>1. \/ \E out \in Outs : Deliver(t, out)
          \/ Move(t, [thread[t] EXCEPT !.pc = "remote", !.copy = row])
          \/ Move(t, [thread[t] EXCEPT !.pc = "remote"])
        BY DEF Fetch, Denied, Outs, Denials, row
    <2>2. UNCHANGED refreshMu
        BY DEF Fetch
    <2>3. CASE \E out \in Outs : Deliver(t, out)
        BY <1>1, <2>2, <2>3, DeliverKeeps DEF Leader
    <2>4. ASSUME NEW r \in {[thread[t] EXCEPT !.pc = "remote", !.copy = row],
                            [thread[t] EXCEPT !.pc = "remote"]},
                 Move(t, r)
          PROVE  ThreadsOK' /\ LocksOK'
        <3>1. /\ r \in State /\ r.pc = "remote"
              /\ r.kind = thread[t].kind /\ r.pile = thread[t].pile
            BY <1>1, <1>2 DEF State
        <3> QED BY <1>1, <2>2, <2>4, <3>1, MoveKeeps DEF KindOK, Holding
    <2> QED BY <2>1, <2>3, <2>4
<1> QED BY <1>3, <1>4

LEMMA AnswerType ==
    ASSUME TypeInv, NEW t \in Threads, Answer(t)
    PROVE  TypeInv'
<1> USE DEF TypeInv
<1> DEFINE u == User(t)
           p == thread[t].pile
<1>1. thread[t] \in State /\ KindOK(t) /\ thread[t].pc = "remote" /\ u \in Users /\ p \in Piles
    BY ThreadPairs DEF ThreadsOK, KindOK, Answer
<1>2. PICK out \in {"ok", "fail", "auth"} :
        /\ Deliver(t, out)
        /\ \/ /\ cache' = cache \cup {p}
              /\ validated' = [validated EXCEPT ![u] = [@ EXCEPT ![p] = TRUE]]
              /\ backoff' = [backoff EXCEPT ![u] = @ \ {p}]
              /\ proven' = proven \cup {u}
           \/ /\ UNCHANGED <<coordinator, proven>>
              /\ backoff' = [backoff EXCEPT ![u] = @ \cup {p}]
        /\ rejected' = IF out = "auth" THEN rejected \cup {u} ELSE rejected
    BY DEF Answer
<1>3. UNCHANGED <<rule, st, notice, settings, cookieOK, cycle, refreshMu, left, spent, forgotten>>
    BY DEF Answer
<1>4. DataOK'
    <2>1. cache' \subseteq Piles /\ proven' \subseteq Users /\ rejected' \subseteq Users
        BY <1>1, <1>2 DEF DataOK, coordinator
    <2>2. validated' \in [Users -> [Piles -> BOOLEAN]]
        <3>1. \/ validated' = [validated EXCEPT ![u] = [@ EXCEPT ![p] = TRUE]]
              \/ UNCHANGED validated
            BY <1>2 DEF coordinator
        <3>2. [validated[u] EXCEPT ![p] = TRUE] \in [Piles -> BOOLEAN]
            BY <1>1 DEF DataOK
        <3> QED BY <1>1, <3>1, <3>2 DEF DataOK
    <2>3. backoff' \in [Users -> SUBSET Piles]
        <3>1. \/ backoff' = [backoff EXCEPT ![u] = @ \ {p}]
              \/ backoff' = [backoff EXCEPT ![u] = @ \cup {p}]
            BY <1>2
        <3>2. CASE backoff' = [backoff EXCEPT ![u] = @ \ {p}]
            BY <1>1, <3>2 DEF DataOK
        <3>3. CASE backoff' = [backoff EXCEPT ![u] = @ \cup {p}]
            BY <1>1, <3>3 DEF DataOK
        <3> QED BY <3>1, <3>2, <3>3
    <2> QED BY <1>3, <2>1, <2>2, <2>3 DEF DataOK, settings, cycle
<1> QED BY <1>1, <1>2, <1>3, <1>4, DeliverKeeps DEF Leader, Outs

LEMMA MergeType ==
    ASSUME TypeInv, NEW t \in Threads, Merge(t)
    PROVE  TypeInv'
<1> USE DEF TypeInv
<1> DEFINE u == User(t)
           p == thread[t].pile
           r == [thread[t] EXCEPT !.pc = "apply"]
<1>1. thread[t] \in State /\ KindOK(t) /\ thread[t].pc = "merge" /\ u \in Users /\ p \in Piles
    BY ThreadPairs DEF ThreadsOK, KindOK, Merge
<1>2. /\ UNCHANGED st \/ Write(u, p, NewRow)
      /\ rule' = rule \/ rule' = [rule EXCEPT ![u] = @ \ {p}]
      /\ Unlock(u) /\ Move(t, r)
      /\ UNCHANGED <<notice, settings, coordinator, backoff, cookieOK, cycle, left, history>>
    BY DEF Merge
<1>3. DataOK'
    <2>1. st' \in [Users -> [Piles -> StoredRow]]
        BY <1>1, <1>2, WriteType, RowFacts DEF DataOK, StoredRow
    <2> QED BY <1>1, <1>2, <2>1 DEF DataOK, settings, coordinator, cycle, history
<1>4. r \in State /\ r.pc = "apply" /\ r.kind = thread[t].kind /\ r.pile = thread[t].pile
    BY <1>1 DEF State
<1> HIDE DEF r
<1> QED BY <1>1, <1>2, <1>3, <1>4, MoveReleases DEF KindOK, Holding


LEMMA ApplyJobType ==
    ASSUME TypeInv, NEW u \in Users, ApplyJob(u)
    PROVE  TypeInv'
<1> USE DEF TypeInv
<1> DEFINE t == <<u, "job">>
           p == thread[t].pile
           row == Outcome(u, thread[t].copy, thread[t].out)
<1>1. /\ t \in Threads /\ thread[t] \in State /\ KindOK(t)
      /\ thread[t].pc = "apply" /\ p \in Piles
    BY ThreadPairs DEF ThreadsOK, KindOK, ApplyJob
<1>2. /\ row \in StoredRow /\ Charged(row) \in Nat
      /\ st[u][p] \in StoredRow /\ Charged(st[u][p]) \in Nat
    <2>1. thread[t].copy \in StoredRow /\ st[u][p] \in StoredRow
        BY <1>1 DEF State, DataOK
    <2>2. row \in StoredRow
        BY <2>1, OutcomeFacts DEF StoredRow
    <2> QED BY <2>1, <2>2, ChargedType
<1>3. /\ \/ ExpireCredential(u) /\ UNCHANGED forgotten
         \/ Write(u, p, Absent) /\ Forget(u, Charged(st[u][p])) /\ UNCHANGED notice
         \/ Write(u, p, row) /\ Forget(u, Charged(st[u][p]) - Charged(row)) /\ UNCHANGED notice
      /\ Move(t, Idle)
      /\ UNCHANGED <<rule, settings, coordinator, backoff, cookieOK, cycle, refreshMu,
                     left, proven, rejected, spent>>
    BY DEF ApplyJob
<1> HIDE DEF row
<1>4. st' \in [Users -> [Piles -> StoredRow]] /\ notice' \subseteq Users
    <2>1. CASE ExpireCredential(u)
        BY <2>1, CredentialType
    <2>2. ASSUME NEW r \in StoredRow, Write(u, p, r), UNCHANGED notice
          PROVE  st' \in [Users -> [Piles -> StoredRow]] /\ notice' \subseteq Users
        BY <1>1, <2>2, WriteType DEF DataOK
    <2> QED BY <1>2, <1>3, <2>1, <2>2, RowFacts
<1>5. forgotten' \in [Users -> Nat]
    <2>1. ASSUME NEW n \in Int, Forget(u, n)
          PROVE  forgotten' \in [Users -> Nat]
        BY <2>1, ForgetType
    <2> QED BY <1>2, <1>3, <2>1 DEF DataOK
<1>6. DataOK'
    BY <1>3, <1>4, <1>5 DEF DataOK, settings, coordinator, cycle
<1>7. Move(t, Idle) /\ UNCHANGED refreshMu /\ thread[t].pc \notin Holding
    BY <1>1 DEF ApplyJob, Holding
<1> HIDE DEF t, p
<1>8. ThreadsOK' /\ LocksOK'
    BY <1>1, <1>7, IdleFacts, MoveKeeps DEF Holding
<1> QED BY <1>6, <1>8

LEMMA CreateRuleType ==
    ASSUME TypeInv, NEW u \in Users, NEW p \in Piles, CreateRule(u, p)
    PROVE  TypeInv'
<1> USE DEF TypeInv
<1> DEFINE t == <<u, "api">>
           r == [Idle EXCEPT !.pc = "invalidate", !.kind = "opening", !.pile = p]
<1>1. t \in Threads /\ t[2] = "api" /\ User(t) = u
    BY ThreadPairs
<1>2. /\ rule' = [rule EXCEPT ![u] = @ \cup {p}]
      /\ left.openings > 0 /\ left' = [left EXCEPT !.openings = @ - 1]
      /\ Move(t, r) /\ thread[t].pc = "idle"
      /\ UNCHANGED <<st, notice, settings, coordinator, backoff, cookieOK, cycle,
                     refreshMu, history>>
    BY DEF CreateRule, Busy
<1>3. DataOK'
    <2>1. rule' \in [Users -> SUBSET Piles]
        BY <1>2 DEF DataOK
    <2>2. left' \in [openings: Nat, events: Nat]
        <3>1. left.openings - 1 \in Nat
            BY <1>2 DEF DataOK
        <3>2. left' = [left EXCEPT !.openings = left.openings - 1]
            BY <1>2
        <3> QED BY <3>1, <3>2 DEF DataOK
    <2> QED BY <1>2, <2>1, <2>2 DEF DataOK, settings, coordinator, cycle, history
<1>4. r \in State /\ r.pc = "invalidate" /\ r.kind = "opening" /\ r.pile = p
    BY IdleFacts DEF State
<1> HIDE DEF r
<1> QED BY <1>1, <1>2, <1>3, <1>4, MoveKeeps DEF Holding

LEMMA InvalidateType ==
    ASSUME TypeInv, NEW u \in Users, Invalidate(u)
    PROVE  TypeInv'
<1> USE DEF TypeInv
<1> DEFINE t == <<u, "api">>
           p == thread[t].pile
           r == [thread[t] EXCEPT !.pc = "enter"]
<1>1. /\ t \in Threads /\ t[2] = "api" /\ thread[t] \in State /\ KindOK(t)
      /\ thread[t].pc = "invalidate" /\ p \in Piles
    BY ThreadPairs DEF ThreadsOK, KindOK, Invalidate
<1>2. /\ cache' = cache \ {p}
      /\ validated' = [validated EXCEPT ![u] = [@ EXCEPT ![p] = FALSE]]
      /\ Move(t, r)
      /\ UNCHANGED <<rule, st, notice, settings, backoff, cookieOK, cycle, refreshMu,
                     left, history>>
    BY DEF Invalidate
<1>3. validated' \in [Users -> [Piles -> BOOLEAN]]
    <2>1. [validated[u] EXCEPT ![p] = FALSE] \in [Piles -> BOOLEAN]
        BY <1>1 DEF DataOK
    <2> QED BY <1>2, <2>1 DEF DataOK
<1>4. DataOK'
    BY <1>2, <1>3 DEF DataOK, settings, cycle, history
<1>5. r \in State /\ r.pc = "enter" /\ r.kind = thread[t].kind /\ r.pile = p
    BY <1>1 DEF State
<1> HIDE DEF r
<1> QED BY <1>1, <1>2, <1>4, <1>5, MoveKeeps DEF Holding, KindOK

LEMMA ApplyOpeningType ==
    ASSUME TypeInv, NEW u \in Users, ApplyOpening(u)
    PROVE  TypeInv'
<1> USE DEF TypeInv
<1> DEFINE t == <<u, "api">>
           p == thread[t].pile
           late == [st[u][p] EXCEPT !.due = FALSE]
           retry == Paused(NewRow, "backoff", FALSE)
<1>1. /\ t \in Threads /\ thread[t] \in State /\ KindOK(t)
      /\ thread[t].pc = "apply" /\ p \in Piles /\ User(t) = u
    BY ThreadPairs DEF ThreadsOK, KindOK, ApplyOpening
<1>2. st[u][p] \in StoredRow /\ Charged(st[u][p]) \in Nat
    BY <1>1, ChargedType DEF DataOK
<1>3. retry \in StoredRow
    BY PausedFacts, RowFacts DEF StoredRow, Pauses
<1>4. /\ rule' = rule \/ rule' = [rule EXCEPT ![u] = @ \ {p}]
      /\ \/ UNCHANGED st
         \/ Write(u, p, Absent)
         \/ Present(u, p) /\ Write(u, p, late)
         \/ Write(u, p, retry)
      /\ UNCHANGED forgotten \/ Forget(u, Charged(st[u][p]))
      /\ Move(t, Idle)
      /\ UNCHANGED <<notice, settings, coordinator, backoff, cookieOK, cycle, refreshMu,
                     left, proven, rejected, spent>>
    BY DEF ApplyOpening
<1> HIDE DEF late, retry
<1>5. st' \in [Users -> [Piles -> StoredRow]]
    <2>1. Present(u, p) => late \in StoredRow
        BY <1>2, DueFacts DEF Present, late, StoredRow
    <2>2. ASSUME NEW r \in StoredRow, Write(u, p, r)
          PROVE  st' \in [Users -> [Piles -> StoredRow]]
        BY <1>1, <2>2, WriteType
    <2>3. UNCHANGED st => st' \in [Users -> [Piles -> StoredRow]]
        BY DEF DataOK
    <2> QED BY <1>3, <1>4, <2>1, <2>2, <2>3, RowFacts
<1>6. forgotten' \in [Users -> Nat]
    <2>1. CASE UNCHANGED forgotten
        BY <2>1 DEF DataOK
    <2>2. CASE Forget(u, Charged(st[u][p]))
        BY <1>2, <2>2, ForgetType
    <2> QED BY <1>4, <2>1, <2>2
<1>7. rule' \in [Users -> SUBSET Piles]
    <2>1. CASE rule' = [rule EXCEPT ![u] = @ \ {p}]
        BY <2>1 DEF DataOK
    <2> QED BY <1>4, <2>1 DEF DataOK
<1>8. DataOK'
    BY <1>4, <1>5, <1>6, <1>7 DEF DataOK, settings, coordinator, cycle
<1>9. Move(t, Idle) /\ UNCHANGED refreshMu /\ thread[t].pc \notin Holding
    BY <1>1 DEF ApplyOpening, Holding
<1> HIDE DEF t, p
<1>10. ThreadsOK' /\ LocksOK'
    BY <1>1, <1>9, IdleFacts, MoveKeeps DEF Holding
<1> QED BY <1>8, <1>10

LEMMA CancelType ==
    ASSUME TypeInv, NEW u \in Users, NEW p \in Piles, Cancel(u, p)
    PROVE  TypeInv'
<1> USE DEF TypeInv
<1>1. Charged(st[u][p]) \in Nat
    BY ChargedType DEF DataOK
<1>2. /\ st' \in [Users -> [Piles -> StoredRow]]
      /\ forgotten' \in [Users -> Nat]
    BY <1>1, WriteType, ForgetType, RowFacts DEF Cancel, DataOK
<1>3. rule' \in [Users -> SUBSET Piles]
    BY DEF Cancel, DataOK
<1>4. DataOK'
    BY <1>2, <1>3 DEF Cancel, DataOK, settings, coordinator, cycle
<1> QED BY <1>4 DEF Cancel, ThreadsOK, LocksOK, KindOK

LEMMA LoginType ==
    ASSUME TypeInv, NEW u \in Users, Login(u)
    PROVE  TypeInv'
<1> USE DEF TypeInv
<1> DEFINE t == <<u, "api">>
           r == [Idle EXCEPT !.pc = "login", !.kind = "login", !.old = u \in cookieOK]
<1>1. t \in Threads /\ t[2] = "api" /\ User(t) = u
    BY ThreadPairs
<1>2. /\ left.events > 0 /\ left' = [left EXCEPT !.events = @ - 1]
      /\ cookieOK' = cookieOK \cup {u} \/ cookieOK' = cookieOK \ {u}
      /\ proven' = proven \ {u} /\ backoff' = [backoff EXCEPT ![u] = {}]
      /\ validated' = [validated EXCEPT ![u] = [p \in Piles |-> FALSE]]
      /\ thread[t].pc = "idle" /\ refreshMu[u] = "free"
      /\ \/ refreshMu' = [refreshMu EXCEPT ![u] = "api"] /\ Move(t, r)
         \/ UNCHANGED <<refreshMu, thread>>
      /\ UNCHANGED <<rule, st, notice, settings, cache, cycle, rejected, spent, forgotten>>
    BY DEF Login, ClearValidation, Spend, Busy
<1>3. DataOK'
    <2>1. left' \in [openings: Nat, events: Nat] /\ cookieOK' \subseteq Users
        BY <1>2 DEF DataOK
    <2>2. validated' \in [Users -> [Piles -> BOOLEAN]] /\ backoff' \in [Users -> SUBSET Piles]
        BY <1>2 DEF DataOK
    <2> QED BY <1>2, <2>1, <2>2 DEF DataOK, settings, cycle
<1>4. r \in State /\ r.pc = "login"
    <2> DEFINE old == u \in cookieOK
    <2>1. old \in BOOLEAN
        OBVIOUS
    <2> HIDE DEF old
    <2>2. [Idle EXCEPT !.pc = "login", !.kind = "login", !.old = old] \in State
        BY <2>1, IdleFacts DEF State
    <2>3. r = [Idle EXCEPT !.pc = "login", !.kind = "login", !.old = old]
        BY Zenon DEF old
    <2> QED BY <2>2, <2>3, IdleFacts DEF State
<1> HIDE DEF r
<1>5. CASE refreshMu' = [refreshMu EXCEPT ![u] = "api"] /\ Move(t, r)
    BY <1>1, <1>2, <1>3, <1>4, <1>5, MoveTakes DEF Holding
<1>6. CASE UNCHANGED <<refreshMu, thread>>
    BY <1>3, <1>6 DEF ThreadsOK, LocksOK, KindOK
<1> QED BY <1>2, <1>5, <1>6

LEMMA LoginAnswerType ==
    ASSUME TypeInv, NEW u \in Users, LoginAnswer(u)
    PROVE  TypeInv'
<1> USE DEF TypeInv
<1> DEFINE t == <<u, "api">>
<1>1. t \in Threads /\ User(t) = u /\ thread[t].pc = "login"
    BY ThreadPairs DEF LoginAnswer
<1>2. /\ ExpireCredential(u) \/ ResolveCredential(u) \/ UNCHANGED <<st, notice>>
      /\ \/ UNCHANGED validated
         \/ \E fetched \in SUBSET Piles :
              validated' = [validated EXCEPT ![u] = [p \in Piles |-> p \in fetched \/ validated[u][p]]]
      /\ \E piles \in SUBSET Piles : backoff' = [backoff EXCEPT ![u] = piles]
      /\ proven' = proven \cup {u} \/ proven' = proven \ {u}
      /\ cookieOK' \in {cookieOK, cookieOK \cup {u}, cookieOK \ {u}}
      /\ rejected' = rejected \/ rejected' = rejected \cup {u}
      /\ Unlock(u) /\ Move(t, Idle)
      /\ UNCHANGED <<rule, settings, cache, cycle, left, spent, forgotten>>
    <2>1. /\ Unlock(u) /\ Move(t, Idle)
          /\ UNCHANGED <<rule, settings, cache, cycle, left, spent, forgotten>>
        BY DEF LoginAnswer
    <2>2. CASE /\ \E fetched \in SUBSET Piles \ {{}} :
                    /\ validated' = [validated EXCEPT ![u] =
                                        [p \in Piles |-> p \in fetched \/ validated[u][p]]]
                    /\ backoff' = [backoff EXCEPT ![u] = Piles \ fetched]
               /\ ResolveCredential(u) /\ proven' = proven \cup {u}
               /\ UNCHANGED <<cookieOK, rejected>>
        <3>1. PICK fetched \in SUBSET Piles :
                /\ validated' = [validated EXCEPT ![u] =
                                    [p \in Piles |-> p \in fetched \/ validated[u][p]]]
                /\ backoff' = [backoff EXCEPT ![u] = Piles \ fetched]
            BY <2>2
        <3>2. Piles \ fetched \in SUBSET Piles
            OBVIOUS
        <3> QED BY <2>1, <2>2, <3>1, <3>2
    <2>3. CASE /\ cookieOK' = IF thread[t].old THEN cookieOK \cup {u} ELSE cookieOK \ {u}
               /\ backoff' = [backoff EXCEPT ![u] = {}] /\ proven' = proven \ {u}
               /\ \/ ExpireCredential(u) /\ rejected' = rejected \cup {u}
                  \/ UNCHANGED <<st, notice, rejected>>
               /\ UNCHANGED validated
        BY <2>1, <2>3
    <2> QED BY <2>2, <2>3 DEF LoginAnswer
<1>3. st' \in [Users -> [Piles -> StoredRow]] /\ notice' \subseteq Users
    BY <1>2, CredentialType DEF DataOK
<1>4. validated' \in [Users -> [Piles -> BOOLEAN]] /\ backoff' \in [Users -> SUBSET Piles]
    <2>1. ASSUME NEW fetched \in SUBSET Piles,
                 validated' = [validated EXCEPT ![u] = [p \in Piles |-> p \in fetched \/ validated[u][p]]]
          PROVE  validated' \in [Users -> [Piles -> BOOLEAN]]
        <3>1. [p \in Piles |-> p \in fetched \/ validated[u][p]] \in [Piles -> BOOLEAN]
            BY Zenon DEF DataOK
        <3> QED BY <2>1, <3>1 DEF DataOK
    <2>2. backoff' \in [Users -> SUBSET Piles]
        BY <1>2 DEF DataOK
    <2> QED BY <1>2, <2>1, <2>2 DEF DataOK
<1>5. DataOK'
    BY <1>2, <1>3, <1>4 DEF DataOK, settings, cycle
<1> QED BY <1>1, <1>2, <1>5, IdleFacts, MoveReleases DEF Holding


LEMMA TimeType ==
    ASSUME TypeInv, Elapse \/ Switch \/ \E u \in Users : ExpireCookie(u)
    PROVE  TypeInv'
<1> USE DEF TypeInv
<1>1. CASE Elapse
    <2>1. UNCHANGED <<rule, notice, settings, cookieOK, cycle, thread, refreshMu, left, history>>
        BY <1>1 DEF Elapse
    <2>2. CASE /\ \E u \in Users, p \in Piles :
                    /\ Present(u, p) /\ Write(u, p, [st[u][p] EXCEPT !.due = TRUE])
               /\ UNCHANGED <<coordinator, backoff>>
        <3>1. PICK u \in Users, p \in Piles :
                /\ Present(u, p) /\ Write(u, p, [st[u][p] EXCEPT !.due = TRUE])
            BY <2>2
        <3>2. [st[u][p] EXCEPT !.due = TRUE] \in StoredRow
            <4>1. st[u][p] \in StoredRow /\ st[u][p] # Absent
                BY <3>1 DEF DataOK, Present
            <4> QED BY <4>1, DueFacts DEF StoredRow
        <3>3. st' \in [Users -> [Piles -> StoredRow]]
            BY <3>1, <3>2, WriteType
        <3> QED BY <2>1, <2>2, <3>3 DEF DataOK, ThreadsOK, LocksOK, KindOK, settings, cycle,
                    history, coordinator
    <2>3. CASE (\E p \in cache : cache' = cache \ {p}) /\ UNCHANGED <<st, validated, backoff>>
        BY <2>1, <2>3 DEF DataOK, ThreadsOK, LocksOK, KindOK, settings, cycle, history
    <2>4. CASE /\ \E u \in Users, p \in Piles :
                    validated' = [validated EXCEPT ![u] = [@ EXCEPT ![p] = FALSE]]
               /\ UNCHANGED <<st, cache, backoff>>
        <3>1. PICK u \in Users, p \in Piles :
                validated' = [validated EXCEPT ![u] = [@ EXCEPT ![p] = FALSE]]
            BY <2>4
        <3>2. [validated[u] EXCEPT ![p] = FALSE] \in [Piles -> BOOLEAN]
            BY DEF DataOK
        <3>3. validated' \in [Users -> [Piles -> BOOLEAN]]
            BY <3>1, <3>2 DEF DataOK
        <3> QED BY <2>1, <2>4, <3>3 DEF DataOK, ThreadsOK, LocksOK, KindOK, settings, cycle, history
    <2>5. CASE /\ \E u \in Users, p \in Piles : backoff' = [backoff EXCEPT ![u] = @ \ {p}]
               /\ UNCHANGED <<st, coordinator>>
        BY <2>1, <2>5 DEF DataOK, ThreadsOK, LocksOK, KindOK, settings, cycle, history, coordinator
    <2> QED BY <1>1, <2>2, <2>3, <2>4, <2>5 DEF Elapse
<1>2. CASE Switch
    <2>1. left' \in [openings: Nat, events: Nat]
        BY <1>2 DEF Switch, Spend, DataOK
    <2>2. refreshEnabled' \subseteq Users /\ remindersOn' \in BOOLEAN /\ powerOff' \in BOOLEAN
        BY <1>2 DEF Switch, DataOK
    <2>3. DataOK'
        BY <1>2, <2>1, <2>2 DEF Switch, DataOK, coordinator, cycle, history
    <2> QED BY <1>2, <2>3 DEF Switch, ThreadsOK, LocksOK, KindOK
<1>3. ASSUME NEW u \in Users, ExpireCookie(u)
      PROVE  TypeInv'
    <2>1. left' \in [openings: Nat, events: Nat] /\ cookieOK' \subseteq Users
        <3>1. left.events - 1 \in Nat
            BY <1>3 DEF ExpireCookie, DataOK
        <3>2. left' = [left EXCEPT !.events = left.events - 1] /\ cookieOK' \subseteq Users
            BY <1>3 DEF ExpireCookie, Spend, DataOK
        <3> QED BY <3>1, <3>2 DEF DataOK
    <2>2. DataOK'
        BY <1>3, <2>1 DEF ExpireCookie, DataOK, settings, coordinator, cycle, history
    <2> QED BY <1>3, <2>2 DEF ExpireCookie, ThreadsOK, LocksOK, KindOK
<1> QED BY <1>1, <1>2, <1>3

\* Two rows with the same fields are the same row.
AnyRow == [pause: Pauses \cup {"absent"}, due: BOOLEAN, used: Nat, fresh: BOOLEAN]

LEMMA SameRow ==
    ASSUME NEW r \in AnyRow, NEW s \in AnyRow,
           r.pause = s.pause, r.due = s.due, r.used = s.used, r.fresh = s.fresh
    PROVE  r = s
BY DEF AnyRow

\* At midnight a row's charges are of a day that is over.
LEMMA StaleFacts ==
    ASSUME NEW r \in StoredRow
    PROVE  /\ [r EXCEPT !.fresh = FALSE] \in StoredRow
           /\ Charged([r EXCEPT !.fresh = FALSE]) = 0
<1>1. CASE r \in Row
    BY <1>1 DEF StoredRow, Row, Charged
<1>2. CASE r = Absent
    <2> DEFINE stale == [Absent EXCEPT !.fresh = FALSE]
    <2>1. Absent \in AnyRow
        BY DEF Absent, NewRow, AnyRow, Pauses
    <2>2. stale \in AnyRow
        BY <2>1 DEF AnyRow
    <2>3. /\ stale.pause = Absent.pause /\ stale.due = Absent.due
          /\ stale.used = Absent.used /\ stale.fresh = Absent.fresh
        BY DEF Absent, NewRow
    <2> HIDE DEF stale
    <2>4. stale = Absent
        BY <2>1, <2>2, <2>3, SameRow
    <2>5. [r EXCEPT !.fresh = FALSE] = Absent
        BY <1>2, <2>4 DEF stale
    <2>6. [r EXCEPT !.fresh = FALSE].fresh = FALSE
        BY <1>2 DEF Absent, NewRow
    <2> QED BY <2>5, <2>6 DEF StoredRow, Charged
<1> QED BY <1>1, <1>2 DEF StoredRow

LEMMA NewDayType ==
    ASSUME TypeInv, NewDay
    PROVE  TypeInv'
<1> USE DEF TypeInv
<1> DEFINE Stale(r) == [r EXCEPT !.fresh = FALSE]
<1>1. /\ st' = [u \in Users |-> [p \in Piles |-> Stale(st[u][p])]]
      /\ thread' = [t \in Threads |-> [thread[t] EXCEPT !.copy = Stale(@)]]
      /\ spent' = [u \in Users |-> 0] /\ forgotten' = [u \in Users |-> 0]
      /\ left.events > 0 /\ left' = [left EXCEPT !.events = @ - 1]
      /\ UNCHANGED <<rule, notice, settings, coordinator, backoff, cookieOK, cycle,
                     refreshMu, proven, rejected>>
    BY DEF NewDay, Spend
<1>2. \A r \in StoredRow : Stale(r) \in StoredRow
    BY StaleFacts
<1> HIDE DEF Stale
<1>3. st' \in [Users -> [Piles -> StoredRow]]
    BY <1>1, <1>2 DEF DataOK
<1>4. left' \in [openings: Nat, events: Nat]
    BY <1>1 DEF DataOK
<1>5. DataOK'
    BY <1>1, <1>3, <1>4 DEF DataOK, settings, coordinator, cycle
<1>6. ASSUME NEW t \in Threads
      PROVE  /\ thread'[t] \in State /\ KindOK(t)'
             /\ thread'[t].pc = thread[t].pc
    <2>1. thread[t] \in State /\ thread[t].copy \in StoredRow
        BY DEF ThreadsOK, State
    <2>2. thread'[t] = [thread[t] EXCEPT !.copy = Stale(thread[t].copy)]
        BY <1>1
    <2>3. Stale(thread[t].copy) \in StoredRow
        BY <1>2, <2>1
    <2> QED BY <2>1, <2>2, <2>3 DEF ThreadsOK, KindOK, State
<1>7. thread' \in [Threads -> State]
    BY <1>1, <1>6
<1> QED BY <1>1, <1>5, <1>6, <1>7 DEF ThreadsOK, LocksOK

LEMMA RestartType ==
    ASSUME TypeInv, Restart
    PROVE  TypeInv'
<1> USE DEF TypeInv
<1>1. left' \in [openings: Nat, events: Nat]
    BY DEF Restart, Spend, DataOK
<1>2. DataOK'
    BY <1>1, NoSettingsFacts DEF Restart, DataOK, settings, history
<1>3. thread' = [t \in Threads |-> Idle] /\ refreshMu' = [u \in Users |-> "free"]
    BY DEF Restart
<1>4. ThreadsOK'
    BY <1>3, IdleFacts DEF ThreadsOK, KindOK
<1>5. LocksOK'
    BY <1>3, IdleFacts, ThreadPairs DEF LocksOK, Holding
<1> QED BY <1>2, <1>4, <1>5

LEMMA TypeStep == TypeInv /\ [Next]_vars => TypeInv'
<1> SUFFICES ASSUME TypeInv, [Next]_vars PROVE TypeInv'
    OBVIOUS
<1>1. CASE UNCHANGED vars
    BY <1>1 DEF TypeInv, DataOK, ThreadsOK, LocksOK, KindOK, vars, settings, coordinator,
                cycle, history
<1>2. CASE Next
    BY <1>2, CycleType, EnterType, LockType, FetchType, AnswerType, MergeType, ApplyJobType,
       CreateRuleType, InvalidateType, ApplyOpeningType, CancelType, LoginType, LoginAnswerType,
       TimeType, NewDayType, RestartType
    DEF Next, Progress, Handle
<1> QED BY <1>1, <1>2

\* Every variable keeps its range and every refreshMu its one holder, through every
\* cycle, opening check, login and restart of WatchRefresh.
THEOREM TypeCorrect == Spec => []TypeOK
<1>1. Init => TypeInv
    BY InitType
<1>2. TypeInv /\ [Next]_vars => TypeInv'
    BY TypeStep
<1> QED BY <1>1, <1>2, TypeInvImplies, PTL DEF Spec

-----------------------------------------------------------------------------
(* Flights *)

Flying == {"wait", "fetch", "remote"}

\* The flight of a thread is its pile's, shared by everyone or its user's own.
KeysAreOwn ==
    \A t \in Threads : thread[t].pc \in Flying =>
        thread[t].key \in {<<Shared, thread[t].pile>>, <<User(t), thread[t].pile>>}

FlightInv == KeysAreOwn /\ FlightsAreSound

\* refreshMu excludes the two threads of a user from each other.
LEMMA OneHolder ==
    ASSUME LocksOK, NEW s \in Threads, NEW t \in Threads, User(s) = User(t),
           thread[s].pc \in Holding, thread[t].pc \in Holding
    PROVE  s = t
BY ThreadPairs DEF LocksOK

\* A step that leaves everyone's place on the flights alone.
LEMMA FlightsKept ==
    ASSUME FlightInv,
           \A t \in Threads :
              /\ thread'[t].pc \in Flying <=> thread[t].pc \in Flying
              /\ thread[t].pc \in Flying =>
                    /\ thread'[t].key = thread[t].key /\ thread'[t].pile = thread[t].pile
                    /\ thread'[t].pc = "wait" <=> thread[t].pc = "wait"
    PROVE  FlightInv'
<1>1. KeysAreOwn'
    BY DEF FlightInv, KeysAreOwn
<1>2. \A t \in Threads : /\ Leader(t)' <=> Leader(t)
                         /\ thread'[t].pc = "wait" <=> thread[t].pc = "wait"
                         /\ Leader(t) \/ thread[t].pc = "wait" => thread'[t].key = thread[t].key
    BY DEF Leader, Flying
<1>3. SharedFetchIsUnique'
    BY <1>2 DEF FlightInv, FlightsAreSound, SharedFetchIsUnique
<1>4. WaitersAreLed'
    BY <1>2 DEF FlightInv, FlightsAreSound, WaitersAreLed, Leader
<1> QED BY <1>1, <1>3, <1>4 DEF FlightInv, FlightsAreSound

\* One thread moves that flies neither before nor after.
LEMMA FlightsUnmoved ==
    ASSUME FlightInv, NEW t \in Threads, NEW r \in State, Move(t, r), ThreadsOK,
           thread[t].pc \notin Flying, r.pc \notin Flying
    PROVE  FlightInv'
<1>1. \A s \in Threads : thread'[s] = IF s = t THEN r ELSE thread[s]
    BY DEF Move, ThreadsOK
<1> QED BY <1>1, FlightsKept

LEMMA FlightsStay ==
    ASSUME FlightInv, UNCHANGED thread
    PROVE  FlightInv'
BY FlightsKept

\* Who lands with the flight of t.
Landing(s, t) == s = t \/ (thread[s].pc = "wait" /\ thread[s].key = thread[t].key)

LEMMA Delivered ==
    ASSUME ThreadsOK, NEW t \in Threads, NEW out, Deliver(t, out)
    PROVE  \A s \in Threads : /\ Landing(s, t) => thread'[s].pc = "merge"
                              /\ ~Landing(s, t) => thread'[s] = thread[s]
<1> SUFFICES ASSUME NEW s \in Threads
             PROVE  /\ Landing(s, t) => thread'[s].pc = "merge"
                    /\ ~Landing(s, t) => thread'[s] = thread[s]
    OBVIOUS
<1>1. thread'[s] = IF Landing(s, t)
                   THEN [thread[s] EXCEPT !.pc = "merge", !.out = out, !.key = Idle.key]
                   ELSE thread[s]
    BY DEF Deliver, Landing
<1>2. [thread[s] EXCEPT !.pc = "merge", !.out = out, !.key = Idle.key].pc = "merge"
    BY DEF ThreadsOK, State
<1> QED BY <1>1, <1>2, Zenon

\* The leader lands with everyone who waits for it; the other flights go on.
LEMMA FlightsDelivered ==
    ASSUME FlightInv, NEW t \in Threads, NEW out, Leader(t), Deliver(t, out), ThreadsOK
    PROVE  FlightInv'
<1> DEFINE Lands(s) == Landing(s, t)
<1>1. \A s \in Threads : /\ Lands(s) => thread'[s].pc = "merge"
                         /\ ~Lands(s) => thread'[s] = thread[s]
    BY Delivered
<1> USE DEF Landing
<1>2. KeysAreOwn'
    BY <1>1 DEF FlightInv, KeysAreOwn, Flying
<1>3. SharedFetchIsUnique'
    BY <1>1 DEF FlightInv, FlightsAreSound, SharedFetchIsUnique, Leader
<1>4. WaitersAreLed'
    <2> SUFFICES ASSUME NEW w \in Threads, thread'[w].pc = "wait"
                 PROVE  \E s \in Threads : /\ thread'[s].pc \in {"fetch", "remote"}
                                           /\ thread'[s].key = thread'[w].key
                                           /\ User(s) # User(w)
        BY DEF WaitersAreLed
    <2>1. ~Lands(w) /\ thread'[w] = thread[w]
        BY <1>1
    <2>2. PICK s \in Threads : /\ thread[s].pc \in {"fetch", "remote"}
                               /\ thread[s].key = thread[w].key /\ User(s) # User(w)
        BY <2>1 DEF FlightInv, FlightsAreSound, WaitersAreLed
    <2>3. ~Lands(s)
        BY <2>1, <2>2
    <2> QED BY <1>1, <2>1, <2>2, <2>3
<1> QED BY <1>2, <1>3, <1>4 DEF FlightInv, FlightsAreSound

\* A thread takes off only when nobody flies for its key, and otherwise waits for a
\* flight of somebody else, as its own user's mutex was free.
LEMMA FlightsJoined ==
    ASSUME TypeInv, FlightInv, NEW t \in Threads, Lock(t)
    PROVE  FlightInv'
<1> USE DEF TypeInv
<1> DEFINE u == User(t)
           p == thread[t].pile
           key == Key(u, p)
<1>1. /\ thread[t].pc = "lock" /\ refreshMu[u] = "free" /\ thread[t] \in State
    BY DEF Lock, ThreadsOK
<1>2. \A s \in Threads : s # t => thread'[s] = thread[s]
    BY DEF Lock, Move, ThreadsOK
<1>3. \/ thread'[t].pc = "merge"
      \/ /\ Leaders(key) # {} /\ thread'[t].pc = "wait"
         /\ thread'[t].key = key /\ thread'[t].pile = p
      \/ /\ Leaders(key) = {} /\ thread'[t].pc = "fetch"
         /\ thread'[t].key = key /\ thread'[t].pile = p
    BY <1>1 DEF Lock, Move, ThreadsOK, State
<1>4. key \in {<<Shared, p>>, <<User(t), p>>}
    BY DEF Key
<1> HIDE DEF key
<1>5. KeysAreOwn'
    BY <1>2, <1>3, <1>4 DEF FlightInv, KeysAreOwn, Flying
<1>6. SharedFetchIsUnique'
    BY <1>2, <1>3 DEF FlightInv, FlightsAreSound, SharedFetchIsUnique, Leader, Leaders
<1>7. WaitersAreLed'
    <2> SUFFICES ASSUME NEW w \in Threads, thread'[w].pc = "wait"
                 PROVE  \E s \in Threads : /\ thread'[s].pc \in {"fetch", "remote"}
                                           /\ thread'[s].key = thread'[w].key
                                           /\ User(s) # User(w)
        BY DEF WaitersAreLed
    <2>1. CASE w = t
        <3>1. PICK s \in Leaders(key) : TRUE
            BY <1>3, <2>1
        <3>2. s \in Threads /\ thread[s].pc \in {"fetch", "remote"} /\ thread[s].key = key
            BY <3>1 DEF Leaders, Leader
        <3>3. User(s) # User(t)
            BY <1>1, <3>2, ThreadPairs DEF LocksOK, Holding
        <3> QED BY <1>1, <1>2, <1>3, <2>1, <3>2, <3>3
    <2>2. CASE w # t
        <3>1. PICK s \in Threads : /\ thread[s].pc \in {"fetch", "remote"}
                                   /\ thread[s].key = thread[w].key /\ User(s) # User(w)
            BY <1>2, <2>2 DEF FlightInv, FlightsAreSound, WaitersAreLed
        <3> QED BY <1>1, <1>2, <2>2, <3>1
    <2> QED BY <2>1, <2>2
<1> QED BY <1>5, <1>6, <1>7 DEF FlightInv, FlightsAreSound

LEMMA FlightsFetched ==
    ASSUME TypeInv, FlightInv, NEW t \in Threads, Fetch(t)
    PROVE  FlightInv'
<1> USE DEF TypeInv
<1>1. thread[t] \in State /\ thread[t].pc = "fetch"
    BY DEF Fetch, ThreadsOK
<1>2. CASE \E out : Deliver(t, out)
    BY <1>1, <1>2, FlightsDelivered DEF Leader
<1>3. ASSUME NEW r, Move(t, r), r.pc = "remote",
             r.key = thread[t].key, r.pile = thread[t].pile
      PROVE  FlightInv'
    <2>1. \A s \in Threads : thread'[s] = IF s = t THEN r ELSE thread[s]
        BY <1>3 DEF Move, ThreadsOK
    <2> QED BY <1>1, <1>3, <2>1, FlightsKept DEF Flying
<1>4. \A copy : LET r == [thread[t] EXCEPT !.pc = "remote", !.copy = copy]
                IN  r.pc = "remote" /\ r.key = thread[t].key /\ r.pile = thread[t].pile
    BY <1>1 DEF State
<1>5. LET r == [thread[t] EXCEPT !.pc = "remote"]
      IN  r.pc = "remote" /\ r.key = thread[t].key /\ r.pile = thread[t].pile
    BY <1>1 DEF State
<1>6. \/ \E out : Deliver(t, out)
      \/ \E copy : Move(t, [thread[t] EXCEPT !.pc = "remote", !.copy = copy])
      \/ Move(t, [thread[t] EXCEPT !.pc = "remote"])
    BY DEF Fetch
<1> QED BY <1>2, <1>3, <1>4, <1>5, <1>6

LEMMA FlightInit == Init => FlightInv
<1> SUFFICES ASSUME Init PROVE FlightInv
    OBVIOUS
<1>1. \A t \in Threads : thread[t].pc = "idle"
    BY IdleFacts DEF Init
<1> QED BY <1>1 DEF FlightInv, KeysAreOwn, FlightsAreSound, SharedFetchIsUnique,
                    WaitersAreLed, Leader, Flying

LEMMA FlightStep == TypeInv /\ FlightInv /\ [Next]_vars => FlightInv'
<1> SUFFICES ASSUME TypeInv, FlightInv, [Next]_vars PROVE FlightInv'
    OBVIOUS
<1> USE DEF TypeInv
<1>1. TypeInv'
    BY TypeStep
<1>2. \A t \in Threads : thread[t] \in State /\ thread'[t] \in State
    BY <1>1 DEF ThreadsOK
\* All that a step of one other thread has to show.
<1>3. ASSUME NEW t \in Threads, NEW r, Move(t, r), thread[t].pc \notin Flying, r.pc \notin Flying
      PROVE  FlightInv'
    <2>1. \A s \in Threads : thread'[s] = IF s = t THEN r ELSE thread[s]
        BY <1>3 DEF Move, ThreadsOK
    <2> QED BY <1>3, <2>1, FlightsKept
<1>4. CASE UNCHANGED vars
    BY <1>4, FlightsStay DEF vars
<1>5. CASE Cycle
    <2>1. CASE UNCHANGED thread
        BY <2>1, FlightsStay
    <2>2. CASE PrepareTarget /\ ~(UNCHANGED thread)
        <3> DEFINE u == prep.user
                   r == [Idle EXCEPT !.pc = "enter", !.kind = "job", !.pile = prep.pile,
                                     !.copy = Prepared(u, prep.row).row]
        <3>1. ~Busy(<<u, "job">>) /\ Move(<<u, "job">>, r)
            BY <2>2 DEF PrepareTarget, Move
        <3>2. r.pc = "enter"
            BY DEF Idle
        <3>3. <<u, "job">> \in Threads
            BY <2>2, TargetFacts, ThreadPairs DEF PrepareTarget
        <3> HIDE DEF r
        <3> QED BY <1>3, <3>1, <3>2, <3>3 DEF Busy, Flying
    <2> QED BY <1>5, <2>1, <2>2 DEF Cycle, StartCycle, LoadTarget
<1>6. ASSUME NEW t \in Threads, Enter(t) \/ Merge(t)
      PROVE  FlightInv'
    <2>1. PICK r : Move(t, r) /\ r.pc \in {"lock", "apply"}
        <3> DEFINE a == [thread[t] EXCEPT !.pc = "lock"]
                   b == [thread[t] EXCEPT !.pc = "apply", !.out = "notEnabled"]
                   c == [thread[t] EXCEPT !.pc = "apply"]
        <3>1. a.pc = "lock" /\ b.pc = "apply" /\ c.pc = "apply"
            BY <1>2 DEF State
        <3>2. Move(t, a) \/ Move(t, b) \/ Move(t, c)
            BY <1>6 DEF Enter, Merge
        <3> HIDE DEF a, b, c
        <3> QED BY <3>1, <3>2
    <2>2. thread[t].pc \in {"enter", "merge"}
        BY <1>6 DEF Enter, Merge
    <2> QED BY <1>3, <2>1, <2>2 DEF Flying
<1>7. ASSUME NEW t \in Threads, Lock(t) \/ Fetch(t) \/ Answer(t)
      PROVE  FlightInv'
    <2>1. CASE Answer(t)
        BY <2>1, FlightsDelivered DEF Answer, Leader
    <2> QED BY <1>7, <2>1, FlightsJoined, FlightsFetched
<1>8. ASSUME NEW u \in Users,
             ApplyJob(u) \/ ApplyOpening(u) \/ LoginAnswer(u)
      PROVE  FlightInv'
    <2>1. PICK t \in Threads : Move(t, Idle) /\ thread[t].pc \in {"apply", "login"}
        BY <1>8, ThreadPairs DEF ApplyJob, ApplyOpening, LoginAnswer
    <2> QED BY <1>3, <2>1, IdleFacts DEF Flying
<1>9. ASSUME NEW u \in Users, NEW p \in Piles, CreateRule(u, p)
      PROVE  FlightInv'
    <2> DEFINE r == [Idle EXCEPT !.pc = "invalidate", !.kind = "opening", !.pile = p]
    <2>1. Move(<<u, "api">>, r) /\ thread[<<u, "api">>].pc = "idle"
        BY <1>9 DEF CreateRule, Busy
    <2>2. r.pc = "invalidate" /\ <<u, "api">> \in Threads
        BY ThreadPairs DEF Idle
    <2> HIDE DEF r
    <2> QED BY <1>3, <2>1, <2>2 DEF Flying
<1>10. ASSUME NEW u \in Users, Invalidate(u)
       PROVE  FlightInv'
    <2> DEFINE t == <<u, "api">>
               r == [thread[t] EXCEPT !.pc = "enter"]
    <2>1. Move(t, r) /\ thread[t].pc = "invalidate" /\ t \in Threads
        BY <1>10, ThreadPairs DEF Invalidate
    <2>2. r.pc = "enter"
        BY <1>2, <2>1 DEF State
    <2> HIDE DEF t, r
    <2> QED BY <1>3, <2>1, <2>2 DEF Flying
<1>11. ASSUME NEW u \in Users, Login(u)
       PROVE  FlightInv'
    <2> DEFINE t == <<u, "api">>
               r == [Idle EXCEPT !.pc = "login", !.kind = "login", !.old = u \in cookieOK]
    <2>1. /\ Move(t, r) \/ UNCHANGED thread
          /\ thread[t].pc = "idle" /\ t \in Threads
        BY <1>11, ThreadPairs DEF Login, Busy
    <2>2. r.pc = "login"
        BY DEF Idle
    <2> HIDE DEF t, r
    <2> QED BY <1>3, <2>1, <2>2, FlightsStay DEF Flying
<1>12. ASSUME \/ Elapse \/ Switch
              \/ \E u \in Users : ExpireCookie(u)
              \/ \E u \in Users, p \in Piles : Cancel(u, p)
       PROVE  FlightInv'
    BY <1>12, FlightsStay DEF Elapse, Switch, ExpireCookie, Cancel
<1>13. CASE NewDay
    <2>1. \A t \in Threads : \E copy : thread'[t] = [thread[t] EXCEPT !.copy = copy]
        BY <1>13 DEF NewDay
    <2>2. ASSUME NEW t \in Threads
          PROVE  /\ thread'[t].pc = thread[t].pc /\ thread'[t].key = thread[t].key
                 /\ thread'[t].pile = thread[t].pile
        <3>1. PICK copy : thread'[t] = [thread[t] EXCEPT !.copy = copy]
            BY <2>1
        <3> QED BY <1>2, <3>1 DEF State
    <2> QED BY <2>2, FlightsKept
<1>14. CASE Restart
    <2>1. \A t \in Threads : thread'[t].pc = "idle"
        BY <1>14, IdleFacts DEF Restart
    <2> QED BY <2>1 DEF FlightInv, KeysAreOwn, FlightsAreSound, SharedFetchIsUnique,
                        WaitersAreLed, Leader, Flying
<1> QED BY <1>4, <1>5, <1>6, <1>7, <1>8, <1>9, <1>10, <1>11, <1>12, <1>13, <1>14
        DEF Next, Progress, Handle

\* A pile has one flight per key, and who waits for one waits for another user's: two
\* refreshes of one pile never duplicate the request, and no refresh waits for itself.
THEOREM FlightsStaySound == Spec => []FlightsAreSound
<1>1. Init => TypeInv /\ FlightInv
    BY InitType, FlightInit
<1>2. TypeInv /\ FlightInv /\ [Next]_vars => TypeInv' /\ FlightInv'
    BY TypeStep, FlightStep
<1>3. FlightInv => FlightsAreSound
    BY DEF FlightInv
<1> QED BY <1>1, <1>2, <1>3, PTL DEF Spec

\* A thread whose credential is due takes the mutex only to make a request of its own:
\* a flight of its key would be its own user's, and that user's mutex was free.
THEOREM DueChecksStayOwnAlways == Spec => DueChecksStayOwn
<1> DEFINE Own == \A t \in Threads :
                      thread[t].pc = "lock" /\ ~validated[User(t)][thread[t].pile] =>
                          thread'[t].pc \in {"lock", "fetch", "idle"}
<1>1. Init => TypeInv /\ FlightInv
    BY InitType, FlightInit
<1>2. TypeInv /\ FlightInv /\ [Next]_vars => TypeInv' /\ FlightInv'
    BY TypeStep, FlightStep
<1>3. TypeInv /\ FlightInv /\ [Next]_vars => [Own]_vars
    <2> SUFFICES ASSUME TypeInv, FlightInv, Next, NEW t \in Threads,
                        thread[t].pc = "lock", ~validated[User(t)][thread[t].pile]
                 PROVE  thread'[t].pc \in {"lock", "fetch", "idle"}
        OBVIOUS
    <2> USE DEF TypeInv
    <2> DEFINE u == User(t)
               p == thread[t].pile
    <2>1. CASE Lock(t)
        <3>1. Key(u, p) = <<u, p>> /\ u \in Users /\ u # Shared
            BY ThreadPairs, RefreshAssumption DEF Key
        <3>2. Leaders(Key(u, p)) = {}
            <4> SUFFICES ASSUME NEW s \in Threads, Leader(s), thread[s].key = <<u, p>> PROVE FALSE
                BY <3>1 DEF Leaders
            <4>1. User(s) = u
                BY <3>1 DEF FlightInv, KeysAreOwn, Leader, Flying
            <4> QED BY <2>1, <4>1, ThreadPairs DEF Lock, LocksOK, Leader, Holding
        <3>3. thread' = [thread EXCEPT ![t] = [thread[t] EXCEPT !.pc = "fetch", !.key = Key(u, p)]]
            BY <2>1, <3>2 DEF Lock, Move
        <3> QED BY <3>3 DEF ThreadsOK, State
    <2>2. CASE Restart
        BY <2>2, IdleFacts DEF Restart
    <2>3. CASE NewDay
        BY <2>3 DEF NewDay, ThreadsOK, State
    <2>4. CASE ~Lock(t) /\ ~Restart /\ ~NewDay
        <3>1. CASE Cycle
            <4>1. UNCHANGED thread \/ \E s \in {<<prep.user, "job">>} :
                    /\ ~Busy(s) /\ \A w \in Threads : w # s => thread'[w] = thread[w]
                BY <3>1 DEF Cycle, StartCycle, LoadTarget, PrepareTarget, ThreadsOK
            <4> QED BY <4>1 DEF Busy
        <3>2. ASSUME NEW s \in Threads, Progress(s)
              PROVE  thread'[t] = thread[t]
            <4>1. CASE Enter(s) \/ Merge(s)
                BY <4>1 DEF Enter, Merge, Move, ThreadsOK
            <4>2. CASE Fetch(s)
                BY <4>2 DEF Fetch, Move, Deliver, ThreadsOK
            <4>3. CASE Answer(s)
                BY <4>3 DEF Answer, Deliver
            <4> QED BY <3>2, <4>1, <4>2, <4>3 DEF Progress
        <3>3. ASSUME NEW s \in Threads, Lock(s)
              PROVE  thread'[t] = thread[t]
            BY <2>4, <3>3 DEF Lock, Move, ThreadsOK
        <3>4. ASSUME NEW v \in Users, ApplyJob(v) \/ Handle(v) \/ Login(v) \/ ExpireCookie(v)
              PROVE  thread'[t] = thread[t]
            <4>1. CASE ApplyJob(v) \/ ApplyOpening(v) \/ LoginAnswer(v)
                <5>1. \E s \in Threads : Move(s, Idle) /\ thread[s].pc \in {"apply", "login"}
                    BY <4>1, ThreadPairs DEF ApplyJob, ApplyOpening, LoginAnswer
                <5> QED BY <5>1 DEF Move, ThreadsOK
            <4>2. CASE Invalidate(v)
                BY <4>2 DEF Invalidate, Move, ThreadsOK
            <4>3. CASE Login(v)
                BY <4>3 DEF Login, Busy, Move, ThreadsOK
            <4>4. CASE ExpireCookie(v)
                BY <4>4 DEF ExpireCookie
            <4> QED BY <3>4, <4>1, <4>2, <4>3, <4>4 DEF Handle
        <3>5. ASSUME NEW v \in Users, NEW q \in Piles, CreateRule(v, q) \/ Cancel(v, q)
              PROVE  thread'[t] = thread[t]
            <4>1. CASE CreateRule(v, q)
                BY <4>1 DEF CreateRule, Busy, Move, ThreadsOK
            <4> QED BY <3>5, <4>1 DEF Cancel
        <3>6. CASE Elapse \/ Switch
            BY <3>6 DEF Elapse, Switch
        <3> QED BY <2>4, <3>1, <3>2, <3>3, <3>4, <3>5, <3>6 DEF Next
    <2> QED BY <2>1, <2>2, <2>3, <2>4
<1> QED BY <1>1, <1>2, <1>3, PTL DEF Spec, DueChecksStayOwn

-----------------------------------------------------------------------------
(* Validated credentials *)

\* A cookie update that waits for its answer has dropped every check of the old cookie.
LoginClears ==
    \A u \in Users : thread[<<u, "api">>].pc = "login" => \A p \in Piles : ~validated[u][p]

ValidInv == LoginClears /\ ValidationIsOwn

\* A step that validates nothing, starts no login and disproves nobody.
LEMMA ValidKept ==
    ASSUME ValidInv, proven \subseteq proven',
           \A u \in Users, p \in Piles : validated'[u][p] => validated[u][p],
           \A u \in Users : thread'[<<u, "api">>].pc = "login" => thread[<<u, "api">>].pc = "login"
    PROVE  ValidInv'
BY DEF ValidInv, LoginClears, ValidationIsOwn

\* A thread moves without becoming a login.
LEMMA NoNewLogin ==
    ASSUME ThreadsOK, NEW t \in Threads, NEW r, Move(t, r), r.pc # "login"
    PROVE  \A s \in Threads : thread'[s].pc = "login" => thread[s].pc = "login"
BY DEF Move, ThreadsOK

LEMMA ValidStep == TypeInv /\ ValidInv /\ [Next]_vars => ValidInv'
<1> SUFFICES ASSUME TypeInv, ValidInv, [Next]_vars PROVE ValidInv'
    OBVIOUS
<1> USE DEF TypeInv
<1>1. \A t \in Threads : thread[t] \in State
    BY DEF ThreadsOK
\* All that a step has to show which leaves the credentials alone.
<1>2. ASSUME UNCHANGED <<validated, proven>>,
             \A t \in Threads : thread'[t].pc = "login" => thread[t].pc = "login"
      PROVE  ValidInv'
    BY <1>2, ThreadPairs, ValidKept
<1>3. ASSUME NEW t \in Threads, NEW r, Move(t, r), r.pc # "login", UNCHANGED <<validated, proven>>
      PROVE  ValidInv'
    BY <1>2, <1>3, NoNewLogin
<1>4. CASE UNCHANGED vars
    BY <1>2, <1>4 DEF vars, coordinator, history
<1>5. CASE Cycle
    <2>1. UNCHANGED <<validated, proven>>
        BY <1>5 DEF Cycle, StartCycle, LoadTarget, PrepareTarget, coordinator, history
    <2>2. CASE UNCHANGED thread
        BY <1>2, <2>1, <2>2
    <2>3. CASE PrepareTarget /\ ~(UNCHANGED thread)
        <3> DEFINE r == [Idle EXCEPT !.pc = "enter", !.kind = "job", !.pile = prep.pile,
                                     !.copy = Prepared(prep.user, prep.row).row]
        <3>1. Move(<<prep.user, "job">>, r) /\ <<prep.user, "job">> \in Threads
            BY <2>3, TargetFacts, ThreadPairs DEF PrepareTarget, Move
        <3>2. r.pc = "enter"
            BY DEF Idle
        <3> HIDE DEF r
        <3> QED BY <1>3, <2>1, <3>1, <3>2
    <2> QED BY <1>5, <2>2, <2>3 DEF Cycle, StartCycle, LoadTarget
<1>6. ASSUME NEW t \in Threads, Enter(t) \/ Lock(t) \/ Fetch(t) \/ Merge(t)
      PROVE  ValidInv'
    <2>1. UNCHANGED <<validated, proven>>
        BY <1>6 DEF Enter, Lock, Fetch, Merge, coordinator, history
    <2>2. \A s \in Threads : thread'[s].pc = "login" => thread[s].pc = "login"
        <3>1. CASE Enter(t)
            BY <1>1, <3>1 DEF Enter, Move, ThreadsOK, State
        <3>2. CASE Lock(t)
            <4>1. thread'[t].pc \in {"merge", "wait", "fetch"}
                BY <1>1, <3>2 DEF Lock, Move, ThreadsOK, State
            <4>2. \A s \in Threads : s # t => thread'[s] = thread[s]
                BY <3>2 DEF Lock, Move, ThreadsOK
            <4> QED BY <4>1, <4>2
        <3>3. CASE Fetch(t)
            <4>1. CASE \E out : Deliver(t, out)
                <5>1. PICK out : Deliver(t, out)
                    BY <4>1
                <5> QED BY <5>1, Delivered
            <4>2. CASE \E copy : Move(t, [thread[t] EXCEPT !.pc = "remote", !.copy = copy])
                BY <1>1, <4>2 DEF Move, ThreadsOK, State
            <4>3. CASE Move(t, [thread[t] EXCEPT !.pc = "remote"])
                BY <1>1, <4>3 DEF Move, ThreadsOK, State
            <4> QED BY <3>3, <4>1, <4>2, <4>3 DEF Fetch
        <3>4. CASE Merge(t)
            BY <1>1, <3>4 DEF Merge, Move, ThreadsOK, State
        <3> QED BY <1>6, <3>1, <3>2, <3>3, <3>4
    <2> QED BY <1>2, <2>1, <2>2
<1>7. ASSUME NEW t \in Threads, Answer(t)
      PROVE  ValidInv'
    <2> DEFINE u == User(t)
               p == thread[t].pile
    <2>1. u \in Users /\ p \in Piles /\ thread[t].pc = "remote"
        BY <1>7, ThreadPairs DEF Answer, ThreadsOK, KindOK
    <2>2. \A s \in Threads : thread'[s].pc = "login" => thread[s].pc = "login"
        <3>1. PICK out : Deliver(t, out)
            BY <1>7 DEF Answer
        <3> QED BY <3>1, Delivered
    <2>3. CASE UNCHANGED <<coordinator, proven>>
        BY <1>2, <2>2, <2>3 DEF coordinator
    <2>4. CASE /\ validated' = [validated EXCEPT ![u] = [@ EXCEPT ![p] = TRUE]]
               /\ proven' = proven \cup {u}
        <3>1. thread[<<u, "api">>].pc # "login"
            <4>1. <<u, "api">> \in Threads /\ User(<<u, "api">>) = u
                BY <2>1, ThreadPairs
            <4> QED BY <2>1, <4>1, OneHolder DEF Holding
        <3>2. /\ \A v \in Users, q \in Piles : v # u => validated'[v][q] = validated[v][q]
              /\ u \in proven' /\ proven \subseteq proven'
            <4>1. \A v \in Users : v # u => validated'[v] = validated[v]
                BY <2>4 DEF DataOK
            <4> QED BY <2>4, <4>1
        <3>3. LoginClears'
            BY <2>2, <3>1, <3>2, ThreadPairs DEF ValidInv, LoginClears
        <3>4. ValidationIsOwn'
            BY <3>2 DEF ValidInv, ValidationIsOwn
        <3> QED BY <3>3, <3>4 DEF ValidInv
    <2> QED BY <1>7, <2>3, <2>4 DEF Answer
<1>8. ASSUME NEW u \in Users, ApplyJob(u) \/ ApplyOpening(u)
      PROVE  ValidInv'
    <2>1. UNCHANGED <<validated, proven>>
        BY <1>8 DEF ApplyJob, ApplyOpening, coordinator
    <2>2. \E t \in Threads : Move(t, Idle)
        BY <1>8, ThreadPairs DEF ApplyJob, ApplyOpening
    <2> QED BY <1>3, <2>1, <2>2, IdleFacts
<1>9. ASSUME NEW u \in Users, NEW p \in Piles, CreateRule(u, p)
      PROVE  ValidInv'
    <2> DEFINE r == [Idle EXCEPT !.pc = "invalidate", !.kind = "opening", !.pile = p]
    <2>1. Move(<<u, "api">>, r) /\ UNCHANGED <<validated, proven>>
        BY <1>9 DEF CreateRule, coordinator, history
    <2>2. r.pc = "invalidate" /\ <<u, "api">> \in Threads
        BY ThreadPairs DEF Idle
    <2> HIDE DEF r
    <2> QED BY <1>3, <2>1, <2>2
<1>10. ASSUME NEW u \in Users, Invalidate(u)
       PROVE  ValidInv'
    <2> DEFINE t == <<u, "api">>
               q == thread[t].pile
               r == [thread[t] EXCEPT !.pc = "enter"]
    <2>1. Move(t, r) /\ t \in Threads
        BY <1>10, ThreadPairs DEF Invalidate
    <2>2. r.pc = "enter"
        BY <1>1, <2>1 DEF State
    <2>3. /\ UNCHANGED proven
          /\ validated' = [validated EXCEPT ![u] = [@ EXCEPT ![q] = FALSE]]
        BY <1>10 DEF Invalidate, history
    <2>4. \A v \in Users, p \in Piles : validated'[v][p] => validated[v][p]
        BY <2>3 DEF DataOK
    <2> HIDE DEF t, r, q
    <2>5. \A s \in Threads : thread'[s].pc = "login" => thread[s].pc = "login"
        BY <2>1, <2>2, NoNewLogin
    <2> QED BY <2>3, <2>4, <2>5, ThreadPairs, ValidKept
<1>11. ASSUME NEW u \in Users, Login(u)
       PROVE  ValidInv'
    <2>1. /\ validated' = [validated EXCEPT ![u] = [p \in Piles |-> FALSE]]
          /\ proven' = proven \ {u}
          /\ UNCHANGED thread \/ \E r : Move(<<u, "api">>, r)
        BY <1>11 DEF Login, ClearValidation
    <2>2. \A v \in Users : v # u => thread'[<<v, "api">>] = thread[<<v, "api">>]
        BY <2>1, ThreadPairs DEF Move, ThreadsOK
    <2>3. \A p \in Piles : ~validated'[u][p]
        BY <2>1 DEF DataOK
    <2>4. \A v \in Users : v # u => validated'[v] = validated[v] /\ (v \in proven' <=> v \in proven)
        BY <2>1 DEF DataOK
    <2> QED BY <2>2, <2>3, <2>4 DEF ValidInv, LoginClears, ValidationIsOwn
<1>12. ASSUME NEW u \in Users, LoginAnswer(u)
       PROVE  ValidInv'
    <2>1. /\ thread[<<u, "api">>].pc = "login" /\ Move(<<u, "api">>, Idle)
          /\ \/ UNCHANGED validated /\ proven' = proven \ {u}
             \/ /\ proven' = proven \cup {u}
                /\ \E row : validated' = [validated EXCEPT ![u] = row]
        BY <1>12 DEF LoginAnswer
    <2>2. \A v \in Users : thread'[<<v, "api">>].pc = "login" => thread[<<v, "api">>].pc = "login" /\ v # u
        BY <2>1, ThreadPairs, IdleFacts DEF Move, ThreadsOK
    <2>3. \A p \in Piles : ~validated[u][p]
        BY <2>1 DEF ValidInv, LoginClears
    <2>4. CASE UNCHANGED validated /\ proven' = proven \ {u}
        BY <2>2, <2>3, <2>4 DEF ValidInv, LoginClears, ValidationIsOwn
    <2>5. CASE proven' = proven \cup {u} /\ \E row : validated' = [validated EXCEPT ![u] = row]
        <3>1. \A v \in Users : v # u => validated'[v] = validated[v]
            BY <2>5 DEF DataOK
        <3> QED BY <2>2, <2>5, <3>1 DEF ValidInv, LoginClears, ValidationIsOwn
    <2> QED BY <2>1, <2>4, <2>5
<1>13. CASE Elapse
    <2>1. UNCHANGED <<proven, thread>>
        BY <1>13 DEF Elapse, history
    <2>2. \/ UNCHANGED validated
          \/ \E u \in Users, p \in Piles : validated' = [validated EXCEPT ![u] = [@ EXCEPT ![p] = FALSE]]
        BY <1>13 DEF Elapse, coordinator
    <2>3. \A v \in Users, q \in Piles : validated'[v][q] => validated[v][q]
        <3>1. ASSUME NEW u \in Users, NEW p \in Piles,
                     validated' = [validated EXCEPT ![u] = [@ EXCEPT ![p] = FALSE]]
              PROVE  \A v \in Users, q \in Piles : validated'[v][q] => validated[v][q]
            BY <3>1 DEF DataOK
        <3> QED BY <2>2, <3>1
    <2> QED BY <2>1, <2>3, ValidKept
<1>14. CASE \/ Switch
            \/ \E u \in Users : ExpireCookie(u)
            \/ \E u \in Users, p \in Piles : Cancel(u, p)
    BY <1>2, <1>14 DEF Switch, ExpireCookie, Cancel, coordinator, history
<1>15. CASE NewDay
    <2>1. \A t \in Threads : thread'[t].pc = thread[t].pc
        BY <1>1, <1>15 DEF NewDay, State
    <2> QED BY <1>2, <1>15, <2>1 DEF NewDay, coordinator
<1>16. CASE Restart
    <2>1. /\ \A t \in Threads : thread'[t].pc = "idle"
          /\ \A u \in Users, p \in Piles : ~validated'[u][p]
        BY <1>16, IdleFacts DEF Restart
    <2> QED BY <2>1, ThreadPairs DEF ValidInv, LoginClears, ValidationIsOwn
<1> QED BY <1>4, <1>5, <1>6, <1>7, <1>8, <1>9, <1>10, <1>11, <1>12, <1>13, <1>14, <1>15, <1>16
        DEF Next, Progress, Handle

\* A credential counts as checked only if the provider accepted a request of that very
\* user since the cookie last changed: no result of a shared flight or of the cache, and
\* none of a cookie that has been replaced, ever validates it.
THEOREM ValidationStaysOwn == Spec => []ValidationIsOwn
<1>1. Init => TypeInv /\ ValidInv
    <2> SUFFICES ASSUME Init PROVE ValidInv
        BY InitType
    <2>1. \A u \in Users : thread[<<u, "api">>].pc = "idle" /\ \A p \in Piles : ~validated[u][p]
        BY IdleFacts, ThreadPairs DEF Init
    <2> QED BY <2>1 DEF ValidInv, LoginClears, ValidationIsOwn
<1>2. TypeInv /\ ValidInv /\ [Next]_vars => TypeInv' /\ ValidInv'
    BY TypeStep, ValidStep
<1>3. ValidInv => ValidationIsOwn
    BY DEF ValidInv
<1> QED BY <1>1, <1>2, <1>3, PTL DEF Spec

-----------------------------------------------------------------------------
(* The day's quota *)

JobAt(u, pcs) == thread[<<u, "job">>].pc \in pcs

\* While a cycle prepares its targets no job runs: the ones of the last cycle are done
\* and its own are launched when the last target has been prepared.
CycleAlone ==
    prep # NoTarget \/ todo # {} => \A u \in Users : JobAt(u, {"idle", "enter"})

\* So the row in the hands of prepareReminderTarget lacks none of the charges stored.
PrepCovers ==
    prep # NoTarget => Charged(prep.row) >= Charged(st[prep.user][prep.pile])

\* Every scheduled request of the day is charged to a row, or its charge was lost with one.
Accounted == \A u \in Users : spent[u] <= Used(u) + forgotten[u]

QuotaInv == CycleAlone /\ PrepCovers /\ Accounted /\ QuotaHoldsUpToForgotten

LEMMA ChargedRows ==
    ASSUME DataOK
    PROVE  /\ \A u \in Users, p \in Piles : Charged(st[u][p]) \in Nat
           /\ \A u \in Users : Used(u) \in Nat
           /\ \A u \in Users : spent[u] \in Nat /\ forgotten[u] \in Nat
BY ChargedType, UsedType DEF DataOK

\* A step that charges and forgets nothing.
LEMMA UsedKept ==
    ASSUME NEW u \in Users,
           \A p \in Piles : Charged(st'[u][p]) = Charged(st[u][p])
    PROVE  Used(u)' = Used(u)
<1>1. Charges(st'[u], Piles) = Charges(st[u], Piles)
    BY SameCharges
<1> QED BY <1>1 DEF Used

\* A step that writes one row.
LEMMA UsedWritten ==
    ASSUME DataOK, NEW u \in Users, NEW p \in Piles, NEW r \in StoredRow, Write(u, p, r)
    PROVE  /\ Used(u)' = Used(u) - Charged(st[u][p]) + Charged(r)
           /\ \A v \in Users : v # u => Used(v)' = Used(v)
<1>1. /\ st' \in [Users -> [Piles -> StoredRow]]
      /\ st'[u][p] = r
      /\ \A v \in Users, q \in Piles : v # u \/ q # p => st'[v][q] = st[v][q]
    BY WriteType
<1>2. \A q \in Piles : Charged(st[u][q]) \in Nat /\ Charged(st'[u][q]) \in Nat
    BY <1>1, ChargedType DEF DataOK
<1>3. Cardinality(Charges(st'[u], Piles)) =
        Cardinality(Charges(st[u], Piles)) - Charged(st[u][p]) + Charged(st'[u][p])
    BY <1>1, <1>2, ChargesWritten
<1>4. \A v \in Users : v # u => Used(v)' = Used(v)
    BY <1>1, UsedKept
<1> QED BY <1>1, <1>3, <1>4 DEF Used

\* The jobs that are not under way stay so, or no cycle is preparing targets.
JobsCalm ==
    \/ \A u \in Users : JobAt(u, {"idle", "enter"}) => JobAt(u, {"idle", "enter"})'
    \/ prep = NoTarget /\ todo = {}

\* A step beside the cycle that spends nothing, and accounts for what it forgets.
LEMMA QuotaKept ==
    ASSUME QuotaInv, DataOK, DataOK', UNCHANGED <<prep, todo, spent>>, JobsCalm,
           \A u \in Users : /\ Used(u)' + forgotten'[u] >= Used(u) + forgotten[u]
                            /\ forgotten'[u] >= forgotten[u],
           prep # NoTarget => \A u \in Users, p \in Piles : Charged(st'[u][p]) <= Charged(st[u][p])
    PROVE  QuotaInv'
<1>1. CycleAlone'
    BY DEF QuotaInv, CycleAlone, JobsCalm
<1>2. PrepCovers'
    <2> SUFFICES ASSUME prep # NoTarget PROVE Charged(prep.row) >= Charged(st'[prep.user][prep.pile])
        BY DEF PrepCovers
    <2>1. prep.user \in Users /\ prep.pile \in Piles /\ prep.row \in Row
        BY TargetFacts
    <2>2. /\ Charged(prep.row) \in Nat /\ Charged(st[prep.user][prep.pile]) \in Nat
          /\ Charged(st'[prep.user][prep.pile]) \in Nat
        BY <2>1, ChargedType DEF DataOK, StoredRow
    <2> QED BY <2>1, <2>2 DEF QuotaInv, PrepCovers
<1>3. \A u \in Users : /\ Used(u) \in Nat /\ Used(u)' \in Nat
                       /\ spent[u] \in Nat /\ forgotten[u] \in Nat /\ forgotten'[u] \in Nat
    <2>1. \A u \in Users : Used(u)' \in Nat
        <3>1. \A u \in Users, p \in Piles : Charged(st'[u][p]) \in Nat
            BY ChargedType DEF DataOK
        <3> QED BY <3>1, ChargesFinite DEF Used
    <2> QED BY <2>1, ChargedRows DEF DataOK
<1>4. Accounted'
    BY <1>3 DEF QuotaInv, Accounted
<1>5. QuotaHoldsUpToForgotten'
    BY <1>3, RefreshAssumption DEF QuotaInv, QuotaHoldsUpToForgotten
<1> QED BY <1>1, <1>2, <1>4, <1>5 DEF QuotaInv

\* In particular one that leaves every row's charges alone.
LEMMA QuotaUnmoved ==
    ASSUME QuotaInv, DataOK, DataOK', UNCHANGED <<prep, todo, spent, forgotten>>, JobsCalm,
           \A u \in Users, p \in Piles : Charged(st'[u][p]) = Charged(st[u][p])
    PROVE  QuotaInv'
<1>1. \A u \in Users : Used(u)' = Used(u) /\ Used(u) \in Nat /\ forgotten[u] \in Nat
    BY UsedKept, ChargedRows
<1>2. \A u \in Users, p \in Piles : Charged(st[u][p]) \in Nat
    BY ChargedRows
<1> QED BY <1>1, <1>2, QuotaKept

\* And one that writes a row and forgets what that costs.
LEMMA QuotaWritten ==
    ASSUME QuotaInv, DataOK, DataOK', UNCHANGED <<prep, todo, spent>>, JobsCalm,
           NEW u \in Users, NEW p \in Piles, NEW r \in StoredRow, Write(u, p, r),
           Forget(u, Charged(st[u][p]) - Charged(r)),
           prep = NoTarget \/ Charged(r) <= Charged(st[u][p])
    PROVE  QuotaInv'
<1>1. /\ \A v \in Users, q \in Piles : Charged(st[v][q]) \in Nat
      /\ \A v \in Users : Used(v) \in Nat /\ forgotten[v] \in Nat
      /\ Charged(r) \in Nat
    BY ChargedRows, ChargedType
<1>2. /\ Used(u)' = Used(u) - Charged(st[u][p]) + Charged(r)
      /\ \A v \in Users : v # u => Used(v)' = Used(v)
    BY UsedWritten
<1>3. /\ forgotten'[u] >= forgotten[u]
      /\ forgotten'[u] >= forgotten[u] + Charged(st[u][p]) - Charged(r)
      /\ \A v \in Users : v # u => forgotten'[v] = forgotten[v]
    BY <1>1, ForgetType DEF DataOK
<1>4. \A v \in Users : /\ Used(v)' + forgotten'[v] >= Used(v) + forgotten[v]
                       /\ forgotten'[v] >= forgotten[v]
    <2>1. forgotten'[u] \in Nat
        BY DEF DataOK
    <2> QED BY <1>1, <1>2, <1>3, <2>1
<1>5. prep # NoTarget => \A v \in Users, q \in Piles : Charged(st'[v][q]) <= Charged(st[v][q])
    BY <1>1, WriteType
<1> QED BY <1>4, <1>5, QuotaKept

\* A thread that is not a job between cycles leaves the jobs calm.
LEMMA CalmMove ==
    ASSUME ThreadsOK, QuotaInv, NEW t \in Threads, NEW r, Move(t, r),
           t[2] = "job" => \/ thread[t].pc \notin {"idle", "enter"}
                           \/ r.pc \in {"idle", "enter"}
                           \/ prep = NoTarget /\ todo = {}
    PROVE  JobsCalm
<1>1. \A s \in Threads : thread'[s] = IF s = t THEN r ELSE thread[s]
    BY DEF Move, ThreadsOK
<1> QED BY <1>1, ThreadPairs DEF JobsCalm, JobAt

LEMMA CalmDeliver ==
    ASSUME ThreadsOK, NEW t \in Threads, NEW out, Deliver(t, out), Leader(t)
    PROVE  JobsCalm
<1>1. \A s \in Threads : thread'[s] = thread[s] \/ thread[s].pc \in {"wait", "fetch", "remote"}
    BY DEF Deliver, Leader
<1> QED BY <1>1, ThreadPairs DEF JobsCalm, JobAt

LEMMA CalmStill ==
    ASSUME UNCHANGED thread
    PROVE  JobsCalm
BY DEF JobsCalm, JobAt

LEMMA CycleQuota ==
    ASSUME TypeInv, TypeInv', QuotaInv, Cycle
    PROVE  QuotaInv'
<1> USE DEF TypeInv
<1>1. /\ \A u \in Users, p \in Piles : Charged(st[u][p]) \in Nat
      /\ \A u \in Users : Used(u) \in Nat /\ spent[u] \in Nat /\ forgotten[u] \in Nat
    BY ChargedRows
<1>2. CASE StartCycle
    <2>1. /\ \A u \in Users : JobAt(u, {"idle", "enter"})'
          /\ prep' = NoTarget /\ UNCHANGED spent
        BY <1>2 DEF StartCycle, JobAt, Busy
    <2>2. ASSUME NEW u \in Users
          PROVE  forgotten'[u] >= forgotten[u] /\ forgotten'[u] \in Nat
                 /\ Used(u)' + forgotten'[u] = Used(u) + forgotten[u] /\ Used(u)' \in Nat
        <3> DEFINE kept == rule[u]
                   lost == Charges(st[u], Piles \ kept)
        <3>1. /\ st'[u] = [p \in Piles |-> IF p \in kept THEN st[u][p] ELSE Absent]
              /\ forgotten'[u] = forgotten[u] + Cardinality(lost)
              /\ kept \in SUBSET Piles /\ Piles \ kept \in SUBSET Piles
            BY <1>2 DEF StartCycle, DataOK
        <3>2. Cardinality(lost) \in Nat /\ Cardinality(Charges(st[u], kept)) \in Nat
            BY <1>1, <3>1, ChargesFinite
        <3>3. Cardinality(Charges(st[u], Piles)) =
                Cardinality(Charges(st[u], kept)) + Cardinality(lost)
            BY <1>1, <3>1, ChargesApart
        <3>4. \A p \in Piles : Charged(st'[u][p]) = IF p \in kept THEN Charged(st[u][p]) ELSE 0
            BY <3>1, RowFacts
        <3>5. Charges(st'[u], kept) = Charges(st[u], kept)
            BY <3>1, <3>4, SameCharges
        <3>6. Charges(st'[u], Piles) = Charges(st'[u], kept)
            BY <3>1, <3>4 DEF Charges
        <3>7. Cardinality(Charges(st'[u], Piles)) = Cardinality(Charges(st[u], kept))
            BY <3>5, <3>6, Zenon
        <3> HIDE DEF lost, kept
        <3> QED BY <1>1, <3>1, <3>2, <3>3, <3>7 DEF Used
    <2>3. CycleAlone' /\ PrepCovers'
        BY <2>1 DEF CycleAlone, PrepCovers, JobAt
    <2>4. Accounted'
        BY <1>1, <2>1, <2>2 DEF QuotaInv, Accounted
    <2>5. QuotaHoldsUpToForgotten'
        BY <1>1, <2>1, <2>2, RefreshAssumption DEF QuotaInv, QuotaHoldsUpToForgotten
    <2> QED BY <2>3, <2>4, <2>5 DEF QuotaInv
<1>3. ASSUME NEW u \in Users, NEW p \in Piles, LoadTarget(u, p)
      PROVE  QuotaInv'
    <2>1. /\ prep = NoTarget /\ todo # {}
          /\ prep' = [user |-> u, pile |-> p, row |-> IF Present(u, p) THEN st[u][p] ELSE NewRow]
          /\ UNCHANGED <<thread, st, todo, spent, forgotten>>
        BY <1>3 DEF LoadTarget, history
    <2>2. CycleAlone'
        BY <2>1 DEF QuotaInv, CycleAlone, JobAt
    <2>3. PrepCovers'
        BY <1>1, <2>1, RowFacts DEF PrepCovers, Present
    <2> QED BY <2>1, <2>2, <2>3 DEF QuotaInv, Accounted, QuotaHoldsUpToForgotten, Used
<1>4. CASE PrepareTarget
    <2> DEFINE row == Prepared(prep.user, prep.row).row
    <2>0. PICK u \in Users, p \in Piles : u = prep.user /\ p = prep.pile
        BY <1>4, TargetFacts DEF PrepareTarget
    <2>1. prep.row \in Row
        BY <1>4, TargetFacts DEF PrepareTarget
    <2>2. row \in StoredRow /\ Charged(row) = Charged(prep.row) /\ Charged(row) \in Nat
        BY <2>1, PreparedFacts, ChargedType DEF StoredRow
    <2>3. /\ prep # NoTarget /\ prep' = NoTarget /\ todo' \subseteq todo
          /\ UNCHANGED <<spent, forgotten>>
          /\ UNCHANGED st \/ Write(u, p, row)
        BY <1>4, <2>0 DEF PrepareTarget, history
    <2>4. \A v \in Users : thread'[<<v, "job">>].pc \in {"idle", "enter"}
        <3>1. \A v \in Users : thread[<<v, "job">>].pc \in {"idle", "enter"}
            BY <2>3 DEF QuotaInv, CycleAlone, JobAt
        <3> DEFINE r == [Idle EXCEPT !.pc = "enter", !.kind = "job", !.pile = p, !.copy = row]
        <3>2. r.pc = "enter"
            BY DEF Idle
        <3>3. UNCHANGED thread \/ thread' = [thread EXCEPT ![<<u, "job">>] = r]
            BY <1>4, <2>0 DEF PrepareTarget
        <3> HIDE DEF r
        <3>4. \A s \in Threads : thread'[s] = thread[s] \/ thread'[s] = r
            BY <3>3 DEF ThreadsOK
        <3> QED BY <3>1, <3>2, <3>4, ThreadPairs
    <2>5. CycleAlone' /\ PrepCovers'
        BY <2>3, <2>4 DEF CycleAlone, PrepCovers, JobAt
    <2> HIDE DEF row
    <2>6. \A v \in Users : Used(v)' >= Used(v)
        <3>1. CASE UNCHANGED st
            BY <1>1, <3>1, UsedKept
        <3>2. CASE Write(u, p, row)
            <4>1. /\ Used(u)' = Used(u) - Charged(st[u][p]) + Charged(row)
                  /\ \A v \in Users : v # u => Used(v)' = Used(v)
                BY <2>0, <2>2, <3>2, UsedWritten
            <4>2. Charged(prep.row) >= Charged(st[u][p])
                BY <2>0, <2>3 DEF QuotaInv, PrepCovers
            <4> QED BY <1>1, <2>0, <2>2, <4>1, <4>2
        <3> QED BY <2>3, <3>1, <3>2
    <2>7. \A v \in Users : Used(v)' \in Nat
        <3>1. \A v \in Users, q \in Piles : Charged(st'[v][q]) \in Nat
            BY ChargedType DEF DataOK
        <3> QED BY <3>1, ChargesFinite DEF Used
    <2>8. Accounted'
        BY <1>1, <2>3, <2>6, <2>7 DEF QuotaInv, Accounted
    <2>9. QuotaHoldsUpToForgotten'
        BY <2>3 DEF QuotaInv, QuotaHoldsUpToForgotten
    <2> QED BY <2>5, <2>8, <2>9 DEF QuotaInv
<1> QED BY <1>2, <1>3, <1>4 DEF Cycle

\* A scheduled request is let through below the quota, and its charge is stored.
LEMMA FetchQuota ==
    ASSUME TypeInv, TypeInv', QuotaInv, NEW t \in Threads, Fetch(t)
    PROVE  QuotaInv'
<1> USE DEF TypeInv
<1> DEFINE u == User(t)
           p == thread[t].pile
           copy == thread[t].copy
           row == Reserved(copy)
           r1 == [thread[t] EXCEPT !.pc = "remote", !.copy = row]
           r2 == [thread[t] EXCEPT !.pc = "remote"]
<1>1. thread[t] \in State /\ KindOK(t) /\ thread[t].pc = "fetch" /\ u \in Users /\ p \in Piles
    BY ThreadPairs DEF ThreadsOK, KindOK, Fetch
<1>2. UNCHANGED <<prep, todo>>
    BY DEF Fetch, cycle
<1>3. CASE UNCHANGED <<st, spent, forgotten>>
    <2>1. JobsCalm
        <3>1. (\E out : Deliver(t, out)) \/ Move(t, r1) \/ Move(t, r2)
            BY DEF Fetch
        <3>2. CASE \E out : Deliver(t, out)
            BY <1>1, <3>2, CalmDeliver DEF Leader
        <3>3. ASSUME NEW r, Move(t, r)
              PROVE  JobsCalm
            BY <1>1, <3>3, CalmMove
        <3> HIDE DEF r1, r2
        <3> QED BY <3>1, <3>2, <3>3
    <2> QED BY <1>2, <1>3, <2>1, QuotaUnmoved
<1>4. CASE /\ thread[t].kind = "job" /\ Denied(u, p) = "none" /\ Write(u, p, row)
           /\ spent' = [spent EXCEPT ![u] = @ + 1]
           /\ Forget(u, Charged(st[u][p]) - Charged(copy)) /\ Move(t, r1)
    <2>1. /\ \A v \in Users, q \in Piles : Charged(st[v][q]) \in Nat
          /\ \A v \in Users : Used(v) \in Nat /\ spent[v] \in Nat /\ forgotten[v] \in Nat
        BY ChargedRows
    <2>2. Used(u) < Quota
        BY <1>1, <1>4, <2>1, RefreshAssumption DEF Denied
    <2>3. /\ Charged(copy) \in Nat /\ row \in StoredRow /\ Charged(row) = Charged(copy) + 1
        <3>1. copy \in StoredRow
            BY <1>1 DEF State
        <3> QED BY <3>1, ChargedType, ReservedFacts DEF StoredRow
    <2>4. prep = NoTarget /\ todo = {}
        BY <1>1, <1>4, ThreadPairs DEF QuotaInv, CycleAlone, JobAt, KindOK
    <2> HIDE DEF u, p, copy, row, r1
    <2>5. /\ Used(u)' = Used(u) - Charged(st[u][p]) + Charged(row)
          /\ \A v \in Users : v # u => Used(v)' = Used(v)
        BY <1>1, <1>4, <2>3, UsedWritten
    <2>6. /\ forgotten'[u] >= forgotten[u]
          /\ forgotten'[u] >= forgotten[u] + Charged(st[u][p]) - Charged(copy)
          /\ \A v \in Users : v # u => forgotten'[v] = forgotten[v]
          /\ forgotten'[u] \in Nat
        <3>1. Charged(st[u][p]) - Charged(copy) \in Int
            BY <1>1, <2>1, <2>3
        <3> QED BY <1>1, <1>4, <2>1, <2>3, <3>1, ForgetType DEF DataOK
    <2>7. /\ spent'[u] = spent[u] + 1
          /\ \A v \in Users : v # u => spent'[v] = spent[v]
        BY <1>1, <1>4 DEF DataOK
    <2>8. CycleAlone' /\ PrepCovers'
        BY <1>2, <2>4 DEF CycleAlone, PrepCovers
    <2>9. Accounted'
        BY <1>1, <2>1, <2>3, <2>5, <2>6, <2>7 DEF QuotaInv, Accounted
    <2>10. QuotaHoldsUpToForgotten'
        BY <1>1, <2>1, <2>2, <2>6, <2>7, RefreshAssumption
        DEF QuotaInv, Accounted, QuotaHoldsUpToForgotten
    <2> QED BY <2>8, <2>9, <2>10 DEF QuotaInv
<1> QED BY <1>3, <1>4 DEF Fetch

\* What the callers of a refresh make of its result is charged or forgotten.
LEMMA ApplyQuota ==
    ASSUME TypeInv, TypeInv', QuotaInv, NEW u \in Users, ApplyJob(u) \/ ApplyOpening(u)
    PROVE  QuotaInv'
<1> USE DEF TypeInv
<1>1. PICK t \in Threads : t[1] = u /\ thread[t].pc = "apply" /\ Move(t, Idle)
                           /\ (ApplyJob(u) => t = <<u, "job">>)
                           /\ (ApplyOpening(u) => t = <<u, "api">>)
    <2>1. CASE ApplyJob(u)
        <3>1. thread[<<u, "job">>].pc = "apply" /\ Move(<<u, "job">>, Idle)
            BY <2>1 DEF ApplyJob
        <3>2. ~ApplyOpening(u)
            <4> SUFFICES ASSUME ApplyOpening(u) PROVE FALSE
                OBVIOUS
            <4>1. /\ thread[<<u, "api">>].pc = "apply" /\ Move(<<u, "api">>, Idle)
                  /\ thread[<<u, "job">>].pc = "apply" /\ Move(<<u, "job">>, Idle)
                BY <2>1 DEF ApplyOpening, ApplyJob
            <4> QED BY <4>1, ThreadPairs, IdleFacts DEF Move, ThreadsOK
        <3> QED BY <2>1, <3>1, <3>2, ThreadPairs
    <2>2. CASE ApplyOpening(u) /\ ~ApplyJob(u)
        BY <2>2, ThreadPairs DEF ApplyOpening
    <2> QED BY <2>1, <2>2
<1>2. PICK p \in Piles : p = thread[t].pile
    BY <1>1 DEF ThreadsOK, KindOK
<1>3. thread[t] \in State /\ st[u][p] \in StoredRow /\ Charged(st[u][p]) \in Nat
    BY ChargedType DEF ThreadsOK, DataOK
<1>4. UNCHANGED <<prep, todo, spent>>
    BY DEF ApplyJob, ApplyOpening, cycle
<1>5. JobsCalm
    BY <1>1, CalmMove
\* All that a step has to show which writes the row and forgets what that costs.
<1>6. ASSUME NEW r \in StoredRow, Write(u, p, r), Forget(u, Charged(st[u][p]) - Charged(r)),
             prep = NoTarget \/ Charged(r) <= Charged(st[u][p])
      PROVE  QuotaInv'
    BY <1>4, <1>5, <1>6, QuotaWritten
<1>7. ASSUME NEW r \in StoredRow, Write(u, p, r), Forget(u, Charged(st[u][p])), Charged(r) = 0
      PROVE  QuotaInv'
    <2>1. Charged(st[u][p]) - Charged(r) = Charged(st[u][p])
        BY <1>3, <1>7
    <2>2. Forget(u, Charged(st[u][p]) - Charged(r))
        BY <1>7, <2>1, Zenon
    <2> QED BY <1>3, <1>6, <1>7, <2>2
\* All that a step has to show which keeps the charges.
<1>8. ASSUME \A v \in Users, q \in Piles : Charged(st'[v][q]) = Charged(st[v][q]),
             UNCHANGED forgotten
      PROVE  QuotaInv'
    BY <1>4, <1>5, <1>8, QuotaUnmoved
<1>9. CASE ApplyJob(u)
    <2> DEFINE row == Outcome(u, thread[t].copy, thread[t].out)
    <2>1. t = <<u, "job">> /\ p = thread[<<u, "job">>].pile
        BY <1>1, <1>2, <1>9
    <2>2. \/ ExpireCredential(u) /\ UNCHANGED forgotten
          \/ Write(u, p, Absent) /\ Forget(u, Charged(st[u][p]))
          \/ Write(u, p, row) /\ Forget(u, Charged(st[u][p]) - Charged(row))
        BY <1>9, <2>1 DEF ApplyJob
    <2>3. prep = NoTarget
        BY <1>1, <2>1 DEF QuotaInv, CycleAlone, JobAt
    <2>4. row \in StoredRow
        <3>1. thread[t].copy \in StoredRow
            BY <1>3 DEF State
        <3> QED BY <3>1, OutcomeFacts DEF StoredRow
    <2> HIDE DEF row
    <2>5. CASE ExpireCredential(u) /\ UNCHANGED forgotten
        BY <1>8, <2>5, CredentialType
    <2> QED BY <1>6, <1>7, <2>2, <2>3, <2>4, <2>5, RowFacts
<1>10. CASE ApplyOpening(u)
    <2> DEFINE late == [st[u][p] EXCEPT !.due = FALSE]
               retry == Paused(NewRow, "backoff", FALSE)
    <2>1. p = thread[<<u, "api">>].pile
        BY <1>1, <1>2, <1>10
    <2>2. \/ UNCHANGED <<st, forgotten>>
          \/ Write(u, p, Absent) /\ Forget(u, Charged(st[u][p]))
          \/ Present(u, p) /\ Write(u, p, late) /\ UNCHANGED forgotten
          \/ Write(u, p, retry) /\ Forget(u, Charged(st[u][p]))
        BY <1>10, <2>1 DEF ApplyOpening
    <2>3. retry \in StoredRow /\ Charged(retry) = 0
        BY PausedFacts, RowFacts DEF StoredRow, Pauses
    <2>4. CASE Present(u, p) /\ Write(u, p, late) /\ UNCHANGED forgotten
        <3>1. late \in StoredRow /\ Charged(late) = Charged(st[u][p])
            <4>1. st[u][p] # Absent
                BY <2>4 DEF Present
            <4> QED BY <1>3, <4>1, DueFacts DEF StoredRow
        <3> HIDE DEF late
        <3>2. st'[u][p] = late /\ \A v \in Users, q \in Piles : v # u \/ q # p => st'[v][q] = st[v][q]
            BY <2>4, <3>1, WriteType
        <3> QED BY <1>8, <2>4, <3>1, <3>2
    <2>5. CASE UNCHANGED <<st, forgotten>>
        BY <1>8, <2>5
    <2> HIDE DEF late, retry
    <2> QED BY <1>7, <2>2, <2>3, <2>4, <2>5, RowFacts
<1> QED BY <1>9, <1>10

LEMMA QuotaStep == TypeInv /\ TypeInv' /\ QuotaInv /\ [Next]_vars => QuotaInv'
<1> SUFFICES ASSUME TypeInv, TypeInv', QuotaInv, [Next]_vars PROVE QuotaInv'
    OBVIOUS
<1> USE DEF TypeInv
<1>1. /\ \A u \in Users, p \in Piles : st[u][p] \in StoredRow /\ Charged(st[u][p]) \in Nat
      /\ \A u \in Users : Used(u) \in Nat /\ spent[u] \in Nat /\ forgotten[u] \in Nat
    BY ChargedRows DEF DataOK
<1>2. \A t \in Threads : thread[t] \in State /\ KindOK(t)
    BY DEF ThreadsOK
\* All that a step has to show which leaves the table, the cycle and the jobs alone.
<1>3. ASSUME UNCHANGED <<st, prep, todo, spent, forgotten>>, JobsCalm
      PROVE  QuotaInv'
    BY <1>3, QuotaUnmoved
<1>4. CASE UNCHANGED vars
    BY <1>3, <1>4, CalmStill DEF vars, cycle, history
<1>5. ASSUME NEW t \in Threads, Enter(t) \/ Lock(t)
      PROVE  QuotaInv'
    <2>1. UNCHANGED <<st, prep, todo, spent, forgotten>>
        BY <1>5 DEF Enter, Lock, cycle, history
    <2>2. t[2] = "job" => thread[t].pc = "lock" \/ (prep = NoTarget /\ todo = {})
        BY <1>2, <1>5 DEF Enter, Lock, KindOK
    <2>3. \E r : Move(t, r)
        BY <1>5 DEF Enter, Lock
    <2> QED BY <1>3, <2>1, <2>2, <2>3, CalmMove
<1>6. ASSUME NEW t \in Threads, Answer(t)
      PROVE  QuotaInv'
    <2>1. UNCHANGED <<st, prep, todo, spent, forgotten>>
        BY <1>6 DEF Answer, cycle
    <2>2. Leader(t) /\ \E out : Deliver(t, out)
        BY <1>6 DEF Answer, Leader
    <2> QED BY <1>3, <2>1, <2>2, CalmDeliver
<1>7. ASSUME NEW t \in Threads, Merge(t)
      PROVE  QuotaInv'
    <2>1. PICK u \in Users, p \in Piles : u = User(t) /\ p = thread[t].pile
        BY <1>2, <1>7, ThreadPairs DEF Merge, KindOK
    <2>2. /\ UNCHANGED <<prep, todo, spent, forgotten>>
          /\ UNCHANGED st \/ (~Present(u, p) /\ Write(u, p, NewRow))
          /\ thread[t].pc = "merge" /\ \E r : Move(t, r)
        BY <1>7, <2>1 DEF Merge, cycle, history
    <2>3. JobsCalm
        BY <2>2, CalmMove
    <2>4. CASE UNCHANGED st
        BY <1>3, <2>2, <2>3, <2>4
    <2>5. CASE ~Present(u, p) /\ Write(u, p, NewRow)
        <3>1. /\ st'[u][p] = NewRow /\ st[u][p] = Absent
              /\ \A v \in Users, q \in Piles : v # u \/ q # p => st'[v][q] = st[v][q]
            BY <2>5, WriteType, RowFacts DEF Present, StoredRow
        <3>2. \A v \in Users, q \in Piles : Charged(st'[v][q]) = Charged(st[v][q])
            BY <3>1, RowFacts
        <3> QED BY <2>2, <2>3, <3>2, QuotaUnmoved
    <2> QED BY <2>2, <2>4, <2>5
<1>8. ASSUME NEW u \in Users, NEW p \in Piles, CreateRule(u, p)
      PROVE  QuotaInv'
    <2>1. UNCHANGED <<st, prep, todo, spent, forgotten>>
        BY <1>8 DEF CreateRule, cycle, history
    <2>2. <<u, "api">> \in Threads /\ \E r : Move(<<u, "api">>, r)
        BY <1>8, ThreadPairs DEF CreateRule
    <2> QED BY <1>3, <2>1, <2>2, CalmMove
<1>9. ASSUME NEW u \in Users, Invalidate(u) \/ Login(u)
      PROVE  QuotaInv'
    <2>1. UNCHANGED <<st, prep, todo, spent, forgotten>>
        BY <1>9 DEF Invalidate, Login, cycle, history
    <2>2. <<u, "api">> \in Threads /\ (UNCHANGED thread \/ \E r : Move(<<u, "api">>, r))
        BY <1>9, ThreadPairs DEF Invalidate, Login
    <2> QED BY <1>3, <2>1, <2>2, CalmMove, CalmStill
<1>10. ASSUME NEW u \in Users, LoginAnswer(u)
       PROVE  QuotaInv'
    <2>1. UNCHANGED <<prep, todo, spent, forgotten>>
        BY <1>10 DEF LoginAnswer, cycle
    <2>2. \A v \in Users, q \in Piles : Charged(st'[v][q]) = Charged(st[v][q])
        <3>1. ExpireCredential(u) \/ ResolveCredential(u) \/ UNCHANGED st
            BY <1>10 DEF LoginAnswer
        <3> QED BY <3>1, CredentialType
    <2>3. <<u, "api">> \in Threads /\ \E r : Move(<<u, "api">>, r)
        BY <1>10, ThreadPairs DEF LoginAnswer
    <2>4. JobsCalm
        BY <2>3, CalmMove
    <2> QED BY <2>1, <2>2, <2>4, QuotaUnmoved
<1>11. ASSUME NEW u \in Users, NEW p \in Piles, Cancel(u, p)
       PROVE  QuotaInv'
    <2>1. UNCHANGED <<prep, todo, spent, thread>>
        BY <1>11 DEF Cancel, cycle
    <2>2. JobsCalm
        BY <2>1, CalmStill
    <2>3. CASE Write(u, p, Absent) /\ Forget(u, Charged(st[u][p]))
        <3>1. Charged(st[u][p]) - Charged(Absent) = Charged(st[u][p])
            BY <1>1, RowFacts
        <3>2. Forget(u, Charged(st[u][p]) - Charged(Absent))
            BY <2>3, <3>1, Zenon
        <3> QED BY <1>1, <2>1, <2>2, <2>3, <3>2, RowFacts, QuotaWritten
    <2> QED BY <1>3, <1>11, <2>1, <2>2, <2>3 DEF Cancel
<1>12. CASE Elapse
    <2>1. UNCHANGED <<prep, todo, spent, forgotten, thread>>
        BY <1>12 DEF Elapse, cycle, history
    <2>2. JobsCalm
        BY <2>1, CalmStill
    <2>3. CASE UNCHANGED st
        BY <1>3, <2>1, <2>2, <2>3
    <2>4. ASSUME NEW u \in Users, NEW p \in Piles, Present(u, p),
                 Write(u, p, [st[u][p] EXCEPT !.due = TRUE])
          PROVE  QuotaInv'
        <3> DEFINE r == [st[u][p] EXCEPT !.due = TRUE]
        <3>1. r \in StoredRow /\ Charged(r) = Charged(st[u][p])
            <4>1. st[u][p] \in StoredRow /\ st[u][p] # Absent
                BY <1>1, <2>4 DEF Present
            <4> QED BY <4>1, DueFacts DEF StoredRow
        <3> HIDE DEF r
        <3>2. st'[u][p] = r /\ \A v \in Users, q \in Piles : v # u \/ q # p => st'[v][q] = st[v][q]
            BY <2>4, <3>1, WriteType DEF r
        <3>3. \A v \in Users, q \in Piles : Charged(st'[v][q]) = Charged(st[v][q])
            BY <3>1, <3>2
        <3> QED BY <2>1, <2>2, <3>3, QuotaUnmoved
    <2> QED BY <1>12, <2>3, <2>4 DEF Elapse
<1>13. CASE Switch \/ \E u \in Users : ExpireCookie(u)
    BY <1>3, <1>13, CalmStill DEF Switch, ExpireCookie, cycle, history
<1>14. CASE NewDay
    <2>1. /\ prep' = NoTarget /\ todo' = {}
          /\ \A u \in Users : spent'[u] = 0 /\ forgotten'[u] = 0
        BY <1>14 DEF NewDay, cycle
    <2>2. \A u \in Users : Used(u)' \in Nat
        <3>1. \A u \in Users, p \in Piles : Charged(st'[u][p]) \in Nat
            BY ChargedType DEF DataOK
        <3> QED BY <3>1, ChargesFinite DEF Used
    <2> QED BY <2>1, <2>2, RefreshAssumption
            DEF QuotaInv, CycleAlone, PrepCovers, Accounted, QuotaHoldsUpToForgotten
<1>15. CASE Restart
    <2>1. prep' = NoTarget /\ todo' = {} /\ UNCHANGED <<st, spent, forgotten>>
        BY <1>15 DEF Restart, history
    <2>2. \A u \in Users : Used(u)' = Used(u)
        BY <2>1, UsedKept
    <2> QED BY <2>1, <2>2
            DEF QuotaInv, CycleAlone, PrepCovers, Accounted, QuotaHoldsUpToForgotten
<1> QED BY <1>4, <1>5, <1>6, <1>7, <1>8, <1>9, <1>10, <1>11, <1>12, <1>13, <1>14, <1>15,
           CycleQuota, FetchQuota, ApplyQuota
        DEF Next, Progress, Handle

\* Whatever the cycles, the opening checks and the waiters save from the copies they
\* hold, for any number of users, piles and threads in between: a day's scheduled
\* requests exceed a user's quota by no more than the charges that were lost with a row.
THEOREM QuotaHoldsUpToWhatIsForgotten == Spec => []QuotaHoldsUpToForgotten
<1>1. Init => TypeInv /\ QuotaInv
    <2> SUFFICES ASSUME Init, TypeInv PROVE QuotaInv
        BY InitType
    <2>1. prep = NoTarget /\ todo = {} /\ \A u \in Users : spent[u] = 0 /\ forgotten[u] = 0
        BY DEF Init
    <2>2. \A u \in Users : Used(u) \in Nat
        BY ChargedRows DEF TypeInv
    <2> QED BY <2>1, <2>2, RefreshAssumption
            DEF QuotaInv, CycleAlone, PrepCovers, Accounted, QuotaHoldsUpToForgotten
<1>2. TypeInv /\ QuotaInv /\ [Next]_vars => TypeInv' /\ QuotaInv'
    BY TypeStep, QuotaStep
<1>3. QuotaInv => QuotaHoldsUpToForgotten
    BY DEF QuotaInv
<1> QED BY <1>1, <1>2, <1>3, PTL DEF Spec
=============================================================================
