------------------------- MODULE AccountPages_proofs -------------------------
(***************************************************************************)
(* Proofs about the pages of a user's account and about the binding of     *)
(* WxPusher at the backend: for each part an inductive invariant, and then *)
(* of the behaviours that MCAccountPages composes of them.                 *)
(***************************************************************************)
EXTENDS MCAccountPages, HttpCalls_proofs

-----------------------------------------------------------------------------
(* The inductive invariant *)

Creating == {"qrcode", "store"}
Polling == {"delay", "query", "bind", "fail"}

OwnScan(u, uid) == \E s \in Sessions : session[s].user = u /\ scanned[s] = uid

\* What a request carries: a new session, an existing session, or a receiver that
\* scanned one of its user's codes.
Carrying(r) ==
    /\ request[r].pc # "idle" => request[r].user \in Users
    /\ request[r].pc \in Creating =>
          request[r].session \in Sessions /\ session[request[r].session] = NoRow
    /\ request[r].pc \in Polling =>
          request[r].session \in Sessions /\ session[request[r].session].user \in Users
    /\ request[r].pc = "bind" =>
          request[r].uid # NoUid /\ scanned[request[r].session] = request[r].uid
    /\ request[r].pc = "update" =>
          request[r].uid # NoUid /\ OwnScan(request[r].user, request[r].uid)

\* Two requests never create the same session.
Apart ==
    \A q, r \in Requests :
        /\ request[q].pc \in Creating /\ request[r].pc \in Creating
        /\ request[q].session = request[r].session
        => q = r

Carries == Apart /\ \A r \in Requests : Carrying(r)

BoundByScans == \A u \in Users : binding[u] # NoUid => OwnScan(u, binding[u])

IInv == TypeOK /\ Carries /\ BoundByScans /\ UidIsUnique /\ OneOpenSession

RequestType == [pc: Pcs, user: Users \cup {NoUser}, session: Sessions \cup {NoSession},
                uid: Uids \cup {NoUid}]

-----------------------------------------------------------------------------
(* Lemmas *)

\* Rows and requests that are blank have their shape.
LEMMA NoRowType == NoRow \in Rows
BY DEF NoRow, Rows

LEMMA IdleType == Idle \in RequestType /\ Idle.pc = "idle"
BY DEF Idle, RequestType, Pcs

\* A scan stays the user's own as long as no scan is lost and no session changes
\* hands.
LEMMA OwnScanStable ==
    ASSUME NEW u \in Users, NEW uid,
           \A s \in Sessions : scanned[s] # NoUid => scanned'[s] = scanned[s],
           \A s \in Sessions : session[s].user = u => session'[s].user = u,
           uid # NoUid, OwnScan(u, uid)
    PROVE  OwnScan(u, uid)'
BY DEF OwnScan

\* One request goes on, the others stay as they are.
LEMMA PutFacts ==
    ASSUME TypeOK, NEW r \in Requests, NEW x \in RequestType,
           request' = [request EXCEPT ![r] = x]
    PROVE  /\ request' \in [Requests -> RequestType] /\ request'[r] = x
           /\ \A q \in Requests : q # r => request'[q] = request[q]
BY DEF TypeOK, RequestType

\* A request that goes on to another point.
LEMMA GotoFacts ==
    ASSUME TypeOK, NEW r \in Requests, NEW pc \in Pcs, Goto(r, pc)
    PROVE  /\ request' \in [Requests -> RequestType]
           /\ request'[r].pc = pc /\ request'[r].user = request[r].user
           /\ request'[r].session = request[r].session /\ request'[r].uid = request[r].uid
           /\ \A q \in Requests : q # r => request'[q] = request[q]
<1>1. request[r] \in RequestType
    BY DEF TypeOK, RequestType
<1> DEFINE x == [request[r] EXCEPT !.pc = pc]
<1>2. /\ x \in RequestType /\ x.pc = pc /\ x.user = request[r].user
      /\ x.session = request[r].session /\ x.uid = request[r].uid
    BY <1>1 DEF RequestType
<1>3. request' = [request EXCEPT ![r] = x]
    BY DEF Goto
<1> HIDE DEF x
<1> QED BY <1>2, <1>3, PutFacts

\* A request that ends.
LEMMA FinishFacts ==
    ASSUME TypeOK, NEW r \in Requests, Finish(r)
    PROVE  /\ request' \in [Requests -> RequestType] /\ request'[r] = Idle
           /\ \A q \in Requests : q # r => request'[q] = request[q]
BY IdleType, PutFacts DEF Finish

\* The mutex: untouched, taken or released by request r.
Lock ==
    /\ wxPusherMu <=> \E r \in Requests : request[r].pc \in Saving
    /\ \A q, r \in Requests : request[q].pc \in Saving /\ request[r].pc \in Saving => q = r

\* The lock of the binding: who does not take it leaves it.
LEMMA LockKept ==
    ASSUME Lock, NEW r \in Requests, UNCHANGED wxPusherMu,
           request[r].pc \notin Saving, request'[r].pc \notin Saving,
           \A q \in Requests : q # r => request'[q] = request[q]
    PROVE  Lock'
<1>1. \A q \in Requests : request'[q].pc \in Saving <=> request[q].pc \in Saving
    OBVIOUS
<1> QED BY <1>1 DEF Lock

\* Who takes it holds it alone.
LEMMA LockTaken ==
    ASSUME Lock, NEW r \in Requests, ~wxPusherMu, wxPusherMu' = TRUE, request'[r].pc \in Saving,
           \A q \in Requests : q # r => request'[q] = request[q]
    PROVE  Lock'
<1>1. \A q \in Requests : request'[q].pc \in Saving => q = r
    BY DEF Lock
<1> QED BY <1>1 DEF Lock

\* Who gives it back leaves it free.
LEMMA LockReleased ==
    ASSUME Lock, NEW r \in Requests, request[r].pc \in Saving, request'[r].pc \notin Saving,
           wxPusherMu' = FALSE, \A q \in Requests : q # r => request'[q] = request[q]
    PROVE  Lock'
<1>1. \A q \in Requests : request'[q].pc \notin Saving
    BY DEF Lock
<1> QED BY <1>1 DEF Lock

\* completed_at of one session, or of one user's sessions, is set or cleared.
LEMMA SetOpenFacts ==
    ASSUME TypeOK, NEW s \in Sessions, NEW open \in BOOLEAN, SetOpen(s, open)
    PROVE  /\ session' \in [Sessions -> Rows]
           /\ \A o \in Sessions : /\ session'[o].user = session[o].user
                                  /\ o # s => session'[o] = session[o]
           /\ session'[s].open = open
BY DEF TypeOK, SetOpen, Rows

-----------------------------------------------------------------------------
(* Type correctness *)

Types ==
    /\ binding \in [Users -> Uids \cup {NoUid}]
    /\ session \in [Sessions -> Rows]
    /\ scanned \in [Sessions -> Uids \cup {NoUid}]
    /\ request \in [Requests -> RequestType]
    /\ wxPusherMu \in BOOLEAN /\ faults \in 0..MaxFaults

\* The shape of the state, apart from the lock and with it.
LEMMA TypeParts == TypeOK <=> Types /\ Lock
BY DEF TypeOK, Types, Lock, RequestType

\* A backend that starts has the shape it should have.
LEMMA TypeInit == Init => TypeOK
<1> SUFFICES ASSUME Init PROVE Types /\ Lock
    BY TypeParts
<1>1. Types
    <2>1. 0 \in 0..MaxFaults
        BY BindingAssumption
    <2>2. session \in [Sessions -> Rows] /\ request \in [Requests -> RequestType]
        BY NoRowType, IdleType DEF Init
    <2> QED BY <2>1, <2>2 DEF Init, Types
<1>2. Lock
    BY IdleType DEF Init, Lock, Saving
<1> QED BY <1>1, <1>2

\* Every step keeps it.
LEMMA TypeStep == TypeOK /\ Carries /\ [Next]_vars => TypeOK'
<1> SUFFICES ASSUME TypeOK, Carries, [Next]_vars PROVE TypeOK'
    OBVIOUS
<1>a. Types /\ Lock
    BY TypeParts
<1> SUFFICES Types' /\ Lock'
    BY TypeParts DEF TypeOK, Types, Lock, RequestType
<1>1. ASSUME NEW r \in Requests, NEW u \in Users, CheckCreate(r, u) PROVE Types' /\ Lock'
    <2>1. session' \in [Sessions -> Rows]
        <3>1. ASSUME NEW s \in Sessions
              PROVE  session[s] \in Rows /\ [session[s] EXCEPT !.open = FALSE] \in Rows
            BY <1>a DEF Types, Rows
        <3> QED BY <1>1, <3>1 DEF CheckCreate
    <2>2. CASE UNCHANGED request
        BY <2>1, <2>2, <1>1, <1>a DEF CheckCreate, Types, Lock
    <2>3. CASE request' # request
        <3>1. PICK s \in Sessions : request' = [request EXCEPT ![r] =
                    [Idle EXCEPT !.pc = "qrcode", !.user = u, !.session = s]]
            BY <1>1, <2>3 DEF CheckCreate
        <3> DEFINE x == [Idle EXCEPT !.pc = "qrcode", !.user = u, !.session = s]
        <3>2. x \in RequestType /\ x.pc = "qrcode"
            BY DEF Idle, RequestType, Pcs
        <3> HIDE DEF x
        <3>3. /\ request' \in [Requests -> RequestType] /\ request'[r].pc = "qrcode"
              /\ \A q \in Requests : q # r => request'[q] = request[q]
            BY <3>1, <3>2, PutFacts DEF x
        <3>4. Lock'
            BY <1>1, <1>a, <3>3, LockKept, IdleType DEF CheckCreate, Saving
        <3> QED BY <2>1, <3>3, <3>4, <1>1, <1>a DEF CheckCreate, Types
    <2> QED BY <2>2, <2>3
<1>2. ASSUME NEW r \in Requests, CreateQRCode(r) PROVE Types' /\ Lock'
    <2>1. /\ request' \in [Requests -> RequestType] /\ request'[r].pc \notin Saving
          /\ \A q \in Requests : q # r => request'[q] = request[q]
        BY <1>2, GotoFacts, FinishFacts, IdleType DEF CreateQRCode, Saving, Pcs
    <2>2. Lock'
        BY <1>2, <1>a, <2>1, LockKept DEF CreateQRCode, Saving
    <2>3. faults' \in 0..MaxFaults
        BY <1>2, <1>a, BindingAssumption DEF CreateQRCode, Types
    <2> QED BY <1>2, <1>a, <2>1, <2>2, <2>3 DEF CreateQRCode, Types
<1>3. ASSUME NEW r \in Requests, StoreSession(r) PROVE Types' /\ Lock'
    <2>1. /\ request' \in [Requests -> RequestType] /\ request'[r].pc \notin Saving
          /\ \A q \in Requests : q # r => request'[q] = request[q]
        BY <1>3, FinishFacts, IdleType DEF StoreSession, Saving
    <2>2. Lock'
        BY <1>3, <1>a, <2>1, LockKept DEF StoreSession, Saving
    <2>3. request[r].user \in Users
        BY <1>3, <1>a DEF StoreSession, Carries, Carrying
    <2> DEFINE row == [user |-> request[r].user, open |-> TRUE, expired |-> FALSE]
    <2>4. row \in Rows
        BY <2>3 DEF Rows
    <2>5. session' = session \/ session' = [session EXCEPT ![request[r].session] = row]
        BY <1>3 DEF StoreSession
    <2> HIDE DEF row
    <2>6. session' \in [Sessions -> Rows]
        BY <2>4, <2>5, <1>a DEF Types
    <2> QED BY <1>3, <1>a, <2>1, <2>2, <2>6 DEF StoreSession, Types
<1>4. ASSUME NEW r \in Requests, NEW u \in Users, NEW s \in Sessions, LoadSession(r, u, s)
      PROVE Types' /\ Lock'
    <2>1. CASE session[s].expired
        BY <1>4, <1>a, <2>1, SetOpenFacts DEF LoadSession, Types, Lock
    <2>2. CASE ~session[s].expired
        <3> DEFINE x == [Idle EXCEPT !.pc = "delay", !.user = u, !.session = s]
        <3>1. x \in RequestType /\ x.pc = "delay"
            BY DEF Idle, RequestType, Pcs
        <3>2. request' = [request EXCEPT ![r] = x]
            BY <1>4, <2>2 DEF LoadSession
        <3> HIDE DEF x
        <3>3. /\ request' \in [Requests -> RequestType] /\ request'[r].pc = "delay"
              /\ \A q \in Requests : q # r => request'[q] = request[q]
            BY <3>1, <3>2, PutFacts
        <3>4. Lock'
            BY <1>4, <1>a, <2>2, <3>3, LockTaken DEF LoadSession, Saving
        <3> QED BY <1>4, <1>a, <2>2, <3>3, <3>4 DEF LoadSession, Types
    <2> QED BY <2>1, <2>2
<1>5. ASSUME NEW r \in Requests, SaveDelay(r) PROVE Types' /\ Lock'
    <2>1. /\ request' \in [Requests -> RequestType] /\ request'[r].pc \notin Saving
          /\ \A q \in Requests : q # r => request'[q] = request[q]
        BY <1>5, GotoFacts, FinishFacts, IdleType DEF SaveDelay, Saving, Pcs
    <2>2. Lock'
        BY <1>5, <1>a, <2>1, LockReleased DEF SaveDelay, Saving, Release
    <2>3. session' \in [Sessions -> Rows]
        BY <1>5, <1>a, SetOpenFacts DEF SaveDelay, Carries, Carrying, Polling, Types
    <2> QED BY <1>5, <1>a, <2>1, <2>2, <2>3 DEF SaveDelay, Types, Release
<1>6. ASSUME NEW r \in Requests, QueryScanUID(r) PROVE Types' /\ Lock'
    <2>1. faults' \in 0..MaxFaults
        BY <1>6, <1>a, BindingAssumption DEF QueryScanUID, Types
    <2>2. CASE Finish(r) \/ Goto(r, "fail")
        <3>1. /\ request' \in [Requests -> RequestType] /\ request'[r].pc \notin Saving
              /\ \A q \in Requests : q # r => request'[q] = request[q]
            BY <2>2, GotoFacts, FinishFacts, IdleType DEF Saving, Pcs
        <3>2. Lock'
            BY <1>6, <1>a, <3>1, LockKept DEF QueryScanUID, Saving
        <3> QED BY <1>6, <1>a, <2>1, <3>1, <3>2 DEF QueryScanUID, Types
    <2>3. CASE ~(Finish(r) \/ Goto(r, "fail"))
        <3> DEFINE x == [request[r] EXCEPT !.pc = "bind", !.uid = scanned[request[r].session]]
        <3>1. scanned[request[r].session] \in Uids \cup {NoUid}
            BY <1>6, <1>a DEF QueryScanUID, Carries, Carrying, Polling, Types
        <3>2. x \in RequestType /\ x.pc = "bind"
            BY <1>a, <3>1 DEF Types, RequestType, Pcs
        <3>3. request' = [request EXCEPT ![r] = x]
            BY <1>6, <2>3 DEF QueryScanUID
        <3> HIDE DEF x
        <3>4. /\ request' \in [Requests -> RequestType] /\ request'[r].pc = "bind"
              /\ \A q \in Requests : q # r => request'[q] = request[q]
            BY <3>2, <3>3, PutFacts
        <3>5. Lock'
            BY <1>6, <1>a, <3>4, LockKept DEF QueryScanUID, Saving
        <3> QED BY <1>6, <1>a, <2>1, <3>4, <3>5 DEF QueryScanUID, Types
    <2> QED BY <2>2, <2>3
<1>7. ASSUME NEW r \in Requests, BindWxPusherUID(r) PROVE Types' /\ Lock'
    <2>1. /\ request' \in [Requests -> RequestType] /\ request'[r].pc \notin Saving
          /\ \A q \in Requests : q # r => request'[q] = request[q]
        BY <1>7, GotoFacts, FinishFacts, IdleType DEF BindWxPusherUID, Saving, Pcs
    <2>2. Lock'
        BY <1>7, <1>a, <2>1, LockKept DEF BindWxPusherUID, Saving
    <2>3. request[r].session \in Sessions /\ request[r].uid \in Uids \cup {NoUid}
        BY <1>7, <1>a DEF BindWxPusherUID, Carries, Carrying, Polling, Types, RequestType
    <2>4. session' \in [Sessions -> Rows]
        BY <1>7, <1>a, <2>3, SetOpenFacts DEF BindWxPusherUID, Types
    <2>5. binding' \in [Users -> Uids \cup {NoUid}]
        BY <1>7, <1>a, <2>3 DEF BindWxPusherUID, Types
    <2> QED BY <1>7, <1>a, <2>1, <2>2, <2>4, <2>5 DEF BindWxPusherUID, Types
<1>8. ASSUME NEW r \in Requests, FailSession(r) PROVE Types' /\ Lock'
    <2>1. /\ request' \in [Requests -> RequestType] /\ request'[r].pc \notin Saving
          /\ \A q \in Requests : q # r => request'[q] = request[q]
        BY <1>8, FinishFacts, IdleType DEF FailSession, Saving
    <2>2. Lock'
        BY <1>8, <1>a, <2>1, LockKept DEF FailSession, Saving
    <2>3. session' \in [Sessions -> Rows]
        BY <1>8, <1>a, SetOpenFacts DEF FailSession, Carries, Carrying, Polling, Types
    <2> QED BY <1>8, <1>a, <2>1, <2>2, <2>3 DEF FailSession, Types
<1>9. ASSUME NEW r \in Requests, NEW u \in Users, LoadBinding(r, u) PROVE Types' /\ Lock'
    <2> DEFINE x == [Idle EXCEPT !.pc = "update", !.user = u, !.uid = binding[u]]
    <2>1. x \in RequestType /\ x.pc = "update"
        BY <1>a DEF Idle, RequestType, Pcs, Types
    <2>2. request' = [request EXCEPT ![r] = x]
        BY <1>9 DEF LoadBinding
    <2> HIDE DEF x
    <2>3. /\ request' \in [Requests -> RequestType] /\ request'[r].pc = "update"
          /\ \A q \in Requests : q # r => request'[q] = request[q]
        BY <2>1, <2>2, PutFacts
    <2>4. Lock'
        BY <1>9, <1>a, <2>3, LockTaken DEF LoadBinding, Saving
    <2> QED BY <1>9, <1>a, <2>3, <2>4 DEF LoadBinding, Types
<1>10. ASSUME NEW r \in Requests, SaveBinding(r) PROVE Types' /\ Lock'
    <2>1. /\ request' \in [Requests -> RequestType] /\ request'[r].pc \notin Saving
          /\ \A q \in Requests : q # r => request'[q] = request[q]
        BY <1>10, FinishFacts, IdleType DEF SaveBinding, Saving
    <2>2. Lock'
        BY <1>10, <1>a, <2>1, LockReleased DEF SaveBinding, Saving, Release
    <2>3. request[r].uid \in Uids \cup {NoUid}
        BY <1>a DEF Types, RequestType
    <2>4. binding' \in [Users -> Uids \cup {NoUid}]
        BY <1>10, <1>a, <2>3 DEF SaveBinding, Types
    <2> QED BY <1>10, <1>a, <2>1, <2>2, <2>4 DEF SaveBinding, Types, Release
<1>11. ASSUME NEW u \in Users, DeleteWxPusherChannel(u) PROVE Types' /\ Lock'
    BY <1>11, <1>a DEF DeleteWxPusherChannel, Types, Lock, Rows
<1>12. ASSUME NEW s \in Sessions, NEW uid \in Uids, Scan(s, uid) PROVE Types' /\ Lock'
    BY <1>12, <1>a DEF Scan, Types, Lock
<1>13. ASSUME NEW s \in Sessions, Expire(s) PROVE Types' /\ Lock'
    BY <1>13, <1>a DEF Expire, Types, Lock, Rows
<1>14. CASE Restart
    <2>1. Lock'
        BY <1>14, IdleType DEF Restart, Release, Lock, Saving
    <2>2. faults' \in 0..MaxFaults
        BY <1>14, <1>a, BindingAssumption DEF Restart, Types
    <2>3. request' \in [Requests -> RequestType]
        BY <1>14, IdleType DEF Restart
    <2> QED BY <1>14, <1>a, <2>1, <2>2, <2>3 DEF Restart, Release, Types
<1>15. CASE UNCHANGED vars
    BY <1>15, <1>a DEF Types, Lock, vars
<1> QED BY <1>1, <1>2, <1>3, <1>4, <1>5, <1>6, <1>7, <1>8, <1>9, <1>10, <1>11, <1>12, <1>13,
           <1>14, <1>15 DEF Next, Continue

-----------------------------------------------------------------------------
(* What no step undoes *)

\* The owner of a session is fixed once it is stored, an existing session does not
\* vanish, a code is scanned once.
Kept ==
    /\ \A s \in Sessions : session[s].user \in Users => session'[s].user = session[s].user
    /\ \A s \in Sessions : scanned[s] # NoUid => scanned'[s] = scanned[s]

\* A code that was never given out is nobody's.
LEMMA NoRowUser == NoRow.user \notin Users
BY BindingAssumption DEF NoRow

\* Scans and owners of sessions are not lost.
LEMMA KeptStep == TypeOK /\ Carries /\ [Next]_vars => Kept
<1> SUFFICES ASSUME TypeOK, Carries, [Next]_vars PROVE Kept
    OBVIOUS
<1>a. Types
    BY TypeParts
<1>1. ASSUME NEW r \in Requests, NEW u \in Users, CheckCreate(r, u) PROVE Kept
    BY <1>1, <1>a DEF CheckCreate, Kept, Types, Rows
<1>2. ASSUME NEW r \in Requests, CreateQRCode(r) PROVE Kept
    BY <1>2 DEF CreateQRCode, Kept
<1>3. ASSUME NEW r \in Requests, StoreSession(r) PROVE Kept
    <2>1. session[request[r].session].user \notin Users
        BY <1>3, NoRowUser DEF StoreSession, Carries, Carrying, Creating
    <2>2. \A s \in Sessions : s # request[r].session => session'[s] = session[s]
        BY <1>3, <1>a DEF StoreSession, Types
    <2> QED BY <1>3, <2>1, <2>2 DEF StoreSession, Kept
<1>4. ASSUME NEW r \in Requests, NEW u \in Users, NEW s \in Sessions, LoadSession(r, u, s)
      PROVE Kept
    <2>1. CASE SetOpen(s, FALSE)
        BY <1>4, <2>1, SetOpenFacts DEF LoadSession, Kept
    <2>2. CASE UNCHANGED session
        BY <1>4, <2>2 DEF LoadSession, Kept
    <2> QED BY <1>4, <2>1, <2>2 DEF LoadSession
<1>5. ASSUME NEW r \in Requests, SaveDelay(r) PROVE Kept
    BY <1>5, SetOpenFacts DEF SaveDelay, Carries, Carrying, Polling, Kept
<1>6. ASSUME NEW r \in Requests, QueryScanUID(r) PROVE Kept
    BY <1>6 DEF QueryScanUID, Kept
<1>7. ASSUME NEW r \in Requests, BindWxPusherUID(r) PROVE Kept
    BY <1>7, SetOpenFacts DEF BindWxPusherUID, Carries, Carrying, Polling, Kept
<1>8. ASSUME NEW r \in Requests, FailSession(r) PROVE Kept
    BY <1>8, SetOpenFacts DEF FailSession, Carries, Carrying, Polling, Kept
<1>9. ASSUME NEW r \in Requests, NEW u \in Users, LoadBinding(r, u) PROVE Kept
    BY <1>9 DEF LoadBinding, Kept
<1>10. ASSUME NEW r \in Requests, SaveBinding(r) PROVE Kept
    BY <1>10 DEF SaveBinding, Kept
<1>11. ASSUME NEW u \in Users, DeleteWxPusherChannel(u) PROVE Kept
    BY <1>11, <1>a DEF DeleteWxPusherChannel, Kept, Types, Rows
<1>12. ASSUME NEW s \in Sessions, NEW uid \in Uids, Scan(s, uid) PROVE Kept
    BY <1>12, <1>a DEF Scan, Kept, Types
<1>13. ASSUME NEW s \in Sessions, Expire(s) PROVE Kept
    BY <1>13, <1>a DEF Expire, Kept, Types, Rows
<1>14. CASE Restart
    BY <1>14 DEF Restart, Kept
<1>15. CASE UNCHANGED vars
    BY <1>15 DEF Kept, vars
<1> QED BY <1>1, <1>2, <1>3, <1>4, <1>5, <1>6, <1>7, <1>8, <1>9, <1>10, <1>11, <1>12, <1>13,
           <1>14, <1>15 DEF Next, Continue

-----------------------------------------------------------------------------
(* A receiver has one owner, who scanned for it *)

\* No step gives a receiver a second owner.
LEMMA UidStep ==
    ASSUME TypeOK, UidIsUnique, [Next]_vars PROVE UidIsUnique'
<1>a. Types
    BY TypeParts
<1>1. ASSUME NEW u \in Users, NEW uid, Unowned(u, uid), binding' = [binding EXCEPT ![u] = uid]
      PROVE  UidIsUnique'
    <2>1. binding'[u] = uid /\ \A v \in Users \ {u} : binding'[v] = binding[v]
        BY <1>1, <1>a DEF Types
    <2> QED BY <1>1, <2>1 DEF UidIsUnique, Unowned
<1>2. CASE UNCHANGED binding
    BY <1>2 DEF UidIsUnique
<1>3. ASSUME NEW r \in Requests, request[r].user \in Users, BindWxPusherUID(r)
      PROVE  UidIsUnique'
    BY <1>1, <1>2, <1>3 DEF BindWxPusherUID
<1>4. ASSUME NEW r \in Requests, SaveBinding(r) PROVE UidIsUnique'
    <2>1. CASE request[r].user \in Users
        BY <1>1, <1>2, <1>4, <2>1 DEF SaveBinding, Accepts
    <2>2. CASE request[r].user \notin Users
        BY <1>2, <1>4, <1>a, <2>2 DEF SaveBinding, Types
    <2> QED BY <2>1, <2>2
<1>5. ASSUME NEW r \in Requests, request[r].user \notin Users, BindWxPusherUID(r)
      PROVE  UidIsUnique'
    <2>1. ASSUME NEW x PROVE [binding EXCEPT ![request[r].user] = x] = binding
        BY <1>5, <1>a DEF Types
    <2>2. UNCHANGED binding
        BY <1>5, <2>1 DEF BindWxPusherUID
    <2> QED BY <1>2, <2>2
<1>6. ASSUME NEW u \in Users, DeleteWxPusherChannel(u) PROVE UidIsUnique'
    BY <1>6, <1>a DEF DeleteWxPusherChannel, UidIsUnique, Types
<1>7. CASE \E r \in Requests, u \in Users :
              CheckCreate(r, u) \/ LoadBinding(r, u) \/ \E s \in Sessions : LoadSession(r, u, s)
    BY <1>2, <1>7 DEF CheckCreate, LoadBinding, LoadSession
<1>8. ASSUME NEW r \in Requests,
             CreateQRCode(r) \/ StoreSession(r) \/ SaveDelay(r) \/ QueryScanUID(r) \/ FailSession(r)
      PROVE  UidIsUnique'
    BY <1>2, <1>8 DEF CreateQRCode, StoreSession, SaveDelay, QueryScanUID, FailSession
<1>9. CASE \/ \E s \in Sessions, uid \in Uids : Scan(s, uid)
           \/ \E s \in Sessions : Expire(s)
           \/ Restart \/ UNCHANGED vars
    BY <1>2, <1>9 DEF Scan, Expire, Restart, vars
<1> QED BY <1>3, <1>4, <1>5, <1>6, <1>7, <1>8, <1>9 DEF Next, Continue

\* What is bound was scanned by its own user, whatever step comes next.
LEMMA ScansStep ==
    ASSUME TypeOK, Carries, BoundByScans, Kept, [Next]_vars PROVE BoundByScans'
<1>a. Types
    BY TypeParts
<1>1. ASSUME NEW u \in Users, NEW uid, uid # NoUid => OwnScan(u, uid),
             binding' = [binding EXCEPT ![u] = uid]
      PROVE  BoundByScans'
    <2>1. binding'[u] = uid /\ \A v \in Users \ {u} : binding'[v] = binding[v]
        BY <1>1, <1>a DEF Types
    <2> SUFFICES ASSUME NEW v \in Users, binding'[v] # NoUid
                 PROVE  \E s \in Sessions : session'[s].user = v /\ scanned'[s] = binding'[v]
        BY DEF BoundByScans, OwnScan
    <2>2. PICK s \in Sessions : session[s].user = v /\ scanned[s] = binding'[v]
        BY <1>1, <2>1 DEF BoundByScans, OwnScan
    <2> QED BY <2>2 DEF Kept
<1>2. CASE UNCHANGED binding
    <2> SUFFICES ASSUME NEW v \in Users, binding[v] # NoUid
                 PROVE  \E s \in Sessions : session'[s].user = v /\ scanned'[s] = binding[v]
        BY <1>2 DEF BoundByScans, OwnScan
    <2>1. PICK s \in Sessions : session[s].user = v /\ scanned[s] = binding[v]
        BY DEF BoundByScans, OwnScan
    <2> QED BY <2>1 DEF Kept
<1>3. ASSUME NEW r \in Requests, BindWxPusherUID(r) PROVE BoundByScans'
    <2>1. request[r].user \in Users /\ request[r].session \in Sessions
          /\ request[r].uid # NoUid /\ scanned[request[r].session] = request[r].uid
        BY <1>3 DEF BindWxPusherUID, Carries, Carrying, Polling
    <2>2. CASE UNCHANGED binding
        BY <1>2, <2>2
    <2>3. CASE ~UNCHANGED binding
        <3>1. /\ binding' = [binding EXCEPT ![request[r].user] = request[r].uid]
              /\ Owns(request[r].user, request[r].session)
            BY <1>3, <2>3 DEF BindWxPusherUID
        <3>2. OwnScan(request[r].user, request[r].uid)
            BY <2>1, <3>1 DEF OwnScan, Owns
        <3> QED BY <1>1, <2>1, <3>1, <3>2
    <2> QED BY <2>2, <2>3
<1>4. ASSUME NEW r \in Requests, SaveBinding(r) PROVE BoundByScans'
    <2>1. request[r].user \in Users /\ OwnScan(request[r].user, request[r].uid)
        BY <1>4 DEF SaveBinding, Carries, Carrying
    <2>2. UNCHANGED binding \/ binding' = [binding EXCEPT ![request[r].user] = request[r].uid]
        BY <1>4 DEF SaveBinding
    <2> QED BY <1>1, <1>2, <2>1, <2>2
<1>6. ASSUME NEW u \in Users, DeleteWxPusherChannel(u) PROVE BoundByScans'
    BY <1>1, <1>6 DEF DeleteWxPusherChannel
<1>7. CASE \E r \in Requests, u \in Users :
              CheckCreate(r, u) \/ LoadBinding(r, u) \/ \E s \in Sessions : LoadSession(r, u, s)
    BY <1>2, <1>7 DEF CheckCreate, LoadBinding, LoadSession
<1>8. ASSUME NEW r \in Requests,
             CreateQRCode(r) \/ StoreSession(r) \/ SaveDelay(r) \/ QueryScanUID(r) \/ FailSession(r)
      PROVE  BoundByScans'
    BY <1>2, <1>8 DEF CreateQRCode, StoreSession, SaveDelay, QueryScanUID, FailSession
<1>9. CASE \/ \E s \in Sessions, uid \in Uids : Scan(s, uid)
           \/ \E s \in Sessions : Expire(s)
           \/ Restart \/ UNCHANGED vars
    BY <1>2, <1>9 DEF Scan, Expire, Restart, vars
<1> QED BY <1>3, <1>4, <1>6, <1>7, <1>8, <1>9 DEF Next, Continue

-----------------------------------------------------------------------------
(* One open session of a user *)

\* No step opens a second session of a user.
LEMMA OpenStep ==
    ASSUME TypeOK, Carries, OneOpenSession, [Next]_vars PROVE OneOpenSession'
<1>a. Types
    BY TypeParts
\* Sessions that only close, or one that opens when no other is open.
<1>1. ASSUME \A s \in Sessions : session'[s].open => session[s].open
                                                   /\ session'[s].user = session[s].user
      PROVE  OneOpenSession'
    BY <1>1 DEF OneOpenSession
<1>2. ASSUME NEW s \in Sessions, NoOther(session'[s].user, s),
             \A o \in Sessions \ {s} : session'[o] = session[o]
      PROVE  OneOpenSession'
    BY <1>2 DEF OneOpenSession, NoOther
<1>3. ASSUME NEW r \in Requests, StoreSession(r) PROVE OneOpenSession'
    <2>1. CASE UNCHANGED session
        BY <1>1, <2>1
    <2>2. CASE ~UNCHANGED session
        <3>1. request[r].session \in Sessions
            BY <1>3 DEF StoreSession, Carries, Carrying, Creating
        <3> DEFINE s == request[r].session
        <3>2. /\ session'[s].user = request[r].user /\ NoOther(request[r].user, s)
              /\ \A o \in Sessions \ {s} : session'[o] = session[o]
            BY <1>3, <1>a, <2>2, <3>1 DEF StoreSession, Types
        <3> HIDE DEF s
        <3> QED BY <1>2, <3>1, <3>2 DEF s
    <2> QED BY <2>1, <2>2
<1>4. ASSUME NEW r \in Requests, SaveDelay(r) PROVE OneOpenSession'
    <2>1. CASE UNCHANGED session
        BY <1>1, <2>1
    <2>2. CASE ~UNCHANGED session
        <3> DEFINE s == request[r].session
        <3>1. s \in Sessions /\ SetOpen(s, TRUE) /\ NoOther(session[s].user, s)
            BY <1>4, <2>2 DEF SaveDelay, Carries, Carrying, Polling
        <3> HIDE DEF s
        <3> QED BY <1>2, <3>1, SetOpenFacts
    <2> QED BY <2>1, <2>2
<1>5. ASSUME NEW s \in Sessions, SetOpen(s, FALSE) PROVE OneOpenSession'
    BY <1>1, <1>5, SetOpenFacts
<1>6. ASSUME NEW r \in Requests, NEW u \in Users, CheckCreate(r, u) PROVE OneOpenSession'
    <2>1. \A s \in Sessions : /\ session'[s].user = session[s].user
                              /\ session'[s].open => session[s].open
        BY <1>6, <1>a DEF CheckCreate, Types, Rows
    <2> QED BY <1>1, <2>1
<1>7. ASSUME NEW r \in Requests, NEW u \in Users, NEW s \in Sessions, LoadSession(r, u, s)
      PROVE OneOpenSession'
    BY <1>1, <1>5, <1>7 DEF LoadSession
<1>8. ASSUME NEW r \in Requests, BindWxPusherUID(r) \/ FailSession(r) PROVE OneOpenSession'
    BY <1>1, <1>5, <1>8 DEF BindWxPusherUID, FailSession, Carries, Carrying, Polling
<1>9. ASSUME NEW u \in Users, DeleteWxPusherChannel(u) PROVE OneOpenSession'
    BY <1>1, <1>9, <1>a DEF DeleteWxPusherChannel, Types, Rows
<1>10. ASSUME NEW s \in Sessions, Expire(s) PROVE OneOpenSession'
    BY <1>1, <1>10, <1>a DEF Expire, Types, Rows
<1>11. CASE UNCHANGED session
    BY <1>1, <1>11
<1>12. ASSUME NEW r \in Requests, CreateQRCode(r) \/ QueryScanUID(r) \/ SaveBinding(r)
       PROVE  UNCHANGED session
    BY <1>12 DEF CreateQRCode, QueryScanUID, SaveBinding
<1>13. CASE \/ \E r \in Requests, u \in Users : LoadBinding(r, u)
            \/ \E s \in Sessions, uid \in Uids : Scan(s, uid)
            \/ Restart \/ UNCHANGED vars
    BY <1>11, <1>13 DEF LoadBinding, Scan, Restart, vars
<1> QED BY <1>3, <1>4, <1>6, <1>7, <1>8, <1>9, <1>10, <1>11, <1>12, <1>13 DEF Next, Continue

-----------------------------------------------------------------------------
(* What requests carry *)

\* A step of one request, or of none, leaves what the others carry as it is.
LEMMA OthersCarry ==
    ASSUME Carries, Kept, NEW q \in Requests, request'[q] = request[q],
           request[q].pc \in Creating => session'[request[q].session] = NoRow
    PROVE  Carrying(q)'
<1>1. Carrying(q)
    BY DEF Carries
<1>2. request[q].pc = "update" => OwnScan(request[q].user, request[q].uid)'
    BY <1>1, OwnScanStable DEF Carrying, Kept, OwnScan
<1> QED BY <1>1, <1>2 DEF Carrying, Kept, Creating, Polling

\* No request goes on.
LEMMA NoneCarries ==
    ASSUME Carries, Kept, UNCHANGED request,
           \A s \in Sessions : session[s] = NoRow => session'[s] = NoRow
    PROVE  Carries'
<1>1. \A q \in Requests : Carrying(q)'
    <2> TAKE q \in Requests
    <2>1. request[q].pc \in Creating => session'[request[q].session] = NoRow
        BY DEF Carries, Carrying
    <2> QED BY <2>1, OthersCarry
<1> QED BY <1>1 DEF Carries, Apart

\* Request r goes on: it may store the session it creates.
LEMMA OneCarries ==
    ASSUME Carries, Kept, NEW r \in Requests,
           \A q \in Requests : q # r => request'[q] = request[q],
           \A s \in Sessions : session[s] = NoRow =>
              \/ session'[s] = NoRow
              \/ request[r].pc \in Creating /\ s = request[r].session,
           request'[r].pc \in Creating =>
              \/ request[r].pc \in Creating /\ request'[r].session = request[r].session
              \/ \A q \in Requests : request[q].session # request'[r].session,
           Carrying(r)'
    PROVE  Carries'
<1>1. ASSUME NEW q \in Requests, q # r PROVE Carrying(q)'
    <2>1. request[q].pc \in Creating => session'[request[q].session] = NoRow
        BY <1>1 DEF Carries, Carrying, Apart
    <2> QED BY <1>1, <2>1, OthersCarry
<1>2. \A q \in Requests : Carrying(q)'
    BY <1>1
<1>3. Apart'
    BY DEF Carries, Apart
<1> QED BY <1>2, <1>3 DEF Carries

\* Where nothing is open there is nothing to close.
LEMMA SetOpenBlank ==
    ASSUME TypeOK, NEW s \in Sessions, NEW open \in BOOLEAN, session[s].user \in Users,
           SetOpen(s, open)
    PROVE  \A o \in Sessions : session[o] = NoRow => session'[o] = NoRow
BY SetOpenFacts, NoRowUser

\* A request that waits for nothing carries nothing.
LEMMA IdleCarries ==
    ASSUME NEW r \in Requests, request'[r] = Idle PROVE Carrying(r)' /\ request'[r].pc \notin Creating
BY DEF Carrying, Idle, Creating, Polling

\* Every step hands on what a request carries.
LEMMA CarriesStep ==
    ASSUME TypeOK, Carries, BoundByScans, Kept, [Next]_vars PROVE Carries'
<1>a. Types
    BY TypeParts
<1>b. \A r \in Requests : Carrying(r)
    BY DEF Carries
<1>1. ASSUME NEW r \in Requests, NEW u \in Users, CheckCreate(r, u) PROVE Carries'
    <2>1. \A s \in Sessions : session[s] = NoRow => session'[s] = NoRow
        BY <1>1, NoRowUser DEF CheckCreate
    <2>2. CASE UNCHANGED request
        BY <2>1, <2>2, NoneCarries
    <2>3. CASE ~UNCHANGED request
        <3>1. PICK s \in Sessions :
                 /\ session[s] = NoRow /\ \A q \in Requests : request[q].session # s
                 /\ request' = [request EXCEPT ![r] =
                       [Idle EXCEPT !.pc = "qrcode", !.user = u, !.session = s]]
            BY <1>1, <2>3 DEF CheckCreate
        <3> DEFINE x == [Idle EXCEPT !.pc = "qrcode", !.user = u, !.session = s]
        <3>2. x \in RequestType /\ x.pc = "qrcode" /\ x.user = u /\ x.session = s
            BY DEF Idle, RequestType, Pcs
        <3>3. request' = [request EXCEPT ![r] = x]
            BY <3>1
        <3> HIDE DEF x
        <3>4. request'[r] = x /\ \A q \in Requests : q # r => request'[q] = request[q]
            BY <3>2, <3>3, PutFacts
        <3>5. Carrying(r)'
            BY <2>1, <3>1, <3>2, <3>4 DEF Carrying, Creating, Polling
        <3> QED BY <2>1, <3>1, <3>2, <3>4, <3>5, OneCarries
    <2> QED BY <2>2, <2>3
<1>2. ASSUME NEW r \in Requests, CreateQRCode(r) PROVE Carries'
    <2>1. CASE Finish(r)
        BY <1>2, <2>1, FinishFacts, IdleCarries, OneCarries DEF CreateQRCode
    <2>2. CASE Goto(r, "store")
        <3>1. /\ request'[r].pc = "store" /\ request'[r].user = request[r].user
              /\ request'[r].session = request[r].session
              /\ \A q \in Requests : q # r => request'[q] = request[q]
            BY <2>2, GotoFacts DEF Pcs
        <3>2. Carrying(r)'
            BY <1>2, <1>b, <3>1 DEF CreateQRCode, Carrying, Creating, Polling
        <3> QED BY <1>2, <3>1, <3>2, OneCarries DEF CreateQRCode, Creating
    <2> QED BY <1>2, <2>1, <2>2 DEF CreateQRCode
<1>3. ASSUME NEW r \in Requests, StoreSession(r) PROVE Carries'
    <2>1. /\ request[r].pc \in Creating
          /\ \A s \in Sessions : s # request[r].session => session'[s] = session[s]
        BY <1>3, <1>a DEF StoreSession, Creating, Types
    <2>2. request'[r] = Idle /\ \A q \in Requests : q # r => request'[q] = request[q]
        BY <1>3, FinishFacts DEF StoreSession
    <2> QED BY <2>1, <2>2, IdleCarries, OneCarries
<1>4. ASSUME NEW r \in Requests, NEW u \in Users, NEW s \in Sessions, LoadSession(r, u, s)
      PROVE Carries'
    <2>1. CASE session[s].expired
        BY <1>4, <2>1, SetOpenBlank, NoneCarries DEF LoadSession, Owns
    <2>2. CASE ~session[s].expired
        <3> DEFINE x == [Idle EXCEPT !.pc = "delay", !.user = u, !.session = s]
        <3>1. x \in RequestType /\ x.pc = "delay" /\ x.user = u /\ x.session = s
            BY DEF Idle, RequestType, Pcs
        <3>2. request' = [request EXCEPT ![r] = x] /\ UNCHANGED session /\ session[s].user = u
            BY <1>4, <2>2 DEF LoadSession, Owns
        <3> HIDE DEF x
        <3>3. request'[r] = x /\ \A q \in Requests : q # r => request'[q] = request[q]
            BY <3>1, <3>2, PutFacts
        <3>4. Carrying(r)' /\ request'[r].pc \notin Creating
            BY <3>1, <3>2, <3>3 DEF Carrying, Creating, Polling
        <3> QED BY <3>2, <3>3, <3>4, OneCarries
    <2> QED BY <2>1, <2>2
<1>5. ASSUME NEW r \in Requests, SaveDelay(r) PROVE Carries'
    <2>1. request[r].session \in Sessions /\ session[request[r].session].user \in Users
        BY <1>5, <1>b DEF SaveDelay, Carrying, Polling
    <2>2. CASE Finish(r)
        BY <1>5, <2>1, <2>2, FinishFacts, IdleCarries, SetOpenBlank, OneCarries DEF SaveDelay
    <2>3. CASE SetOpen(request[r].session, TRUE) /\ Goto(r, "query")
        <3>1. /\ request'[r].pc = "query" /\ request'[r].user = request[r].user
              /\ request'[r].session = request[r].session
              /\ \A q \in Requests : q # r => request'[q] = request[q]
            BY <2>3, GotoFacts DEF Pcs
        <3>2. Carrying(r)' /\ request'[r].pc \notin Creating
            BY <1>5, <1>b, <2>1, <3>1 DEF SaveDelay, Carrying, Creating, Polling, Kept
        <3> QED BY <2>1, <2>3, <3>1, <3>2, SetOpenBlank, OneCarries
    <2> QED BY <1>5, <2>2, <2>3 DEF SaveDelay
<1>6. ASSUME NEW r \in Requests, QueryScanUID(r) PROVE Carries'
    <2>1. /\ request[r].session \in Sessions /\ session[request[r].session].user \in Users
          /\ request[r].user \in Users /\ UNCHANGED session
        BY <1>6, <1>b DEF QueryScanUID, Carrying, Polling
    <2>2. CASE Finish(r)
        BY <2>1, <2>2, FinishFacts, IdleCarries, OneCarries
    <2>3. CASE Goto(r, "fail")
        <3>1. /\ request'[r].pc = "fail" /\ request'[r].user = request[r].user
              /\ request'[r].session = request[r].session
              /\ \A q \in Requests : q # r => request'[q] = request[q]
            BY <2>3, GotoFacts DEF Pcs
        <3>2. Carrying(r)' /\ request'[r].pc \notin Creating
            BY <2>1, <3>1 DEF Carrying, Creating, Polling
        <3> QED BY <2>1, <3>1, <3>2, OneCarries
    <2>4. CASE ~(Finish(r) \/ Goto(r, "fail"))
        <3> DEFINE uid == scanned[request[r].session]
        <3> DEFINE x == [request[r] EXCEPT !.pc = "bind", !.uid = uid]
        <3>1. uid # NoUid /\ request' = [request EXCEPT ![r] = x] /\ UNCHANGED scanned
            BY <1>6, <2>4 DEF QueryScanUID
        <3>2. uid \in Uids \cup {NoUid}
            BY <2>1, <1>a DEF Types
        <3>3. /\ x \in RequestType /\ x.pc = "bind" /\ x.user = request[r].user
              /\ x.session = request[r].session /\ x.uid = uid
            BY <1>a, <3>2 DEF Types, RequestType, Pcs
        <3> HIDE DEF x
        <3>4. request'[r] = x /\ \A q \in Requests : q # r => request'[q] = request[q]
            BY <3>1, <3>3, PutFacts
        <3>5. Carrying(r)' /\ request'[r].pc \notin Creating
            BY <2>1, <3>1, <3>3, <3>4 DEF Carrying, Creating, Polling
        <3> QED BY <2>1, <3>4, <3>5, OneCarries
    <2> QED BY <2>2, <2>3, <2>4
<1>7. ASSUME NEW r \in Requests, BindWxPusherUID(r) PROVE Carries'
    <2>1. /\ request[r].session \in Sessions /\ session[request[r].session].user \in Users
          /\ request[r].user \in Users
        BY <1>7, <1>b DEF BindWxPusherUID, Carrying, Polling
    <2>2. \A s \in Sessions : session[s] = NoRow => session'[s] = NoRow
        BY <1>7, <2>1, SetOpenBlank DEF BindWxPusherUID
    <2>3. CASE Finish(r)
        BY <2>2, <2>3, FinishFacts, IdleCarries, OneCarries
    <2>4. CASE Goto(r, "fail")
        <3>1. /\ request'[r].pc = "fail" /\ request'[r].user = request[r].user
              /\ request'[r].session = request[r].session
              /\ \A q \in Requests : q # r => request'[q] = request[q]
            BY <2>4, GotoFacts DEF Pcs
        <3>2. Carrying(r)' /\ request'[r].pc \notin Creating
            BY <2>1, <3>1 DEF Carrying, Creating, Polling, Kept
        <3> QED BY <2>2, <3>1, <3>2, OneCarries
    <2> QED BY <1>7, <2>3, <2>4 DEF BindWxPusherUID
<1>8. ASSUME NEW r \in Requests, FailSession(r) PROVE Carries'
    <2>1. request[r].session \in Sessions /\ session[request[r].session].user \in Users
        BY <1>8, <1>b DEF FailSession, Carrying, Polling
    <2>2. \A s \in Sessions : session[s] = NoRow => session'[s] = NoRow
        BY <1>8, <2>1, SetOpenBlank DEF FailSession
    <2> QED BY <1>8, <2>2, FinishFacts, IdleCarries, OneCarries DEF FailSession
<1>9. ASSUME NEW r \in Requests, NEW u \in Users, LoadBinding(r, u) PROVE Carries'
    <2> DEFINE uid == binding[u]
    <2> DEFINE x == [Idle EXCEPT !.pc = "update", !.user = u, !.uid = uid]
    <2>1. /\ uid # NoUid /\ request' = [request EXCEPT ![r] = x]
          /\ UNCHANGED <<session, scanned>>
        BY <1>9 DEF LoadBinding
    <2>2. uid \in Uids \cup {NoUid} /\ OwnScan(u, uid)
        BY <2>1, <1>a DEF Types, BoundByScans
    <2>3. x \in RequestType /\ x.pc = "update" /\ x.user = u /\ x.uid = uid
        BY <2>2 DEF Idle, RequestType, Pcs
    <2> HIDE DEF x, uid
    <2>4. request'[r] = x /\ \A q \in Requests : q # r => request'[q] = request[q]
        BY <2>1, <2>3, PutFacts
    <2>5. Carrying(r)' /\ request'[r].pc \notin Creating
        BY <2>1, <2>2, <2>3, <2>4 DEF Carrying, Creating, Polling, OwnScan
    <2> QED BY <2>1, <2>4, <2>5, OneCarries
<1>10. ASSUME NEW r \in Requests, SaveBinding(r) PROVE Carries'
    BY <1>10, FinishFacts, IdleCarries, OneCarries DEF SaveBinding
<1>11. ASSUME NEW u \in Users, DeleteWxPusherChannel(u) PROVE Carries'
    <2>1. \A s \in Sessions : session[s] = NoRow => session'[s] = NoRow
        BY <1>11, NoRowUser DEF DeleteWxPusherChannel
    <2> QED BY <1>11, <2>1, NoneCarries DEF DeleteWxPusherChannel
<1>12. ASSUME NEW s \in Sessions, NEW uid \in Uids, Scan(s, uid) PROVE Carries'
    BY <1>12, NoneCarries DEF Scan
<1>13. ASSUME NEW s \in Sessions, Expire(s) PROVE Carries'
    <2>1. \A o \in Sessions : session[o] = NoRow => session'[o] = NoRow
        BY <1>13, <1>a DEF Expire, Types
    <2> QED BY <1>13, <2>1, NoneCarries DEF Expire
<1>14. CASE Restart
    <2>1. \A r \in Requests : request'[r] = Idle
        BY <1>14 DEF Restart
    <2> QED BY <2>1, IdleCarries DEF Carries, Apart
<1>15. CASE UNCHANGED vars
    BY <1>15, NoneCarries DEF vars
<1> QED BY <1>1, <1>2, <1>3, <1>4, <1>5, <1>6, <1>7, <1>8, <1>9, <1>10, <1>11, <1>12, <1>13,
           <1>14, <1>15 DEF Next, Continue

-----------------------------------------------------------------------------
(* Theorems *)

\* The invariant holds of a backend that starts, and every step keeps it.
LEMMA Initially == Init => IInv
<1> SUFFICES ASSUME Init PROVE IInv
    OBVIOUS
<1>1. TypeOK
    BY TypeInit
<1>2. Carries
    BY DEF Init, Carries, Apart, Carrying, Idle, Creating, Polling
<1>3. BoundByScans /\ UidIsUnique
    BY DEF Init, BoundByScans, UidIsUnique
<1>4. OneOpenSession
    BY DEF Init, OneOpenSession, NoRow
<1> QED BY <1>1, <1>2, <1>3, <1>4 DEF IInv

LEMMA Inductive == IInv /\ [Next]_vars => IInv'
<1> SUFFICES ASSUME IInv, [Next]_vars PROVE IInv'
    OBVIOUS
<1>1. Kept /\ TypeOK'
    BY KeptStep, TypeStep DEF IInv
<1>2. Carries' /\ BoundByScans'
    BY <1>1, CarriesStep, ScansStep DEF IInv
<1>3. UidIsUnique' /\ OneOpenSession'
    BY UidStep, OpenStep DEF IInv
<1> QED BY <1>1, <1>2, <1>3 DEF IInv

\* The handlers' bookkeeping is consistent in every reachable state.
THEOREM Invariance == Spec => []IInv
<1> QED BY Initially, Inductive, PTL DEF Spec

\* wxPusherMu is held exactly between the load and the save of one request, and all
\* rows stay well-formed.
THEOREM TypeCorrect == Spec => []TypeOK
<1>1. IInv => TypeOK
    BY DEF IInv
<1> QED BY <1>1, Invariance, PTL

\* However many requests race, BindWxPusherUID and SaveWxPusherBinding never give one
\* WeChat receiver to two users.
THEOREM ReceiverHasOneOwner == Spec => []UidIsUnique
<1>1. IInv => UidIsUnique
    BY DEF IInv
<1> QED BY <1>1, Invariance, PTL

\* However many requests race, a user has at most one open QR-code session.
THEOREM OneSessionIsOpen == Spec => []OneOpenSession
<1>1. IInv => OneOpenSession
    BY DEF IInv
<1> QED BY <1>1, Invariance, PTL

\* A binding always comes from a scan of the user's own code, also when a stale row is
\* saved again after the binding was deleted.
THEOREM BoundByScan == Spec => []BoundByOwnScan
<1>1. IInv => BoundByOwnScan
    BY DEF IInv, BoundByScans, OwnScan, BoundByOwnScan
<1> QED BY <1>1, Invariance, PTL

-----------------------------------------------------------------------------
(* The shape of the state *)

Tables == UNION {[D -> RuleCopy] : D \in SUBSET Rules}

Answers(bodies) == {Unanswered, Lost} \cup {Ok(body) : body \in bodies}

LoadCalls == [op : {"load"}, rules : {None} \cup {Ok(t) : t \in Tables},
              count : {None} \cup {Ok(n) : n \in Nat}, alone : BOOLEAN, answer : Answers({None})]

Created == [rule : Rules, copy : RuleCopy] \cup {[rule |-> None, copy |-> None]}

CreateCalls == [op : {"create"}, pile : Piles, rule : Rules \cup {None}, answer : Answers(Created)]

UpdateCalls == [op : {"extend", "cancel"}, rule : Rules, answer : Answers(RuleCopy)]

DeleteCalls == [op : {"delete"}, rule : Rules, answer : Answers({None})]

Changes == CreateCalls \cup UpdateCalls \cup DeleteCalls

\* A load that is answered holds what both of its requests read.
Loaded(call) == call \in LoadCalls /\ call.answer.kind = "ok" =>
                    /\ call.rules \in {Ok(t) : t \in Tables}
                    /\ call.count \in {Ok(n) : n \in Nat}

Calls == {NoCall} \cup LoadCalls \cup Changes

Dialogs == [pile : Piles, saving : Slots \cup {None}, found : BOOLEAN]

WatchTypeInv ==
    /\ ruleTable \in Tables /\ rules \in Tables
    /\ pileCount \in Nat \cup {None} /\ watchLoaded \in BOOLEAN /\ (watchLoaded <=> pileCount # None)
    /\ dialog \in {None} \cup Dialogs
    /\ candidates \in [Kinds -> Rules \cup {None}] /\ pendingIds \in SUBSET Rules
    /\ watchCalls \in [Slots -> Calls] /\ \A s \in Slots : Loaded(watchCalls[s])
    /\ synced \in BOOLEAN

-----------------------------------------------------------------------------
(* The copies and the rows *)

Changing == {s \in Slots : watchCalls[s].op \in Kinds \cup {"create"}}

\* A load that overlapped no change is the only request, and what it read is still storedRow.
AloneIsExact ==
    \A s \in Slots : LET call == watchCalls[s] IN
        call.op = "load" /\ call.alone =>
            /\ Busy(watchCalls) = {s}
            /\ call.rules # None => call.rules = Ok(ruleTable)
            /\ call.answer.kind = "ok" =>
                   call.rules = Ok(ruleTable) /\ call.count = Ok(ReminderPileCount(ruleTable))

\* The rows are the copies with the change of this call, as far as it was served.
AheadBy(call) ==
    CASE call.answer.kind = "lost" -> TRUE
      [] call.answer.kind = "none" /\ call.op = "create" /\ call.rule # None ->
            call.rule \in DOMAIN ruleTable /\ rules = Without(ruleTable, call.rule)
      [] call.answer.kind = "none" /\ (call.op = "create" => call.rule = None) ->
            rules = ruleTable
      [] call.answer.kind = "ok" /\ call.op = "create" ->
            ruleTable = IF call.answer.body.rule = None THEN rules
                        ELSE WithRule(rules, call.answer.body.rule, call.answer.body.copy)
      [] call.answer.kind = "ok" /\ call.op = "delete" -> ruleTable = Without(rules, call.rule)
      [] OTHER -> ruleTable = WithChange(rules, call.rule, call.answer.body)

AheadByOne ==
    synced =>
        /\ pileCount = ReminderPileCount(rules)
        /\ \A s, t \in Changing : s = t
        /\ \A s \in Changing : AheadBy(watchCalls[s])
        /\ Changing = {} => rules = ruleTable

-----------------------------------------------------------------------------
(* The locks *)

\* The page has one confirmation, and one change waits.
OneOnPage ==
    surface = "page" =>
        /\ \A k, l \in Kinds : candidates[k] # None /\ candidates[l] # None => k = l
        /\ \A s, t \in Waiting(watchCalls, Kinds) : s = t

LoadsAlone == \A s, t \in Waiting(watchCalls, {"load"}) : s = t

-----------------------------------------------------------------------------
(* What the operators do *)

\* The number of requests is a number.
LEMMA CountType ==
    ASSUME NEW copies \in Tables
    PROVE  ReminderPileCount(copies) \in Nat
<1> DEFINE active == {x \in DOMAIN copies : IsActive(copies[x])}
<1>1. IsFiniteSet(active)
    BY FS_Subset, WatchAssumption DEF Tables
<1> DEFINE f == [r \in active |-> copies[r].pile]
          watched == {copies[r].pile : r \in active}
<1>2. f \in Surjection(active, watched)
    BY DEF Surjection
<1>3. IsFiniteSet(watched)
    BY <1>1, <1>2, FS_Surjection, Zenon
<1> QED BY <1>3, FS_CardinalityType DEF ReminderPileCount

\* What the page does with its list of copies keeps the shape of the list.
LEMMA WithRuleType ==
    ASSUME NEW copies \in Tables, NEW r \in Rules, NEW copy \in RuleCopy
    PROVE  WithRule(copies, r, copy) \in Tables
<1>1. PICK D \in SUBSET Rules : copies \in [D -> RuleCopy]
    BY DEF Tables
<1>2. WithRule(copies, r, copy) \in [D \cup {r} -> RuleCopy]
    BY <1>1 DEF WithRule
<1> QED BY <1>2 DEF Tables

LEMMA WithChangeType ==
    ASSUME NEW copies \in Tables, NEW r, NEW copy \in RuleCopy
    PROVE  WithChange(copies, r, copy) \in Tables
BY DEF WithChange, Tables

LEMMA WithoutType ==
    ASSUME NEW copies \in Tables, NEW r
    PROVE  Without(copies, r) \in Tables
<1>1. PICK D \in SUBSET Rules : copies \in [D -> RuleCopy]
    BY DEF Tables
<1>2. Without(copies, r) \in [D \ {r} -> RuleCopy]
    BY <1>1 DEF Without
<1> QED BY <1>2 DEF Tables

\* A request finds a slot that waits for nothing.
LEMMA NextSlotIsFree ==
    ASSUME NEW calls, Free(calls) # {}
    PROVE  NextSlot(calls) \in Slots /\ calls[NextSlot(calls)].op = "idle"
BY DEF NextSlot, Free, Busy

\* What a change of one call keeps.
LEMMA Put ==
    ASSUME NEW calls \in [Slots -> Calls], \A t \in Slots : Loaded(calls[t]),
           NEW s \in Slots, NEW call \in Calls, Loaded(call)
    PROVE  /\ [calls EXCEPT ![s] = call] \in [Slots -> Calls]
           /\ \A t \in Slots : Loaded([calls EXCEPT ![s] = call][t])
OBVIOUS

\* A change of a rule is no load.
LEMMA ChangeLoaded == \A call \in Changes \cup {NoCall} : Loaded(call)
BY DEF Changes, CreateCalls, UpdateCalls, DeleteCalls, NoCall, Loaded, LoadCalls, Kinds

\* Only the waiters are disturbed, and only in that they are not alone.
LEMMA DisturbFacts ==
    ASSUME watchCalls \in [Slots -> Calls], \A t \in Slots : Loaded(watchCalls[t])
    PROVE  /\ Disturb \in [Slots -> Calls] /\ \A t \in Slots : Loaded(Disturb[t])
           /\ \A t \in Slots :
                 /\ Disturb[t].op = watchCalls[t].op
                 /\ watchCalls[t].op # "load" => Disturb[t] = watchCalls[t]
                 /\ watchCalls[t].op = "load" => ~Disturb[t].alone
           /\ Free(Disturb) = Free(watchCalls)
<1>1. ASSUME NEW t \in Slots, watchCalls[t].op = "load"
      PROVE  /\ Disturb[t] \in LoadCalls /\ Loaded(Disturb[t])
             /\ ~Disturb[t].alone /\ Disturb[t].op = "load"
    <2>1. watchCalls[t] \in LoadCalls
        BY <1>1 DEF Calls, Changes, CreateCalls, UpdateCalls, DeleteCalls, NoCall
    <2>2. Disturb[t] = [watchCalls[t] EXCEPT !.alone = FALSE]
        BY <1>1 DEF Disturb
    <2> QED BY <2>1, <2>2 DEF LoadCalls, Loaded
<1>2. ASSUME NEW t \in Slots, watchCalls[t].op # "load"
      PROVE  Disturb[t] = watchCalls[t]
    BY <1>2 DEF Disturb
<1>3. \A t \in Slots : Disturb[t] \in Calls /\ Disturb[t].op = watchCalls[t].op /\ Loaded(Disturb[t])
    BY <1>1, <1>2 DEF Calls
<1>4. Disturb \in [Slots -> Calls]
    BY <1>3 DEF Disturb
<1>5. Free(Disturb) = Free(watchCalls)
    BY <1>3 DEF Free, Busy
<1> QED BY <1>1, <1>2, <1>3, <1>4, <1>5

\* The operation of a request tells its shape, and the kind of an answer that of the answer.
LEMMA CallsByOp ==
    ASSUME NEW call \in Calls
    PROVE  /\ call.op = "load" => call \in LoadCalls
           /\ call.op = "create" => call \in CreateCalls
           /\ call.op \in {"extend", "cancel"} => call \in UpdateCalls
           /\ call.op = "delete" => call \in DeleteCalls
           /\ call.op \in Kinds => call.rule \in Rules /\ call \in UpdateCalls \cup DeleteCalls
           /\ call.op \in Kinds \cup {"idle", "load", "create"}
           /\ call.op = "idle" => call = NoCall
BY DEF Calls, LoadCalls, Changes, CreateCalls, UpdateCalls, DeleteCalls, NoCall, Kinds

LEMMA AnswersByKind ==
    ASSUME NEW bodies, NEW answer \in Answers(bodies)
    PROVE  /\ answer.kind \in {"none", "lost", "ok"}
           /\ answer = Unanswered <=> answer.kind = "none"
           /\ answer.kind = "lost" => answer = Lost
           /\ answer.kind = "ok" => answer = Ok(answer.body) /\ answer.body \in bodies
BY DEF Answers, Unanswered, Lost, Ok

\* A request can be answered in the shape of its operation.
LEMMA CallAnswers ==
    ASSUME NEW call \in Calls, call.op # "idle"
    PROVE  /\ call.answer.kind \in {"none", "lost", "ok"}
           /\ call.answer = Unanswered <=> call.answer.kind = "none"
           /\ call.answer.kind = "ok" =>
                  /\ call.op = "create" => call.answer.body \in Created
                  /\ call.op \in {"extend", "cancel"} => call.answer.body \in RuleCopy
<1>1. CASE call.op = "load"
    BY <1>1, CallsByOp, AnswersByKind DEF LoadCalls
<1>2. CASE call.op = "create"
    BY <1>2, CallsByOp, AnswersByKind DEF CreateCalls
<1>3. CASE call.op \in {"extend", "cancel"}
    BY <1>3, CallsByOp, AnswersByKind DEF UpdateCalls
<1>4. CASE call.op = "delete"
    BY <1>4, CallsByOp, AnswersByKind DEF DeleteCalls
<1> QED BY <1>1, <1>2, <1>3, <1>4, CallsByOp DEF Kinds

\* An answer that is given, or lost, leaves a call of its kind.
LEMMA AnswerType ==
    ASSUME NEW call \in Calls, call.op # "idle"
    PROVE  /\ [call EXCEPT !.answer = Lost] \in Calls
           /\ Loaded([call EXCEPT !.answer = Lost])
           /\ [call EXCEPT !.answer = Lost].op = call.op
<1>1. CASE call.op = "load"
    BY <1>1, CallsByOp DEF LoadCalls, Answers, Lost, Loaded, Calls
<1>2. CASE call.op = "create"
    <2>1. [call EXCEPT !.answer = Lost] \in CreateCalls /\ [call EXCEPT !.answer = Lost].op = call.op
        BY <1>2, CallsByOp DEF CreateCalls, Answers
    <2> QED BY <2>1, ChangeLoaded DEF Changes, Calls
<1>3. CASE call.op \in {"extend", "cancel"}
    <2>1. [call EXCEPT !.answer = Lost] \in UpdateCalls /\ [call EXCEPT !.answer = Lost].op = call.op
        BY <1>3, CallsByOp DEF UpdateCalls, Answers
    <2> QED BY <2>1, ChangeLoaded DEF Changes, Calls
<1>4. CASE call.op = "delete"
    <2>1. [call EXCEPT !.answer = Lost] \in DeleteCalls /\ [call EXCEPT !.answer = Lost].op = call.op
        BY <1>4, CallsByOp DEF DeleteCalls, Answers
    <2> QED BY <2>1, ChangeLoaded DEF Changes, Calls
<1> QED BY <1>1, <1>2, <1>3, <1>4, CallsByOp DEF Kinds

\* A change that starts: nothing else does, and the waiters are disturbed.
LEMMA Starts ==
    ASSUME WatchTypeInv, NEW call \in Changes, SendChange(call)
    PROVE  LET s == NextSlot(watchCalls) IN
           /\ s \in Slots /\ watchCalls[s].op = "idle"
           /\ watchCalls' = [Disturb EXCEPT ![s] = call]
           /\ watchCalls' \in [Slots -> Calls] /\ \A t \in Slots : Loaded(watchCalls'[t])
           /\ \A t \in Slots \ {s} : watchCalls'[t] = Disturb[t]
           /\ watchCalls'[s] = call
           /\ synced' = (synced /\ Busy(watchCalls) = {})
<1> DEFINE s == NextSlot(watchCalls)
<1>1. Free(watchCalls) # {} /\ watchCalls' = Begin(Disturb, call)
      /\ synced' = (synced /\ Busy(watchCalls) = {})
    BY DEF SendChange
<1>2. s \in Slots /\ watchCalls[s].op = "idle"
    BY <1>1, NextSlotIsFree
<1>3. /\ Disturb \in [Slots -> Calls] /\ \A t \in Slots : Loaded(Disturb[t])
      /\ Free(Disturb) = Free(watchCalls)
    BY DisturbFacts DEF WatchTypeInv
<1>4. NextSlot(Disturb) = s
    BY <1>3 DEF NextSlot
<1>5. watchCalls' = [Disturb EXCEPT ![s] = call]
    BY <1>1, <1>4 DEF Begin
<1>6. call \in Calls /\ Loaded(call)
    BY ChangeLoaded DEF Calls
<1>7. watchCalls' \in [Slots -> Calls] /\ \A t \in Slots : Loaded(watchCalls'[t])
    BY <1>2, <1>3, <1>5, <1>6, Put
<1> HIDE DEF s
<1>8. watchCalls'[s] = call /\ \A t \in Slots \ {s} : watchCalls'[t] = Disturb[t]
    BY <1>2, <1>3, <1>5
<1> QED BY <1>1, <1>2, <1>5, <1>7, <1>8 DEF s

\* The changes a user may start.
LEMMA ChangeSent ==
    ASSUME WatchTypeInv, SubmitCreate \/ \E kind \in Kinds : ConfirmAction(kind)
    PROVE  \E call \in Changes, s \in Slots :
              /\ call.answer = Unanswered
              /\ call.op = "create" => call.rule = None
              /\ watchCalls[s].op = "idle" /\ watchCalls'[s] = call
              /\ \A t \in Slots \ {s} : watchCalls'[t] = Disturb[t]
              /\ synced' = (synced /\ Busy(watchCalls) = {})
<1>1. CASE SubmitCreate
    <2>1. dialog.pile \in Piles
        BY <1>1 DEF SubmitCreate, WatchTypeInv, Dialogs
    <2> DEFINE call == [op |-> "create", pile |-> dialog.pile, rule |-> None, answer |-> Unanswered]
    <2>2. call \in Changes /\ call.answer = Unanswered /\ call.rule = None
        BY <2>1 DEF Changes, CreateCalls, Answers
    <2>3. SendChange(call)
        BY <1>1 DEF SubmitCreate
    <2> HIDE DEF call
    <2> QED BY <2>2, <2>3, Starts
<1>2. CASE \E kind \in Kinds : ConfirmAction(kind)
    <2>0. PICK kind \in Kinds : ConfirmAction(kind)
        BY <1>2
    <2>1. candidates[kind] \in Rules
        BY <2>0 DEF ConfirmAction, WatchTypeInv
    <2> DEFINE call == [op |-> kind, rule |-> candidates[kind], answer |-> Unanswered]
    <2>2. call \in Changes /\ call.answer = Unanswered /\ call.op # "create"
        BY <2>1 DEF Changes, UpdateCalls, DeleteCalls, Answers, Kinds
    <2>3. SendChange(call)
        BY <2>0 DEF ConfirmAction
    <2> HIDE DEF call
    <2> QED BY <2>2, <2>3, Starts
<1> QED BY <1>1, <1>2

\* A call that ends leaves its slot free.
LEMMA Ends ==
    ASSUME WatchTypeInv, NEW s \in Slots, EndWatch(s)
    PROVE  /\ watchCalls' \in [Slots -> Calls] /\ \A t \in Slots : Loaded(watchCalls'[t])
           /\ \A t \in Slots \ {s} : watchCalls'[t] = watchCalls[t]
           /\ watchCalls'[s] = NoCall
<1>1. watchCalls' = [watchCalls EXCEPT ![s] = NoCall]
    BY DEF EndWatch, End
<1>2. NoCall \in Calls /\ Loaded(NoCall)
    BY ChangeLoaded DEF Calls
<1> QED BY <1>1, <1>2, Put DEF WatchTypeInv

\* The copies change with the count of the piles.
LEMMA Applied ==
    ASSUME WatchTypeInv, NEW next \in Tables, ApplyRules(next)
    PROVE  /\ rules' = next /\ rules' \in Tables
           /\ pileCount' \in Nat \cup {None} /\ (pileCount' = None <=> pileCount = None)
           /\ pileCount # None => pileCount' = ReminderPileCount(next)
<1>1. ReminderPileCount(next) \in Nat /\ None \notin Nat
    BY CountType, WatchAssumption
<1> QED BY <1>1 DEF ApplyRules, WatchTypeInv

-----------------------------------------------------------------------------
(* The shape is kept *)

\* The reminders have their shape as they are opened.
LEMMA TypeStart == WatchInit => WatchTypeInv
<1> SUFFICES ASSUME WatchInit PROVE WatchTypeInv
    OBVIOUS
<1>1. ruleTable \in Tables
    <2>1. PICK old \in SUBSET Rules, p \in Piles, active \in Rules \cup {None} :
             ruleTable = [r \in old |-> [pile |-> p, times |-> 0,
                                        state |-> IF r = active THEN "active" ELSE "recurring"]]
        BY DEF WatchInit
    <2>2. ruleTable \in [old -> RuleCopy]
        BY <2>1 DEF RuleCopy, States
    <2> QED BY <2>2 DEF Tables
<1>2. rules \in Tables
    <2>1. rules = <<>>
        BY DEF WatchInit
    <2>2. rules \in [{} -> RuleCopy]
        BY <2>1
    <2> QED BY <2>2 DEF Tables
<1>3. watchCalls \in [Slots -> Calls] /\ \A s \in Slots : Loaded(watchCalls[s])
    BY ChangeLoaded DEF WatchInit, NoCalls, Calls
<1>4. candidates \in [Kinds -> Rules \cup {None}]
    BY DEF WatchInit, NothingOpen
<1> QED BY <1>1, <1>2, <1>3, <1>4 DEF WatchInit, WatchTypeInv

\* Loading, the dialog, the actions of a rule and the backend keep it.
LEMMA TypeLoads ==
    ASSUME WatchTypeInv, LoadWatch \/ \E s \in Slots : ServeLoad(s) \/ LandWatchLoad(s)
    PROVE  WatchTypeInv'
<1>1. CASE LoadWatch
    <2> DEFINE t == NextSlot(watchCalls)
               call == [op |-> "load", rules |-> None, count |-> None,
                        alone |-> Busy(watchCalls) = {}, answer |-> Unanswered]
    <2>1. t \in Slots /\ watchCalls' = [watchCalls EXCEPT ![t] = call]
        BY <1>1, NextSlotIsFree DEF LoadWatch, SendWatch, Begin
    <2>2. call \in Calls /\ Loaded(call)
        BY DEF Calls, LoadCalls, Answers, Loaded, Unanswered
    <2> HIDE DEF t, call
    <2>3. watchCalls' \in [Slots -> Calls] /\ \A r \in Slots : Loaded(watchCalls'[r])
        BY <2>1, <2>2, Put DEF WatchTypeInv
    <2> QED BY <1>1, <2>3 DEF LoadWatch, WatchTypeInv, controls
<1>2. ASSUME NEW s \in Slots, ServeLoad(s) PROVE WatchTypeInv'
    <2> DEFINE call == watchCalls[s]
               served == IF call.rules = None THEN [call EXCEPT !.rules = Ok(ruleTable)]
                         ELSE [call EXCEPT !.count = Ok(ReminderPileCount(ruleTable)),
                                           !.answer = Ok(None)]
    <2>1. call \in LoadCalls /\ call.answer = Unanswered
        BY <1>2, CallsByOp DEF ServeLoad, WatchTypeInv
    <2>2. ruleTable \in Tables /\ ReminderPileCount(ruleTable) \in Nat
        BY CountType DEF WatchTypeInv
    <2>3. served \in Calls /\ Loaded(served)
        <3>1. CASE call.rules = None
            BY <2>1, <2>2, <3>1 DEF LoadCalls, Loaded, Calls, Unanswered
        <3>2. CASE call.rules # None
            BY <2>1, <2>2, <3>2 DEF LoadCalls, Loaded, Calls, Answers
        <3> QED BY <3>1, <3>2
    <2>4. watchCalls' = [watchCalls EXCEPT ![s] = served]
        BY <1>2 DEF ServeLoad
    <2> HIDE DEF call, served
    <2>5. watchCalls' \in [Slots -> Calls] /\ \A r \in Slots : Loaded(watchCalls'[r])
        BY <2>3, <2>4, Put DEF WatchTypeInv
    <2> QED BY <1>2, <2>5 DEF ServeLoad, WatchTypeInv, controls, provider
<1>3. ASSUME NEW s \in Slots, LandWatchLoad(s) PROVE WatchTypeInv'
    <2> DEFINE call == watchCalls[s]
    <2>1. EndWatch(s)
        BY <1>3 DEF LandWatchLoad
    <2>2. call \in LoadCalls /\ Loaded(call)
        BY <1>3, CallsByOp DEF LandWatchLoad, WatchTypeInv
    <2>3. CASE call.answer.kind = "ok"
        <3>1. call.rules.body \in Tables /\ call.count.body \in Nat /\ call.alone \in BOOLEAN
            BY <2>2, <2>3 DEF Loaded, LoadCalls, Ok
        <3> QED BY <1>3, <2>1, <2>3, <3>1, Ends, WatchAssumption DEF LandWatchLoad, WatchTypeInv, controls
    <2>4. CASE call.answer.kind # "ok"
        BY <1>3, <2>1, <2>4, Ends DEF LandWatchLoad, WatchTypeInv, controls
    <2> QED BY <2>3, <2>4
<1> QED BY <1>1, <1>2, <1>3

LEMMA TypeDialog ==
    ASSUME WatchTypeInv,
           \/ CloseCreate \/ SubmitCreate
           \/ \E p \in Piles : OpenCreate(p)
           \/ \E s \in Slots : LandRule(s)
    PROVE  WatchTypeInv'
<1>1. ASSUME NEW p \in Piles, OpenCreate(p) PROVE WatchTypeInv'
    BY <1>1 DEF OpenCreate, WatchTypeInv, Dialogs, provider
<1>2. CASE CloseCreate
    BY <1>2 DEF CloseCreate, WatchTypeInv, provider
<1>3. CASE SubmitCreate
    <2> DEFINE call == [op |-> "create", pile |-> dialog.pile, rule |-> None, answer |-> Unanswered]
    <2>1. dialog \in Dialogs
        BY <1>3 DEF SubmitCreate, WatchTypeInv
    <2>2. call \in Changes
        BY <2>1 DEF Changes, CreateCalls, Answers, Dialogs
    <2>3. SendChange(call)
        BY <1>3 DEF SubmitCreate
    <2> HIDE DEF call
    <2>4. /\ NextSlot(watchCalls) \in Slots
          /\ watchCalls' \in [Slots -> Calls] /\ \A r \in Slots : Loaded(watchCalls'[r])
          /\ synced' = (synced /\ Busy(watchCalls) = {})
        BY <2>2, <2>3, Starts
    <2>5. dialog' \in Dialogs
        BY <1>3, <2>1, <2>4 DEF SubmitCreate, Dialogs
    <2> QED BY <1>3, <2>4, <2>5 DEF SubmitCreate, WatchTypeInv, provider
<1>4. ASSUME NEW s \in Slots, LandRule(s) PROVE WatchTypeInv'
    <2> DEFINE call == watchCalls[s]
    <2>0. EndWatch(s) /\ UNCHANGED <<ruleTable, watchLoaded, watchError, surface, candidates, pendingIds>>
        BY <1>4 DEF LandRule
    <2>1. call \in CreateCalls
        BY <1>4, CallsByOp DEF LandRule, WatchTypeInv
    <2>2. dialog' \in {None} \cup Dialogs /\ synced' \in BOOLEAN
        <3>1. \/ dialog' \in {None, dialog}
              \/ /\ dialog # None
                 /\ dialog' \in {[dialog EXCEPT !.saving = None],
                                [dialog EXCEPT !.saving = None, !.found = TRUE]}
            BY <1>4 DEF LandRule
        <3>2. dialog \in {None} \cup Dialogs
            BY DEF WatchTypeInv
        <3>3. dialog' \in {None} \cup Dialogs
            BY <3>1, <3>2 DEF Dialogs
        <3>4. synced' \in {synced, FALSE}
            BY <1>4 DEF LandRule
        <3> QED BY <3>3, <3>4 DEF WatchTypeInv
    <2>3. CASE call.answer.kind = "ok" /\ call.answer.body.rule # None
        <3> DEFINE body == call.answer.body
        <3>1. body \in Created
            BY <2>1, <2>3, AnswersByKind DEF CreateCalls
        <3>2. body.rule \in Rules /\ body.copy \in RuleCopy
            BY <2>3, <3>1 DEF Created
        <3>3. WithRule(rules, body.rule, body.copy) \in Tables
            BY <3>2, WithRuleType DEF WatchTypeInv
        <3>4. ApplyRules(WithRule(rules, body.rule, body.copy))
            BY <1>4, <2>3 DEF LandRule
        <3>5. /\ rules' \in Tables /\ pileCount' \in Nat \cup {None}
              /\ (pileCount' = None <=> pileCount = None)
            BY <3>3, <3>4, Applied
        <3> QED BY <2>0, <2>2, <3>5, Ends DEF WatchTypeInv
    <2>4. CASE ~(call.answer.kind = "ok" /\ call.answer.body.rule # None)
        <3>1. UNCHANGED <<rules, pileCount>>
            BY <1>4, <2>4 DEF LandRule
        <3> QED BY <2>0, <2>2, <3>1, Ends DEF WatchTypeInv
    <2> QED BY <2>3, <2>4
<1> QED BY <1>1, <1>2, <1>3, <1>4

LEMMA TypeActions ==
    ASSUME WatchTypeInv,
           \/ \E kind \in Kinds : LeaveAction(kind) \/ ConfirmAction(kind)
           \/ \E kind \in Kinds, r \in Rules : OpenAction(kind, r)
           \/ \E s \in Slots : LandAction(s)
    PROVE  WatchTypeInv'
<1>1. ASSUME NEW kind \in Kinds, NEW r \in Rules, OpenAction(kind, r) PROVE WatchTypeInv'
    BY <1>1 DEF OpenAction, WatchTypeInv, provider
<1>2. ASSUME NEW kind \in Kinds, LeaveAction(kind) PROVE WatchTypeInv'
    BY <1>2 DEF LeaveAction, WatchTypeInv, provider
<1>3. ASSUME NEW kind \in Kinds, ConfirmAction(kind) PROVE WatchTypeInv'
    <2> DEFINE call == [op |-> kind, rule |-> candidates[kind], answer |-> Unanswered]
    <2>1. candidates[kind] \in Rules
        BY <1>3 DEF ConfirmAction, WatchTypeInv
    <2>2. call \in Changes
        BY <2>1 DEF Changes, UpdateCalls, DeleteCalls, Answers, Kinds
    <2>3. SendChange(call)
        BY <1>3 DEF ConfirmAction
    <2> HIDE DEF call
    <2>4. /\ watchCalls' \in [Slots -> Calls] /\ \A t \in Slots : Loaded(watchCalls'[t])
          /\ synced' = (synced /\ Busy(watchCalls) = {})
        BY <2>2, <2>3, Starts
    <2> QED BY <1>3, <2>1, <2>4 DEF ConfirmAction, WatchTypeInv, provider
<1>4. ASSUME NEW s \in Slots, LandAction(s) PROVE WatchTypeInv'
    <2> DEFINE call == watchCalls[s]
    <2>0. /\ EndWatch(s) /\ UNCHANGED <<ruleTable, watchLoaded, watchError, surface, dialog>>
          /\ pendingIds' = pendingIds \ {call.rule} /\ call.op \in Kinds
        BY <1>4 DEF LandAction
    <2>1. candidates' \in [Kinds -> Rules \cup {None}] /\ synced' \in BOOLEAN
        BY <1>4 DEF LandAction, WatchTypeInv
    <2>2. CASE call.answer.kind = "ok"
        <3> DEFINE next == IF call.op = "delete" THEN Without(rules, call.rule)
                           ELSE WithChange(rules, call.rule, call.answer.body)
        <3>1. ApplyRules(next)
            BY <1>4, <2>2 DEF LandAction
        <3>2. next \in Tables
            BY <2>0, <2>2, CallAnswers, WithoutType, WithChangeType DEF WatchTypeInv, Kinds
        <3> HIDE DEF next
        <3>3. /\ rules' \in Tables /\ pileCount' \in Nat \cup {None}
              /\ (pileCount' = None <=> pileCount = None)
            BY <3>1, <3>2, Applied
        <3> QED BY <2>0, <2>1, <3>3, Ends DEF WatchTypeInv
    <2>3. CASE call.answer.kind # "ok"
        <3>1. UNCHANGED <<rules, pileCount>>
            BY <1>4, <2>3 DEF LandAction
        <3> QED BY <2>0, <2>1, <3>1, Ends DEF WatchTypeInv
    <2> QED BY <2>2, <2>3
<1> QED BY <1>1, <1>2, <1>3, <1>4

\* What the backend does to the rows and to the call it serves, in one of these ways.
LEMMA Served ==
    ASSUME WatchTypeInv, NEW s \in Slots, StoreRule(s) \/ ServeCreate(s) \/ ServeAction(s)
    PROVE  /\ UNCHANGED <<provider, controls, watchSteps, synced>>
           /\ watchCalls[s].op \in Kinds \cup {"create"} /\ watchCalls[s].answer.kind = "none"
           /\ ruleTable' \in Tables
           /\ \E call \in Changes : /\ watchCalls' = [watchCalls EXCEPT ![s] = call]
                                    /\ call.op = watchCalls[s].op
                                    /\ call.op # "create" => call.rule = watchCalls[s].rule
           /\ AheadBy(watchCalls[s]) => AheadBy(watchCalls[s])'
<1> DEFINE call == watchCalls[s]
<1>0. call \in Calls /\ ruleTable \in Tables /\ watchCalls \in [Slots -> Calls] /\ rules \in Tables
    BY DEF WatchTypeInv
<1>1. CASE StoreRule(s)
    <2>0. call \in CreateCalls /\ call.op = "create" /\ call.answer = Unanswered /\ call.rule = None
        BY <1>0, <1>1, CallsByOp DEF StoreRule
    <2>1. PICK r \in Rules \ DOMAIN ruleTable :
             /\ ruleTable' = WithRule(ruleTable, r, [pile |-> call.pile, state |-> "active", times |-> 0])
             /\ watchCalls' = [watchCalls EXCEPT ![s].rule = r]
        BY <1>1 DEF StoreRule
    <2> DEFINE copy == [pile |-> call.pile, state |-> "active", times |-> 0]
               storedRow == [call EXCEPT !.rule = r]
    <2>2. copy \in RuleCopy
        BY <2>0 DEF CreateCalls, RuleCopy, States
    <2>3. ruleTable' \in Tables
        BY <1>0, <2>1, <2>2, WithRuleType
    <2>4. storedRow \in Changes /\ storedRow.op = "create" /\ storedRow.rule = r /\ storedRow.answer = Unanswered
        BY <2>0 DEF Changes, CreateCalls
    <2>5. watchCalls' = [watchCalls EXCEPT ![s] = storedRow] /\ watchCalls'[s] = storedRow
        BY <1>0, <2>1
    <2>6. r # None
        BY WatchAssumption
    <2>7. ASSUME AheadBy(call) PROVE AheadBy(call)'
        <3>1. rules = ruleTable
            BY <2>0, <2>7 DEF AheadBy, Unanswered
        <3>2. rules' = rules
            BY <1>1 DEF StoreRule, provider
        <3> HIDE DEF copy, storedRow
        <3>3. r \in DOMAIN ruleTable' /\ Without(ruleTable', r) = ruleTable
            <4>1. PICK D \in SUBSET Rules : ruleTable \in [D -> RuleCopy]
                BY <1>0 DEF Tables
            <4> QED BY <2>1, <4>1 DEF WithRule, Without
        <3> QED BY <2>4, <2>5, <2>6, <3>1, <3>2, <3>3 DEF AheadBy, Unanswered
    <2>8. UNCHANGED <<provider, controls, watchSteps, synced>>
        BY <1>1 DEF StoreRule
    <2>9. \E c \in Changes : /\ watchCalls' = [watchCalls EXCEPT ![s] = c]
                             /\ c.op = watchCalls[s].op
                             /\ c.op # "create" => c.rule = watchCalls[s].rule
        BY <2>0, <2>4, <2>5
    <2>10. watchCalls[s].op \in Kinds \cup {"create"} /\ watchCalls[s].answer.kind = "none"
        BY <2>0 DEF Unanswered
    <2>11. AheadBy(watchCalls[s]) => AheadBy(watchCalls[s])'
        BY <2>7
    <2> HIDE DEF copy, storedRow
    <2> QED BY <2>3, <2>8, <2>9, <2>10, <2>11
<1>2. CASE ServeCreate(s)
    <2>0. /\ call \in CreateCalls /\ call.op = "create" /\ call.answer = Unanswered
          /\ call.rule \in DOMAIN ruleTable /\ call.rule \in Rules /\ call.rule # None
          /\ ruleTable[call.rule] \in RuleCopy
        BY <1>0, <1>2, CallsByOp, WatchAssumption DEF ServeCreate, Tables
    <2>1. ASSUME NEW body \in Created,
                 ruleTable' \in Tables, Serve(s, Ok(body)),
                 AheadBy(call) => ruleTable' = IF body.rule = None THEN rules
                                               ELSE WithRule(rules, body.rule, body.copy)
          PROVE  /\ UNCHANGED <<provider, controls, watchSteps, synced>>
                 /\ \E c \in Changes : watchCalls' = [watchCalls EXCEPT ![s] = c] /\ c.op = "create"
                 /\ AheadBy(call) => AheadBy(call)'
        <3> DEFINE served == [call EXCEPT !.answer = Ok(body)]
        <3>1. served \in Changes /\ served.op = "create" /\ served.answer = Ok(body)
            BY <2>0 DEF Changes, CreateCalls, Answers
        <3>2. watchCalls' = [watchCalls EXCEPT ![s] = served] /\ watchCalls'[s] = served
            BY <1>0, <2>1 DEF Serve
        <3>3. rules' = rules
            BY <2>1 DEF Serve, provider
        <3> HIDE DEF served
        <3>4. AheadBy(call) => AheadBy(call)'
            BY <2>1, <3>1, <3>2, <3>3 DEF AheadBy, Ok
        <3> QED BY <2>1, <3>1, <3>2, <3>4 DEF Serve
    <2>2. CASE ruleTable' = Without(ruleTable, call.rule) /\ Serve(s, Ok([rule |-> None, copy |-> None]))
        <3>1. [rule |-> None, copy |-> None] \in Created /\ ruleTable' \in Tables
            BY <1>0, <2>2, WithoutType DEF Created
        <3>2. AheadBy(call) => ruleTable' = rules
            BY <2>0, <2>2 DEF AheadBy, Unanswered
        <3> QED BY <2>0, <2>1, <2>2, <3>1, <3>2 DEF Unanswered
    <2>3. CASE UNCHANGED ruleTable /\ Serve(s, Ok([rule |-> call.rule, copy |-> ruleTable[call.rule]]))
        <3> DEFINE body == [rule |-> call.rule, copy |-> ruleTable[call.rule]]
        <3>1. body \in Created /\ body.rule # None /\ ruleTable' \in Tables
            BY <1>0, <2>0, <2>3 DEF Created
        <3>2. ASSUME AheadBy(call)
              PROVE  ruleTable = WithRule(rules, call.rule, ruleTable[call.rule])
            <4>1. rules = Without(ruleTable, call.rule)
                BY <2>0, <3>2 DEF AheadBy, Unanswered
            <4>2. PICK D \in SUBSET Rules : ruleTable \in [D -> RuleCopy]
                BY <1>0 DEF Tables
            <4> QED BY <2>0, <4>1, <4>2 DEF Without, WithRule
        <3> QED BY <2>0, <2>1, <2>3, <3>1, <3>2 DEF Unanswered
    <2> QED BY <1>2, <2>2, <2>3 DEF ServeCreate
<1>3. CASE ServeAction(s)
    <2>0. /\ call.op \in Kinds /\ call.answer = Unanswered /\ call.rule \in DOMAIN ruleTable
          /\ call.rule \in Rules /\ call \in UpdateCalls \cup DeleteCalls
          /\ ruleTable[call.rule] \in RuleCopy
        BY <1>0, <1>3, CallsByOp DEF ServeAction, Tables
    <2>1. AheadBy(call) => rules = ruleTable
        BY <2>0 DEF AheadBy, Unanswered, Kinds
    <2>2. ASSUME NEW body, ruleTable' \in Tables, Serve(s, Ok(body)),
                 body \in IF call.op = "delete" THEN {None} ELSE RuleCopy,
                 AheadBy(call) => ruleTable' = IF call.op = "delete" THEN Without(rules, call.rule)
                                               ELSE WithChange(rules, call.rule, body)
          PROVE  /\ UNCHANGED <<provider, controls, watchSteps, synced>>
                 /\ \E c \in Changes : /\ watchCalls' = [watchCalls EXCEPT ![s] = c]
                                       /\ c.op = call.op /\ c.rule = call.rule
                 /\ AheadBy(call) => AheadBy(call)'
        <3> DEFINE served == [call EXCEPT !.answer = Ok(body)]
        <3>1. /\ served \in Changes /\ served.op = call.op /\ served.answer = Ok(body)
              /\ served.rule = call.rule
            <4>1. CASE call.op = "delete"
                BY <1>0, <2>2, <4>1, CallsByOp DEF Changes, DeleteCalls, Answers
            <4>2. CASE call.op # "delete"
                BY <1>0, <2>0, <2>2, <4>2, CallsByOp DEF Changes, UpdateCalls, Answers, Kinds
            <4> QED BY <4>1, <4>2
        <3>2. watchCalls' = [watchCalls EXCEPT ![s] = served] /\ watchCalls'[s] = served
            BY <1>0, <2>2 DEF Serve
        <3>3. rules' = rules
            BY <2>2 DEF Serve, provider
        <3> HIDE DEF served
        <3>4. AheadBy(call) => AheadBy(call)'
            BY <2>0, <2>2, <3>1, <3>2, <3>3 DEF AheadBy, Ok, Kinds
        <3> QED BY <2>2, <3>1, <3>2, <3>4 DEF Serve
    <2>3. CASE /\ call.op = "delete"
               /\ ruleTable' = Without(ruleTable, call.rule) /\ Serve(s, Ok(None))
        <3>1. ruleTable' \in Tables
            BY <1>0, <2>3, WithoutType
        <3> QED BY <2>0, <2>1, <2>2, <2>3, <3>1 DEF Unanswered
    <2>4. CASE /\ call.op # "delete"
               /\ ruleTable' = [ruleTable EXCEPT ![call.rule] = Updated(@, call.op)]
               /\ Serve(s, Ok(ruleTable'[call.rule]))
        <3> DEFINE copy == Updated(ruleTable[call.rule], call.op)
        <3>1. copy \in RuleCopy
            BY <2>0 DEF Updated, RuleCopy, States
        <3>2. ruleTable' = [ruleTable EXCEPT ![call.rule] = copy]
            BY <2>4
        <3> HIDE DEF copy
        <3>3. PICK D \in SUBSET Rules : ruleTable \in [D -> RuleCopy]
            BY <1>0 DEF Tables
        <3>4. ruleTable' = WithChange(ruleTable, call.rule, copy) /\ ruleTable'[call.rule] = copy
            BY <2>0, <3>2, <3>3 DEF WithChange
        <3>5. ruleTable' \in Tables
            BY <1>0, <3>1, <3>4, WithChangeType
        <3>6. /\ UNCHANGED <<provider, controls, watchSteps, synced>>
              /\ \E c \in Changes : /\ watchCalls' = [watchCalls EXCEPT ![s] = c]
                                    /\ c.op = call.op /\ c.rule = call.rule
              /\ AheadBy(call) => AheadBy(call)'
            BY <2>1, <2>2, <2>4, <3>1, <3>4, <3>5
        <3>7. \E c \in Changes : /\ watchCalls' = [watchCalls EXCEPT ![s] = c]
                                 /\ c.op = watchCalls[s].op
                                 /\ c.op # "create" => c.rule = watchCalls[s].rule
            BY <3>6
        <3>8. watchCalls[s].op \in Kinds \cup {"create"} /\ watchCalls[s].answer.kind = "none"
            BY <2>0 DEF Unanswered
        <3> QED BY <3>5, <3>6, <3>7, <3>8
    <2> QED BY <1>3, <2>3, <2>4 DEF ServeAction
<1> QED BY <1>1, <1>2, <1>3

\* A call that is lost keeps its operation and what it captured.
LEMMA Loses ==
    ASSUME WatchTypeInv, NEW s \in Slots, LoseWatchAnswer(s)
    PROVE  /\ UNCHANGED <<ruleTable, provider, controls, watchSteps, synced>>
           /\ watchCalls[s].op # "idle"
           /\ \E call \in Calls : /\ watchCalls' = [watchCalls EXCEPT ![s] = call]
                                  /\ Loaded(call) /\ call.op = watchCalls[s].op
                                  /\ call.answer = Lost
                                  /\ call.op \in Kinds => call.rule = watchCalls[s].rule
                                  /\ call.op = "load" => call.alone = watchCalls[s].alone
                                                         /\ call.rules = watchCalls[s].rules
<1> DEFINE call == watchCalls[s]
           lost == [call EXCEPT !.answer = Lost]
<1>1. call \in Calls /\ call.op # "idle" /\ watchCalls' = [watchCalls EXCEPT ![s] = lost]
    BY DEF LoseWatchAnswer, LoseAnswer, Busy, WatchTypeInv
<1>2. lost \in Calls /\ Loaded(lost) /\ lost.op = call.op
    BY <1>1, AnswerType
<1>3. lost.answer = Lost /\ (call.op \in Kinds => lost.rule = call.rule)
    BY <1>1 DEF Calls, LoadCalls, Changes, CreateCalls, UpdateCalls, DeleteCalls, NoCall, Kinds
<1>4. call.op = "load" => lost.alone = call.alone /\ lost.rules = call.rules
    BY <1>1, CallsByOp DEF LoadCalls
<1>5. UNCHANGED <<ruleTable, provider, controls, watchSteps, synced>>
    BY DEF LoseWatchAnswer
<1> HIDE DEF lost
<1> QED BY <1>1, <1>2, <1>3, <1>4, <1>5

LEMMA TypeBackend ==
    ASSUME WatchTypeInv,
           \/ \E s \in Slots : \/ StoreRule(s) \/ ServeCreate(s) \/ ServeAction(s)
                             \/ LoseWatchAnswer(s)
           \/ \E r \in Rules : CompleteRule(r)
    PROVE  WatchTypeInv'
<1>1. ASSUME NEW s \in Slots, StoreRule(s) \/ ServeCreate(s) \/ ServeAction(s)
      PROVE  WatchTypeInv'
    <2>1. PICK call \in Changes : watchCalls' = [watchCalls EXCEPT ![s] = call]
        BY <1>1, Served
    <2>2. call \in Calls /\ Loaded(call)
        BY ChangeLoaded DEF Calls
    <2>3. watchCalls' \in [Slots -> Calls] /\ \A t \in Slots : Loaded(watchCalls'[t])
        BY <2>1, <2>2, Put DEF WatchTypeInv
    <2>4. ruleTable' \in Tables /\ UNCHANGED <<provider, controls, watchSteps, synced>>
        BY <1>1, Served
    <2> QED BY <2>3, <2>4 DEF WatchTypeInv, provider, controls
<1>2. ASSUME NEW s \in Slots, LoseWatchAnswer(s) PROVE WatchTypeInv'
    <2>1. PICK call \in Calls : Loaded(call) /\ watchCalls' = [watchCalls EXCEPT ![s] = call]
        BY <1>2, Loses
    <2>2. watchCalls' \in [Slots -> Calls] /\ \A t \in Slots : Loaded(watchCalls'[t])
        BY <2>1, Put DEF WatchTypeInv
    <2>3. UNCHANGED <<ruleTable, provider, controls, watchSteps, synced>>
        BY <1>2, Loses
    <2> QED BY <2>2, <2>3 DEF WatchTypeInv, provider, controls
<1>3. ASSUME NEW r \in Rules, CompleteRule(r) PROVE WatchTypeInv'
    <2>1. PICK end \in {"notified", "expired"} : ruleTable' = [ruleTable EXCEPT ![r].state = end]
        BY <1>3 DEF CompleteRule
    <2>2. PICK D \in SUBSET Rules : ruleTable \in [D -> RuleCopy]
        BY DEF WatchTypeInv, Tables
    <2>3. ruleTable' \in [D -> RuleCopy]
        BY <2>1, <2>2 DEF RuleCopy, States
    <2>4. ruleTable' \in Tables
        BY <2>3 DEF Tables
    <2>5. watchCalls' = Disturb /\ synced' = FALSE /\ UNCHANGED <<provider, controls>>
        BY <1>3 DEF CompleteRule
    <2>6. watchCalls' \in [Slots -> Calls] /\ \A t \in Slots : Loaded(watchCalls'[t])
        BY <2>5, DisturbFacts DEF WatchTypeInv
    <2> QED BY <2>4, <2>5, <2>6 DEF WatchTypeInv, provider, controls
<1> QED BY <1>1, <1>2, <1>3

\* So every step keeps it.
LEMMA WatchTypeStep ==
    ASSUME WatchTypeInv, [WatchNext]_watchVars
    PROVE  WatchTypeInv'
<1>1. CASE UNCHANGED watchVars
    BY <1>1 DEF watchVars, WatchTypeInv
<1>2. CASE WatchNext
    BY <1>2, TypeLoads, TypeDialog, TypeActions, TypeBackend DEF WatchNext
<1> QED BY <1>1, <1>2

-----------------------------------------------------------------------------
(* A load that is alone *)

\* While another request is on its way no load is alone.
LEMMA NotAlone ==
    ASSUME AloneIsExact, NEW s \in Slots, watchCalls[s].op # "idle",
           NEW t \in Slots, t # s, watchCalls[t].op = "load"
    PROVE  ~watchCalls[t].alone
BY DEF AloneIsExact, Busy

\* A step that keeps the waiters, or a part of them, while something else is on its way.
LEMMA AloneBeside ==
    ASSUME AloneIsExact, NEW s \in Slots, watchCalls[s].op # "idle", watchCalls'[s].op # "load",
           \A t \in Slots \ {s} : watchCalls'[t] = watchCalls[t]
    PROVE  AloneIsExact'
BY NotAlone DEF AloneIsExact

\* A change that starts or comes from elsewhere.
LEMMA AloneDisturbed ==
    ASSUME WatchTypeInv,
           \A t \in Slots : watchCalls'[t] = Disturb[t] \/ watchCalls'[t].op # "load"
    PROVE  AloneIsExact'
BY DisturbFacts DEF AloneIsExact, WatchTypeInv

\* A load that overlapped nothing brings the rows, whatever step comes next.
LEMMA AloneStep ==
    ASSUME WatchTypeInv, AloneIsExact, [WatchNext]_watchVars
    PROVE  AloneIsExact'
<1>0. watchCalls \in [Slots -> Calls]
    BY DEF WatchTypeInv
<1>1. CASE UNCHANGED <<watchCalls, ruleTable>>
    BY <1>1 DEF AloneIsExact, Busy
<1>2. CASE LoadWatch
    <2> DEFINE s == NextSlot(watchCalls)
               call == [op |-> "load", rules |-> None, count |-> None,
                        alone |-> Busy(watchCalls) = {}, answer |-> Unanswered]
    <2>1. s \in Slots /\ watchCalls' = [watchCalls EXCEPT ![s] = call]
        BY <1>2, NextSlotIsFree DEF LoadWatch, SendWatch, Begin
    <2>2. \A t \in Slots : watchCalls[t].op # "load"
        BY <1>2 DEF LoadWatch, NoLoadWaits, Waiting
    <2>3. call.op = "load" /\ call.rules = None /\ call.answer.kind = "none"
          /\ call.alone = (Busy(watchCalls) = {})
        BY DEF Unanswered
    <2> HIDE DEF s, call
    <2>4. watchCalls'[s] = call /\ \A t \in Slots \ {s} : watchCalls'[t] = watchCalls[t]
        BY <1>0, <2>1
    <2>5. Busy(watchCalls) = {} => Busy(watchCalls') = {s}
        BY <2>1, <2>3, <2>4 DEF Busy
    <2> QED BY <2>1, <2>2, <2>3, <2>4, <2>5 DEF AloneIsExact
<1>3. ASSUME NEW s \in Slots, ServeLoad(s) PROVE AloneIsExact'
    <2> DEFINE call == watchCalls[s]
               served == IF call.rules = None THEN [call EXCEPT !.rules = Ok(ruleTable)]
                         ELSE [call EXCEPT !.count = Ok(ReminderPileCount(ruleTable)),
                                           !.answer = Ok(None)]
    <2>1. call \in LoadCalls /\ call.answer = Unanswered /\ ruleTable' = ruleTable
          /\ call.op = "load" /\ watchCalls' = [watchCalls EXCEPT ![s] = served]
        BY <1>0, <1>3, CallsByOp DEF ServeLoad
    <2>2. /\ served.op = "load" /\ served.alone = call.alone
          /\ call.rules = None => served.rules = Ok(ruleTable) /\ served.answer.kind = "none"
          /\ call.rules # None => /\ served.rules = call.rules
                                  /\ served.count = Ok(ReminderPileCount(ruleTable))
        BY <2>1 DEF LoadCalls, Unanswered
    <2> HIDE DEF served
    <2>3. watchCalls'[s] = served /\ \A t \in Slots \ {s} : watchCalls'[t] = watchCalls[t]
        BY <1>0, <2>1
    <2>4. Busy(watchCalls') = Busy(watchCalls)
        BY <2>1, <2>2, <2>3 DEF Busy
    <2>5. ASSUME NEW t \in Slots, t # s, watchCalls'[t].op = "load" PROVE ~watchCalls'[t].alone
        BY <2>1, <2>3, <2>5, NotAlone
    <2>6. ASSUME call.alone
          PROVE  /\ Busy(watchCalls) = {s} /\ (call.rules # None => call.rules = Ok(ruleTable))
        BY <2>1, <2>6 DEF AloneIsExact
    <2> QED BY <2>1, <2>2, <2>3, <2>4, <2>5, <2>6 DEF AloneIsExact
<1>4. ASSUME NEW s \in Slots, LandWatchLoad(s) \/ LandRule(s) \/ LandAction(s)
      PROVE  AloneIsExact'
    <2>1. EndWatch(s) /\ watchCalls[s].op # "idle"
        BY <1>4 DEF LandWatchLoad, LandRule, LandAction, Kinds
    <2>2. watchCalls'[s] = NoCall /\ \A t \in Slots \ {s} : watchCalls'[t] = watchCalls[t]
        BY <2>1, Ends
    <2> QED BY <2>1, <2>2, AloneBeside DEF NoCall
<1>5. ASSUME NEW s \in Slots, StoreRule(s) \/ ServeCreate(s) \/ ServeAction(s)
      PROVE  AloneIsExact'
    <2>1. PICK call \in Changes : /\ watchCalls' = [watchCalls EXCEPT ![s] = call]
                                  /\ call.op = watchCalls[s].op
        BY <1>5, Served
    <2>2. watchCalls[s].op # "idle" /\ watchCalls[s].op # "load"
        BY <1>5, Served DEF Kinds
    <2>3. watchCalls'[s] = call /\ \A t \in Slots \ {s} : watchCalls'[t] = watchCalls[t]
        BY <1>0, <2>1
    <2> QED BY <2>1, <2>2, <2>3, AloneBeside
<1>6. ASSUME NEW s \in Slots, LoseWatchAnswer(s)
      PROVE  AloneIsExact'
    <2>1. PICK call \in Calls : /\ watchCalls' = [watchCalls EXCEPT ![s] = call]
                                /\ call.op = watchCalls[s].op /\ call.answer = Lost
                                /\ call.op = "load" => call.alone = watchCalls[s].alone
                                                       /\ call.rules = watchCalls[s].rules
        BY <1>6, Loses
    <2>2. watchCalls[s].op # "idle" /\ ruleTable' = ruleTable
        BY <1>6, Loses
    <2>3. watchCalls'[s] = call /\ \A t \in Slots \ {s} : watchCalls'[t] = watchCalls[t]
        BY <1>0, <2>1
    <2>4. CASE call.op # "load"
        BY <2>1, <2>2, <2>3, <2>4, AloneBeside
    <2>5. CASE call.op = "load"
        <3>1. Busy(watchCalls') = Busy(watchCalls)
            BY <2>1, <2>2, <2>3 DEF Busy
        <3>2. ASSUME NEW t \in Slots, t # s, watchCalls'[t].op = "load" PROVE ~watchCalls'[t].alone
            BY <2>2, <2>3, <3>2, NotAlone
        <3>3. call.answer.kind # "ok"
            BY <2>1 DEF Lost
        <3> QED BY <2>1, <2>2, <2>3, <2>5, <3>1, <3>2, <3>3 DEF AloneIsExact
    <2> QED BY <2>4, <2>5
<1>7. CASE SubmitCreate \/ \E kind \in Kinds : ConfirmAction(kind)
    <2>1. PICK call \in Changes, s \in Slots :
             watchCalls'[s] = call /\ \A t \in Slots \ {s} : watchCalls'[t] = Disturb[t]
        BY <1>7, ChangeSent
    <2>2. call.op # "load"
        BY DEF Changes, CreateCalls, UpdateCalls, DeleteCalls
    <2> QED BY <2>1, <2>2, AloneDisturbed
<1>8. ASSUME NEW r \in Rules, CompleteRule(r) PROVE AloneIsExact'
    BY <1>8, AloneDisturbed DEF CompleteRule
<1>9. /\ UNCHANGED watchVars => UNCHANGED <<watchCalls, ruleTable>>
      /\ CloseCreate => UNCHANGED <<watchCalls, ruleTable>>
      /\ \A p \in Piles : OpenCreate(p) => UNCHANGED <<watchCalls, ruleTable>>
      /\ \A kind \in Kinds : LeaveAction(kind) => UNCHANGED <<watchCalls, ruleTable>>
      /\ \A kind \in Kinds, r \in Rules : OpenAction(kind, r) => UNCHANGED <<watchCalls, ruleTable>>
    BY DEF watchVars, CloseCreate, OpenCreate, LeaveAction, OpenAction
<1> QED BY <1>1, <1>2, <1>3, <1>4, <1>5, <1>6, <1>7, <1>8, <1>9 DEF WatchNext

-----------------------------------------------------------------------------
(* The copies are the rows, but for one change *)

\* What a change is ahead by does not depend on the other calls.
LEMMA AheadKept ==
    ASSUME AheadByOne, UNCHANGED <<ruleTable, rules, pileCount, synced>>,
           \A t \in Slots : \/ watchCalls'[t] = watchCalls[t]
                            \/ /\ watchCalls'[t].op \notin Kinds \cup {"create"}
                               /\ watchCalls[t].op \notin Kinds \cup {"create"}
                            \/ /\ watchCalls'[t].op = watchCalls[t].op
                               /\ AheadBy(watchCalls[t]) => AheadBy(watchCalls[t])'
    PROVE  AheadByOne'
<1>1. Changing' = Changing
    BY DEF Changing
<1>2. \A t \in Changing : AheadBy(watchCalls[t]) => AheadBy(watchCalls[t])'
    BY DEF AheadBy, Changing
<1> QED BY <1>1, <1>2 DEF AheadByOne

\* The page runs ahead of the backend by the changes that wait, whatever step comes next.
LEMMA AheadStep ==
    ASSUME WatchTypeInv, AloneIsExact, AheadByOne, [WatchNext]_watchVars
    PROVE  AheadByOne'
<1>0. watchCalls \in [Slots -> Calls]
    BY DEF WatchTypeInv
<1>1. CASE UNCHANGED <<watchCalls, ruleTable, rules, pileCount, synced>>
    BY <1>1, AheadKept
<1>2. CASE LoadWatch
    <2> DEFINE s == NextSlot(watchCalls)
               call == [op |-> "load", rules |-> None, count |-> None,
                        alone |-> Busy(watchCalls) = {}, answer |-> Unanswered]
    <2>1. s \in Slots /\ watchCalls' = [watchCalls EXCEPT ![s] = call] /\ watchCalls[s].op = "idle"
        BY <1>2, NextSlotIsFree DEF LoadWatch, SendWatch, Begin
    <2>2. call.op = "load"
        OBVIOUS
    <2> HIDE DEF s, call
    <2>3. watchCalls'[s] = call /\ \A t \in Slots \ {s} : watchCalls'[t] = watchCalls[t]
        BY <1>0, <2>1
    <2> QED BY <1>2, <2>1, <2>2, <2>3, AheadKept DEF LoadWatch, Kinds
<1>3. ASSUME NEW s \in Slots, ServeLoad(s) PROVE AheadByOne'
    <2>1. watchCalls[s] \in LoadCalls /\ watchCalls[s].op = "load"
        BY <1>0, <1>3, CallsByOp DEF ServeLoad
    <2>2. watchCalls'[s].op = "load" /\ \A t \in Slots \ {s} : watchCalls'[t] = watchCalls[t]
        BY <1>0, <1>3, <2>1 DEF ServeLoad, LoadCalls
    <2> QED BY <1>3, <2>1, <2>2, AheadKept DEF ServeLoad, provider, Kinds
<1>4. ASSUME NEW s \in Slots, LandWatchLoad(s) PROVE AheadByOne'
    <2> DEFINE call == watchCalls[s]
    <2>1. EndWatch(s) /\ call.op = "load" /\ ruleTable' = ruleTable
        BY <1>4 DEF LandWatchLoad
    <2>2. watchCalls'[s] = NoCall /\ \A t \in Slots \ {s} : watchCalls'[t] = watchCalls[t]
        BY <2>1, Ends
    <2>3. CASE call.answer.kind = "ok" /\ call.alone
        <3>1. /\ Busy(watchCalls) = {s}
              /\ call.rules = Ok(ruleTable) /\ call.count = Ok(ReminderPileCount(ruleTable))
            BY <2>1, <2>3 DEF AloneIsExact
        <3>2. rules' = ruleTable /\ pileCount' = ReminderPileCount(ruleTable)
            BY <1>4, <2>3, <3>1 DEF LandWatchLoad, Ok
        <3>3. Changing' = {}
            BY <2>2, <3>1 DEF Changing, Busy, NoCall, Kinds
        <3> QED BY <2>1, <3>2, <3>3 DEF AheadByOne
    <2>4. CASE call.answer.kind = "ok" /\ ~call.alone
        BY <1>4, <2>4 DEF LandWatchLoad, AheadByOne
    <2>5. CASE call.answer.kind # "ok"
        <3>1. UNCHANGED <<ruleTable, rules, pileCount, synced>>
            BY <1>4, <2>5 DEF LandWatchLoad
        <3> QED BY <2>1, <2>2, <3>1, AheadKept DEF NoCall, Kinds
    <2> QED BY <2>3, <2>4, <2>5 DEF WatchTypeInv
<1>5. CASE SubmitCreate \/ \E kind \in Kinds : ConfirmAction(kind)
    <2>1. PICK call \in Changes, s \in Slots :
             /\ call.answer = Unanswered
             /\ call.op = "create" => call.rule = None
             /\ watchCalls'[s] = call
             /\ \A t \in Slots \ {s} : watchCalls'[t] = Disturb[t]
             /\ synced' = (synced /\ Busy(watchCalls) = {})
        BY <1>5, ChangeSent
    <2>2. UNCHANGED <<ruleTable, rules, pileCount>>
        BY <1>5 DEF SubmitCreate, ConfirmAction, provider
    <2>3. SUFFICES ASSUME synced' PROVE AheadByOne'
        BY DEF AheadByOne
    <2>4. synced /\ Busy(watchCalls) = {}
        BY <2>1, <2>3
    <2>5. \A t \in Slots \ {s} : watchCalls'[t].op = "idle"
        BY <2>1, <2>4, DisturbFacts DEF Busy, WatchTypeInv
    <2>6. Changing' \subseteq {s} /\ s \in Changing'
        BY <2>1, <2>5 DEF Changing, Kinds, Changes, CreateCalls, UpdateCalls, DeleteCalls
    <2>7. Changing = {}
        BY <2>4 DEF Changing, Busy, Kinds
    <2>8. rules' = ruleTable' /\ pileCount' = ReminderPileCount(rules')
        BY <2>2, <2>4, <2>7 DEF AheadByOne
    <2>9. AheadBy(watchCalls[s])'
        BY <2>1, <2>8 DEF AheadBy, Unanswered
    <2> QED BY <2>6, <2>8, <2>9 DEF AheadByOne
<1>6. ASSUME NEW s \in Slots, LandRule(s) \/ LandAction(s),
             watchCalls[s].op \in Kinds \cup {"create"},
             synced' => /\ synced /\ pileCount' = ReminderPileCount(rules')
                        /\ AheadBy(watchCalls[s]) => rules' = ruleTable'
      PROVE  AheadByOne'
    <2>1. EndWatch(s)
        BY <1>6 DEF LandRule, LandAction
    <2>2. watchCalls'[s] = NoCall /\ \A t \in Slots \ {s} : watchCalls'[t] = watchCalls[t]
        BY <2>1, Ends
    <2>3. SUFFICES ASSUME synced' PROVE AheadByOne'
        BY DEF AheadByOne
    <2>4. s \in Changing /\ AheadBy(watchCalls[s]) /\ \A t \in Changing : t = s
        BY <1>6, <2>3 DEF AheadByOne, Changing
    <2>5. Changing' = {}
        BY <2>2, <2>4 DEF Changing, NoCall, Kinds
    <2> QED BY <1>6, <2>3, <2>4, <2>5 DEF AheadByOne
<1>7. ASSUME NEW s \in Slots, LandRule(s) PROVE AheadByOne'
    <2> DEFINE call == watchCalls[s]
               body == call.answer.body
    <2>1. call \in CreateCalls /\ call.op = "create" /\ ruleTable' = ruleTable
        BY <1>0, <1>7, CallsByOp DEF LandRule
    <2>2. CASE call.answer.kind = "ok" /\ body.rule # None
        <3>1. body.rule \in Rules /\ body.copy \in RuleCopy
            BY <2>1, <2>2, AnswersByKind DEF CreateCalls, Created
        <3>2. WithRule(rules, body.rule, body.copy) \in Tables
            BY <3>1, WithRuleType DEF WatchTypeInv
        <3>3. ApplyRules(WithRule(rules, body.rule, body.copy)) /\ synced' = synced
            BY <1>7, <2>2 DEF LandRule
        <3>4. /\ rules' = WithRule(rules, body.rule, body.copy)
              /\ pileCount # None => pileCount' = ReminderPileCount(rules')
            BY <3>2, <3>3, Applied
        <3>5. synced => pileCount # None
            BY CountType, WatchAssumption DEF AheadByOne, WatchTypeInv
        <3>6. AheadBy(call) => rules' = ruleTable'
            BY <2>1, <2>2, <3>4 DEF AheadBy
        <3> QED BY <1>6, <1>7, <2>1, <3>3, <3>4, <3>5, <3>6
    <2>3. CASE call.answer.kind = "ok" /\ body.rule = None
        <3>1. UNCHANGED <<rules, pileCount, synced>>
            BY <1>7, <2>3 DEF LandRule
        <3>2. AheadBy(call) => rules' = ruleTable'
            BY <2>1, <2>3, <3>1 DEF AheadBy
        <3> QED BY <1>6, <1>7, <2>1, <3>1, <3>2 DEF AheadByOne
    <2>4. CASE call.answer.kind # "ok"
        BY <1>7, <2>4 DEF LandRule, AheadByOne
    <2> QED BY <2>2, <2>3, <2>4
<1>8. ASSUME NEW s \in Slots, LandAction(s) PROVE AheadByOne'
    <2> DEFINE call == watchCalls[s]
               next == IF call.op = "delete" THEN Without(rules, call.rule)
                       ELSE WithChange(rules, call.rule, call.answer.body)
    <2>1. call.op \in Kinds /\ ruleTable' = ruleTable /\ call \in Calls
        BY <1>0, <1>8 DEF LandAction
    <2>2. CASE call.answer.kind = "ok"
        <3>1. ApplyRules(next) /\ synced' = synced
            BY <1>8, <2>2 DEF LandAction
        <3>2. next \in Tables
            BY <2>1, <2>2, CallAnswers, WithoutType, WithChangeType DEF WatchTypeInv, Kinds
        <3>3. AheadBy(call) => next = ruleTable
            BY <2>1, <2>2 DEF AheadBy, Kinds
        <3> HIDE DEF next
        <3>4. rules' = next /\ (pileCount # None => pileCount' = ReminderPileCount(rules'))
            BY <3>1, <3>2, Applied
        <3>5. synced => pileCount # None
            BY CountType, WatchAssumption DEF AheadByOne, WatchTypeInv
        <3>6. AheadBy(call) => rules' = ruleTable'
            BY <2>1, <3>3, <3>4
        <3> QED BY <1>6, <1>8, <2>1, <3>1, <3>4, <3>5, <3>6
    <2>3. CASE call.answer.kind # "ok"
        BY <1>8, <2>3 DEF LandAction, AheadByOne
    <2> QED BY <2>2, <2>3
<1>9. ASSUME NEW s \in Slots, StoreRule(s) \/ ServeCreate(s) \/ ServeAction(s)
      PROVE  AheadByOne'
    <2>1. PICK call \in Changes : /\ watchCalls' = [watchCalls EXCEPT ![s] = call]
                                  /\ call.op = watchCalls[s].op
        BY <1>9, Served
    <2>2. /\ UNCHANGED <<rules, pileCount, synced>>
          /\ watchCalls[s].op \in Kinds \cup {"create"}
          /\ AheadBy(watchCalls[s]) => AheadBy(watchCalls[s])'
        BY <1>9, Served DEF provider
    <2>3. watchCalls'[s] = call /\ \A t \in Slots \ {s} : watchCalls'[t] = watchCalls[t]
        BY <1>0, <2>1
    <2>4. Changing' = Changing /\ s \in Changing
        BY <2>1, <2>2, <2>3 DEF Changing
    <2> QED BY <2>2, <2>4 DEF AheadByOne
<1>10. ASSUME NEW s \in Slots, LoseWatchAnswer(s)
       PROVE  AheadByOne'
    <2>1. PICK call \in Calls : /\ watchCalls' = [watchCalls EXCEPT ![s] = call]
                                /\ call.op = watchCalls[s].op /\ call.answer = Lost
        BY <1>10, Loses
    <2>2. UNCHANGED <<ruleTable, rules, pileCount, synced>>
        BY <1>10, Loses DEF provider
    <2>3. watchCalls'[s] = call /\ \A t \in Slots \ {s} : watchCalls'[t] = watchCalls[t]
        BY <1>0, <2>1
    <2>4. AheadBy(watchCalls[s])'
        BY <2>1, <2>3 DEF AheadBy, Lost
    <2> QED BY <2>1, <2>2, <2>3, <2>4, AheadKept
<1>11. ASSUME NEW r \in Rules, CompleteRule(r) PROVE AheadByOne'
    BY <1>11 DEF CompleteRule, AheadByOne
<1>12. /\ UNCHANGED watchVars => UNCHANGED <<watchCalls, ruleTable, rules, pileCount, synced>>
       /\ CloseCreate => UNCHANGED <<watchCalls, ruleTable, rules, pileCount, synced>>
       /\ \A p \in Piles : OpenCreate(p) =>
              UNCHANGED <<watchCalls, ruleTable, rules, pileCount, synced>>
       /\ \A kind \in Kinds : LeaveAction(kind) =>
              UNCHANGED <<watchCalls, ruleTable, rules, pileCount, synced>>
       /\ \A kind \in Kinds, r \in Rules : OpenAction(kind, r) =>
              UNCHANGED <<watchCalls, ruleTable, rules, pileCount, synced>>
    BY DEF watchVars, provider, CloseCreate, OpenCreate, LeaveAction, OpenAction
<1> QED BY <1>1, <1>2, <1>3, <1>4, <1>5, <1>7, <1>8, <1>9, <1>10, <1>11, <1>12 DEF WatchNext

-----------------------------------------------------------------------------
(* The locks *)

\* A step that neither starts nor ends a change, nor touches the controls.
LEMMA LocksKept ==
    ASSUME WatchTypeInv, UNCHANGED <<surface, dialog, candidates, pendingIds>>,
           LocksAreLive, OneOnPage,
           \A t \in Slots :
              /\ {watchCalls[t].op, watchCalls'[t].op} \cap (Kinds \cup {"create"}) # {} =>
                     watchCalls'[t].op = watchCalls[t].op
              /\ watchCalls[t].op \in Kinds => watchCalls'[t].rule = watchCalls[t].rule
    PROVE  LocksAreLive' /\ OneOnPage'
<1>1. Waiting(watchCalls, Kinds)' = Waiting(watchCalls, Kinds)
    BY DEF Waiting
<1>2. \A s \in Waiting(watchCalls, Kinds) : watchCalls'[s].rule = watchCalls[s].rule
                                            /\ watchCalls'[s].op = watchCalls[s].op
    BY DEF Waiting
<1>3. ASSUME dialog # None, dialog.saving # None
      PROVE  watchCalls'[dialog.saving].op = "create"
    BY <1>3 DEF WatchTypeInv, Dialogs, LocksAreLive
<1> QED BY <1>1, <1>2, <1>3 DEF LocksAreLive, OneOnPage

\* Loads and the backend do not touch the locks.
LEMMA LocksBeside ==
    ASSUME WatchTypeInv, LocksAreLive, OneOnPage,
           \/ LoadWatch
           \/ \E s \in Slots : \/ ServeLoad(s) \/ LandWatchLoad(s)
                               \/ StoreRule(s) \/ ServeCreate(s) \/ ServeAction(s)
                               \/ LoseWatchAnswer(s)
           \/ \E r \in Rules : CompleteRule(r)
    PROVE  LocksAreLive' /\ OneOnPage'
<1>0. /\ watchCalls \in [Slots -> Calls]
      /\ "load" \notin Kinds \cup {"create"} /\ "idle" \notin Kinds \cup {"create"}
    BY DEF WatchTypeInv, Kinds
<1>1. CASE LoadWatch
    <2> DEFINE call == [op |-> "load", rules |-> None, count |-> None,
                        alone |-> Busy(watchCalls) = {}, answer |-> Unanswered]
    <2>1. PICK s \in Slots : watchCalls[s].op = "idle" /\ watchCalls' = [watchCalls EXCEPT ![s] = call]
        BY <1>1, NextSlotIsFree DEF LoadWatch, SendWatch, Begin
    <2>2. watchCalls'[s].op = "load" /\ \A t \in Slots \ {s} : watchCalls'[t] = watchCalls[t]
        BY <1>0, <2>1
    <2>3. UNCHANGED <<surface, dialog, candidates, pendingIds>>
        BY <1>1 DEF LoadWatch, controls
    <2> QED BY <1>0, <2>1, <2>2, <2>3, LocksKept
<1>2. ASSUME NEW s \in Slots, ServeLoad(s) PROVE LocksAreLive' /\ OneOnPage'
    <2>1. watchCalls[s] \in LoadCalls /\ watchCalls[s].op = "load"
        BY <1>0, <1>2, CallsByOp DEF ServeLoad
    <2>2. watchCalls'[s].op = "load" /\ \A t \in Slots \ {s} : watchCalls'[t] = watchCalls[t]
        BY <1>0, <1>2, <2>1 DEF ServeLoad, LoadCalls
    <2>3. UNCHANGED <<surface, dialog, candidates, pendingIds>>
        BY <1>2 DEF ServeLoad, controls
    <2> QED BY <1>0, <2>1, <2>2, <2>3, LocksKept
<1>3. ASSUME NEW s \in Slots, LandWatchLoad(s) PROVE LocksAreLive' /\ OneOnPage'
    <2>1. watchCalls'[s] = NoCall /\ \A t \in Slots \ {s} : watchCalls'[t] = watchCalls[t]
        BY <1>3, Ends DEF LandWatchLoad
    <2>2. watchCalls[s].op = "load" /\ UNCHANGED <<surface, dialog, candidates, pendingIds>>
        BY <1>3 DEF LandWatchLoad, controls
    <2>3. watchCalls'[s].op = "idle"
        BY <2>1 DEF NoCall
    <2> QED BY <1>0, <2>1, <2>2, <2>3, LocksKept
<1>4. ASSUME NEW s \in Slots, StoreRule(s) \/ ServeCreate(s) \/ ServeAction(s)
      PROVE  LocksAreLive' /\ OneOnPage'
    <2>1. PICK call \in Changes : /\ watchCalls' = [watchCalls EXCEPT ![s] = call]
                                  /\ call.op = watchCalls[s].op
                                  /\ call.op # "create" => call.rule = watchCalls[s].rule
        BY <1>4, Served
    <2>2. watchCalls'[s] = call /\ \A t \in Slots \ {s} : watchCalls'[t] = watchCalls[t]
        BY <1>0, <2>1
    <2>3. UNCHANGED <<surface, dialog, candidates, pendingIds>>
        BY <1>4, Served DEF controls
    <2> QED BY <2>1, <2>2, <2>3, LocksKept DEF Kinds
<1>5. ASSUME NEW s \in Slots, LoseWatchAnswer(s) PROVE LocksAreLive' /\ OneOnPage'
    <2>1. PICK call \in Calls : /\ watchCalls' = [watchCalls EXCEPT ![s] = call]
                                /\ call.op = watchCalls[s].op
                                /\ call.op \in Kinds => call.rule = watchCalls[s].rule
        BY <1>5, Loses
    <2>2. watchCalls'[s] = call /\ \A t \in Slots \ {s} : watchCalls'[t] = watchCalls[t]
        BY <1>0, <2>1
    <2>3. UNCHANGED <<surface, dialog, candidates, pendingIds>>
        BY <1>5, Loses DEF controls
    <2> QED BY <2>1, <2>2, <2>3, LocksKept
<1>6. ASSUME NEW r \in Rules, CompleteRule(r) PROVE LocksAreLive' /\ OneOnPage'
    <2>1. watchCalls' = Disturb /\ UNCHANGED <<surface, dialog, candidates, pendingIds>>
        BY <1>6 DEF CompleteRule, controls
    <2>2. \A t \in Slots : /\ Disturb[t].op = watchCalls[t].op
                           /\ watchCalls[t].op # "load" => Disturb[t] = watchCalls[t]
        BY DisturbFacts DEF WatchTypeInv
    <2> QED BY <1>0, <2>1, <2>2, LocksKept
<1> QED BY <1>1, <1>2, <1>3, <1>4, <1>5, <1>6

\* The dialog and the actions of a rule lock while they wait.
LEMMA LocksOfDialog ==
    ASSUME WatchTypeInv, LocksAreLive, OneOnPage,
           \/ CloseCreate \/ SubmitCreate
           \/ \E p \in Piles : OpenCreate(p)
           \/ \E s \in Slots : LandRule(s)
    PROVE  LocksAreLive' /\ OneOnPage'
<1>1. CASE CloseCreate \/ \E p \in Piles : OpenCreate(p)
    <2>1. UNCHANGED <<watchCalls, surface, candidates, pendingIds>>
        BY <1>1 DEF CloseCreate, OpenCreate
    <2>2. dialog' = None \/ dialog'.saving = None
        BY <1>1 DEF CloseCreate, OpenCreate
    <2> QED BY <2>1, <2>2 DEF LocksAreLive, OneOnPage, Waiting
<1>2. ASSUME UNCHANGED <<surface, candidates, pendingIds>>,
             \A t \in Slots : \/ watchCalls'[t].op = watchCalls[t].op
                              \/ {watchCalls[t].op, watchCalls'[t].op} \cap Kinds = {},
             \A t \in Slots : watchCalls[t].op \in Kinds => watchCalls'[t] = watchCalls[t],
             dialog' # None /\ dialog'.saving # None => watchCalls'[dialog'.saving].op = "create"
      PROVE  LocksAreLive' /\ OneOnPage'
    <2>1. Waiting(watchCalls, Kinds)' = Waiting(watchCalls, Kinds)
        BY <1>2 DEF Waiting
    <2>2. \A s \in Waiting(watchCalls, Kinds) : watchCalls'[s] = watchCalls[s]
        BY <1>2 DEF Waiting
    <2> QED BY <1>2, <2>1, <2>2 DEF LocksAreLive, OneOnPage
<1>3. CASE SubmitCreate
    <2> DEFINE call == [op |-> "create", pile |-> dialog.pile, rule |-> None, answer |-> Unanswered]
    <2>1. SendChange(call) /\ dialog' = [dialog EXCEPT !.saving = NextSlot(watchCalls)]
          /\ dialog \in Dialogs /\ UNCHANGED <<surface, candidates, pendingIds>>
        BY <1>3 DEF SubmitCreate, WatchTypeInv
    <2>2. call \in Changes /\ call.op = "create"
        BY <2>1 DEF Changes, CreateCalls, Answers, Dialogs
    <2> HIDE DEF call
    <2>3. PICK s \in Slots : /\ s = NextSlot(watchCalls) /\ watchCalls[s].op = "idle"
                             /\ watchCalls'[s] = call
                             /\ \A t \in Slots \ {s} : watchCalls'[t] = Disturb[t]
        BY <2>1, <2>2, Starts
    <2>4. \A t \in Slots : /\ Disturb[t].op = watchCalls[t].op
                           /\ watchCalls[t].op # "load" => Disturb[t] = watchCalls[t]
        BY DisturbFacts DEF WatchTypeInv
    <2>5. dialog'.saving = s
        BY <2>1, <2>3 DEF Dialogs
    <2> QED BY <1>2, <2>1, <2>2, <2>3, <2>4, <2>5 DEF Kinds
<1>4. ASSUME NEW s \in Slots, LandRule(s) PROVE LocksAreLive' /\ OneOnPage'
    <2>1. /\ watchCalls[s].op = "create" /\ EndWatch(s)
          /\ UNCHANGED <<surface, candidates, pendingIds>>
        BY <1>4 DEF LandRule
    <2>2. watchCalls'[s] = NoCall /\ \A t \in Slots \ {s} : watchCalls'[t] = watchCalls[t]
        BY <2>1, Ends
    <2>3. \/ dialog' = None
          \/ dialog' = dialog /\ ~(dialog # None /\ dialog.saving = s)
          \/ dialog # None /\ dialog' \in {[dialog EXCEPT !.saving = None],
                                           [dialog EXCEPT !.saving = None, !.found = TRUE]}
        BY <1>4 DEF LandRule
    <2>4. dialog' # None /\ dialog'.saving # None => watchCalls'[dialog'.saving].op = "create"
        BY <2>2, <2>3 DEF WatchTypeInv, Dialogs, LocksAreLive
    <2> QED BY <1>2, <2>1, <2>2, <2>4 DEF NoCall, Kinds
<1> QED BY <1>1, <1>3, <1>4

LEMMA LocksOfAction ==
    ASSUME WatchTypeInv, LocksAreLive, OneOnPage,
           \/ \E kind \in Kinds : LeaveAction(kind) \/ ConfirmAction(kind)
           \/ \E kind \in Kinds, r \in Rules : OpenAction(kind, r)
           \/ \E s \in Slots : LandAction(s)
    PROVE  LocksAreLive' /\ OneOnPage'
<1>0. candidates \in [Kinds -> Rules \cup {None}] /\ None \notin Rules
    BY WatchAssumption DEF WatchTypeInv
<1>1. ASSUME NEW kind \in Kinds, NEW r \in Rules, OpenAction(kind, r)
      PROVE  LocksAreLive' /\ OneOnPage'
    <2>1. /\ candidates = NothingOpen /\ candidates' = [candidates EXCEPT ![kind] = r]
          /\ UNCHANGED <<watchCalls, surface, dialog, pendingIds>>
        BY <1>1 DEF OpenAction, RulesUncovered
    <2>2. surface = "page" => Waiting(watchCalls, Kinds) = {}
        <3>1. SUFFICES ASSUME surface = "page", NEW s \in Waiting(watchCalls, Kinds) PROVE FALSE
            OBVIOUS
        <3>2. /\ candidates = [NothingOpen EXCEPT ![watchCalls[s].op] = watchCalls[s].rule]
              /\ watchCalls[s].op \in Kinds /\ watchCalls[s].rule \in Rules
            BY <3>1, CallsByOp DEF LocksAreLive, Waiting, WatchTypeInv
        <3> QED BY <1>0, <2>1, <3>2 DEF NothingOpen
    <2>3. \A k \in Kinds : candidates'[k] # None => k = kind
        BY <1>0, <2>1 DEF NothingOpen
    <2> QED BY <2>1, <2>2, <2>3 DEF LocksAreLive, OneOnPage, Waiting
<1>2. ASSUME NEW kind \in Kinds, LeaveAction(kind) PROVE LocksAreLive' /\ OneOnPage'
    <2>1. /\ surface = "page" => pendingIds = {}
          /\ candidates' = [candidates EXCEPT ![kind] = None]
          /\ UNCHANGED <<watchCalls, surface, dialog, pendingIds>>
        BY <1>2 DEF LeaveAction, MayLeave
    <2>2. surface = "page" => Waiting(watchCalls, Kinds) = {}
        BY <2>1 DEF LocksAreLive
    <2>3. \A k \in Kinds : candidates'[k] # None => candidates[k] # None
        BY <1>0, <2>1
    <2> QED BY <2>1, <2>2, <2>3 DEF LocksAreLive, OneOnPage, Waiting
<1>3. ASSUME NEW kind \in Kinds, ConfirmAction(kind) PROVE LocksAreLive' /\ OneOnPage'
    <2> DEFINE call == [op |-> kind, rule |-> candidates[kind], answer |-> Unanswered]
    <2>1. /\ candidates[kind] \in Rules /\ candidates[kind] # None
          /\ surface = "page" => pendingIds = {}
          /\ pendingIds' = pendingIds \cup {candidates[kind]}
          /\ SendChange(call) /\ UNCHANGED <<surface, dialog, candidates>>
        BY <1>0, <1>3 DEF ConfirmAction
    <2>2. call \in Changes /\ call.op = kind /\ call.rule = candidates[kind]
        BY <2>1 DEF Changes, UpdateCalls, DeleteCalls, Answers, Kinds
    <2> HIDE DEF call
    <2>3. PICK s \in Slots : /\ watchCalls[s].op = "idle" /\ watchCalls'[s] = call
                             /\ \A t \in Slots \ {s} : watchCalls'[t] = Disturb[t]
        BY <2>1, <2>2, Starts
    <2>4. \A t \in Slots : /\ Disturb[t].op = watchCalls[t].op
                           /\ watchCalls[t].op # "load" => Disturb[t] = watchCalls[t]
        BY DisturbFacts DEF WatchTypeInv
    <2>5. \A t \in Slots : /\ watchCalls[t].op \in Kinds \cup {"create"} => watchCalls'[t] = watchCalls[t]
                           /\ watchCalls'[t].op \in Kinds => t = s \/ watchCalls[t].op \in Kinds
        BY <2>3, <2>4 DEF Kinds
    <2>6. ASSUME NEW r \in pendingIds' PROVE \E t \in Waiting(watchCalls, Kinds)' : watchCalls'[t].rule = r
        <3>1. CASE r = candidates[kind]
            BY <2>2, <2>3, <3>1 DEF Waiting
        <3>2. CASE r \in pendingIds
            <4>1. PICK t \in Waiting(watchCalls, Kinds) : watchCalls[t].rule = r
                BY <3>2 DEF LocksAreLive
            <4> QED BY <2>5, <4>1 DEF Waiting
        <3> QED BY <2>1, <3>1, <3>2
    <2>7. dialog' # None /\ dialog'.saving # None => watchCalls'[dialog'.saving].op = "create"
        BY <2>1, <2>5 DEF LocksAreLive, WatchTypeInv, Dialogs
    <2>8. ASSUME surface = "page"
          PROVE  /\ Waiting(watchCalls, Kinds)' = {s} /\ pendingIds' = {candidates[kind]}
                 /\ candidates = [NothingOpen EXCEPT ![kind] = candidates[kind]]
        <3>1. Waiting(watchCalls, Kinds) = {}
            BY <2>1, <2>8 DEF LocksAreLive
        <3>2. Waiting(watchCalls, Kinds)' = {s}
            BY <2>2, <2>3, <2>5, <3>1 DEF Waiting
        <3>3. \A k \in Kinds : k # kind => candidates[k] = None
            BY <2>1, <2>8 DEF OneOnPage
        <3> QED BY <1>0, <2>1, <2>8, <3>2, <3>3 DEF NothingOpen
    <2>9. ASSUME surface' = "page"
          PROVE  /\ \A t \in Waiting(watchCalls, Kinds)' :
                       /\ pendingIds' = {watchCalls'[t].rule}
                       /\ candidates' = [NothingOpen EXCEPT ![watchCalls'[t].op] = watchCalls'[t].rule]
                 /\ \A t, u \in Waiting(watchCalls, Kinds)' : t = u
                 /\ \A k, l \in Kinds : candidates'[k] # None /\ candidates'[l] # None => k = l
        <3>1. \A k, l \in Kinds : candidates[k] # None /\ candidates[l] # None => k = l
            BY <2>1, <2>9 DEF OneOnPage
        <3> QED BY <2>1, <2>2, <2>3, <2>8, <2>9, <3>1
    <2> QED BY <2>6, <2>7, <2>9 DEF LocksAreLive, OneOnPage
<1>4. ASSUME NEW s \in Slots, LandAction(s) PROVE LocksAreLive' /\ OneOnPage'
    <2> DEFINE call == watchCalls[s]
    <2>1. /\ call.op \in Kinds /\ EndWatch(s) /\ UNCHANGED <<surface, dialog>>
          /\ pendingIds' = pendingIds \ {call.rule}
        BY <1>4 DEF LandAction
    <2>2. candidates' \in {candidates, [candidates EXCEPT ![call.op] = None]}
        BY <1>4 DEF LandAction
    <2>3. watchCalls'[s] = NoCall /\ \A t \in Slots \ {s} : watchCalls'[t] = watchCalls[t]
        BY <2>1, Ends
    <2>4. Waiting(watchCalls, Kinds)' = Waiting(watchCalls, Kinds) \ {s} /\ s \in Waiting(watchCalls, Kinds)
        BY <2>1, <2>3 DEF Waiting, NoCall, Kinds
    <2>5. ASSUME NEW r \in pendingIds' PROVE \E t \in Waiting(watchCalls, Kinds)' : watchCalls'[t].rule = r
        <3>1. PICK t \in Waiting(watchCalls, Kinds) : watchCalls[t].rule = r
            BY <2>1 DEF LocksAreLive
        <3>2. t # s
            BY <2>1, <3>1
        <3> QED BY <2>3, <2>4, <3>1, <3>2 DEF Waiting
    <2>6. dialog' # None /\ dialog'.saving # None => watchCalls'[dialog'.saving].op = "create"
        BY <2>1, <2>3 DEF LocksAreLive, WatchTypeInv, Dialogs, Kinds
    <2>7. ASSUME surface' = "page"
          PROVE  /\ Waiting(watchCalls, Kinds)' = {}
                 /\ \A k, l \in Kinds : candidates'[k] # None /\ candidates'[l] # None => k = l
        <3>1. Waiting(watchCalls, Kinds)' = {}
            BY <2>1, <2>4, <2>7 DEF OneOnPage
        <3>2. \A k \in Kinds : candidates'[k] # None => candidates[k] # None
            BY <1>0, <2>2
        <3> QED BY <2>1, <2>7, <3>1, <3>2 DEF OneOnPage
    <2> QED BY <2>5, <2>6, <2>7 DEF LocksAreLive, OneOnPage
<1> QED BY <1>1, <1>2, <1>3, <1>4

\* Every step keeps the locks.
LEMMA LocksStep ==
    ASSUME WatchTypeInv, LocksAreLive, OneOnPage, [WatchNext]_watchVars
    PROVE  LocksAreLive' /\ OneOnPage'
<1>1. CASE UNCHANGED watchVars
    BY <1>1 DEF watchVars, LocksAreLive, OneOnPage, Waiting
<1>2. CASE WatchNext
    BY <1>2, LocksBeside, LocksOfDialog, LocksOfAction DEF WatchNext
<1> QED BY <1>1, <1>2

\* And loads are shared.
LEMMA LoadsStep ==
    ASSUME WatchTypeInv, LoadsAlone, [WatchNext]_watchVars
    PROVE  LoadsAlone'
<1>0. watchCalls \in [Slots -> Calls]
    BY DEF WatchTypeInv
<1>1. ASSUME \A t \in Slots : watchCalls'[t].op = "load" => watchCalls[t].op = "load"
      PROVE  LoadsAlone'
    BY <1>1 DEF LoadsAlone, Waiting
<1>2. CASE LoadWatch
    <2> DEFINE call == [op |-> "load", rules |-> None, count |-> None,
                        alone |-> Busy(watchCalls) = {}, answer |-> Unanswered]
    <2>1. PICK s \in Slots : watchCalls' = [watchCalls EXCEPT ![s] = call]
        BY <1>2, NextSlotIsFree DEF LoadWatch, SendWatch, Begin
    <2>2. \A t \in Slots : watchCalls[t].op # "load"
        BY <1>2 DEF LoadWatch, NoLoadWaits, Waiting
    <2>3. \A t \in Slots \ {s} : watchCalls'[t] = watchCalls[t]
        BY <1>0, <2>1
    <2> QED BY <2>2, <2>3 DEF LoadsAlone, Waiting
<1>3. ASSUME NEW s \in Slots, ServeLoad(s) PROVE LoadsAlone'
    <2>1. watchCalls[s].op = "load" /\ \A t \in Slots \ {s} : watchCalls'[t] = watchCalls[t]
        BY <1>0, <1>3 DEF ServeLoad
    <2> QED BY <1>1, <2>1
<1>4. ASSUME NEW s \in Slots, LandWatchLoad(s) \/ LandRule(s) \/ LandAction(s) PROVE LoadsAlone'
    <2>1. watchCalls'[s] = NoCall /\ \A t \in Slots \ {s} : watchCalls'[t] = watchCalls[t]
        BY <1>4, Ends DEF LandWatchLoad, LandRule, LandAction
    <2> QED BY <1>1, <2>1 DEF NoCall
<1>5. CASE SubmitCreate \/ \E kind \in Kinds : ConfirmAction(kind)
    <2>1. PICK call \in Changes, s \in Slots :
             watchCalls'[s] = call /\ \A t \in Slots \ {s} : watchCalls'[t] = Disturb[t]
        BY <1>5, ChangeSent
    <2>2. call.op # "load" /\ \A t \in Slots : Disturb[t].op = watchCalls[t].op
        BY DisturbFacts DEF Changes, CreateCalls, UpdateCalls, DeleteCalls, WatchTypeInv
    <2> QED BY <1>1, <2>1, <2>2
<1>6. ASSUME NEW s \in Slots, StoreRule(s) \/ ServeCreate(s) \/ ServeAction(s) PROVE LoadsAlone'
    <2>1. PICK call \in Changes : /\ watchCalls' = [watchCalls EXCEPT ![s] = call]
                                  /\ call.op = watchCalls[s].op
        BY <1>6, Served
    <2>2. watchCalls'[s] = call /\ \A t \in Slots \ {s} : watchCalls'[t] = watchCalls[t]
        BY <1>0, <2>1
    <2> QED BY <1>1, <2>1, <2>2
<1>7. ASSUME NEW s \in Slots, LoseWatchAnswer(s) PROVE LoadsAlone'
    <2>1. PICK call \in Calls : /\ watchCalls' = [watchCalls EXCEPT ![s] = call]
                                /\ call.op = watchCalls[s].op
        BY <1>7, Loses
    <2>2. watchCalls'[s] = call /\ \A t \in Slots \ {s} : watchCalls'[t] = watchCalls[t]
        BY <1>0, <2>1
    <2> QED BY <1>1, <2>1, <2>2
<1>8. ASSUME NEW r \in Rules, CompleteRule(r) PROVE LoadsAlone'
    <2>1. watchCalls' = Disturb /\ \A t \in Slots : Disturb[t].op = watchCalls[t].op
        BY <1>8, DisturbFacts DEF CompleteRule, WatchTypeInv
    <2> QED BY <1>1, <2>1
<1>9. CASE UNCHANGED watchCalls
    BY <1>9 DEF LoadsAlone, Waiting
<1>10. /\ UNCHANGED watchVars => UNCHANGED watchCalls
       /\ CloseCreate => UNCHANGED watchCalls
       /\ \A p \in Piles : OpenCreate(p) => UNCHANGED watchCalls
       /\ \A kind \in Kinds : LeaveAction(kind) => UNCHANGED watchCalls
       /\ \A kind \in Kinds, r \in Rules : OpenAction(kind, r) => UNCHANGED watchCalls
    BY DEF watchVars, CloseCreate, OpenCreate, LeaveAction, OpenAction
<1> QED BY <1>2, <1>3, <1>4, <1>5, <1>6, <1>7, <1>8, <1>9, <1>10 DEF WatchNext

-----------------------------------------------------------------------------
(* The theorems *)

WatchInv == WatchTypeInv /\ AloneIsExact /\ AheadByOne /\ LocksAreLive /\ OneOnPage /\ LoadsAlone

\* WatchInv holds of reminders that were just opened, and every step keeps it.
LEMMA WatchInitially == WatchInit => WatchInv
<1> SUFFICES ASSUME WatchInit PROVE WatchInv
    OBVIOUS
<1>1. \A s \in Slots : watchCalls[s].op = "idle"
    BY DEF WatchInit, NoCalls, NoCall
<1>2. pendingIds = {} /\ dialog = None /\ candidates = NothingOpen /\ synced = FALSE
    BY DEF WatchInit
<1>3. AloneIsExact /\ AheadByOne /\ LoadsAlone
    BY <1>1, <1>2 DEF AloneIsExact, AheadByOne, LoadsAlone, Waiting
<1>4. LocksAreLive /\ OneOnPage
    BY <1>1, <1>2 DEF LocksAreLive, OneOnPage, Waiting, NothingOpen, Kinds
<1> QED BY <1>3, <1>4, TypeStart DEF WatchInv

LEMMA WatchInductive == WatchInv /\ [WatchNext]_watchVars => WatchInv'
BY WatchTypeStep, AloneStep, AheadStep, LocksStep, LoadsStep DEF WatchInv

\* Two loads never wait.
LEMMA OneLoadWaits == WatchInv => OneWatchLoad
<1> SUFFICES ASSUME WatchInv PROVE OneWatchLoad
    OBVIOUS
<1>1. CASE Waiting(watchCalls, {"load"}) = {}
    BY <1>1, FS_EmptySet DEF OneWatchLoad
<1>2. ASSUME NEW s \in Waiting(watchCalls, {"load"}) PROVE OneWatchLoad
    <2>1. Waiting(watchCalls, {"load"}) = {s}
        BY DEF WatchInv, LoadsAlone
    <2>2. Cardinality(Waiting(watchCalls, {"load"})) = 1
        BY <2>1, FS_Singleton, Zenon
    <2> QED BY <2>2 DEF OneWatchLoad
<1> QED BY <1>1, <1>2

\* The invariant of the reminders holds in every behaviour of theirs.
THEOREM WatchInvariance == WatchSpec => []WatchInv
<1>1. WatchInit => WatchInv
    BY WatchInitially
<1>2. WatchInv /\ [WatchNext]_watchVars => WatchInv'
    BY WatchInductive
<1> QED BY <1>1, <1>2, PTL DEF WatchSpec

\* The state of the reminders keeps its shape, for any number of rules, piles and requests
\* (watch-context.tsx:57-67).
THEOREM RemindersKeepShape == WatchSpec => []WatchTypeOK
<1>1. WatchInv => WatchTypeOK
    <2>1. \A t \in Tables : DOMAIN t \subseteq Rules /\ \A r \in DOMAIN t : t[r] \in RuleCopy
        BY DEF Tables
    <2>2. WatchTypeInv => \A s \in Slots : watchCalls[s].op \in Kinds \cup {"idle", "load", "create"}
        BY CallsByOp DEF WatchTypeInv
    <2> QED BY <2>1, <2>2 DEF WatchInv, WatchTypeInv, WatchTypeOK, Dialogs
<1> QED BY <1>1, WatchInvariance, PTL

\* The copies of the console are the rows of the backend whenever nothing is on its way and
\* nothing was missed since the last load (watch-context.tsx:69-148).
THEOREM CopiesAreTheRows == WatchSpec => []RulesMatchBackend
<1>1. WatchInv => RulesMatchBackend
    BY DEF WatchInv, AheadByOne, Changing, Busy, Kinds, RulesMatchBackend
<1> QED BY <1>1, WatchInvariance, PTL

\* A row, a dialog and a confirmation are locked only while their request waits, and all who
\* ask for the rules share one load (watch-context.tsx:85-113, reminders-page.tsx:112-138).
THEOREM RemindersUnlock == WatchSpec => [](LocksAreLive /\ OneWatchLoad)
<1>1. WatchInv => OneWatchLoad
    BY OneLoadWaits
<1> QED BY <1>1, WatchInvariance, PTL DEF WatchInv

-----------------------------------------------------------------------------
(* The card: its locks and its poll *)

CardLocksFit(calls, l, b, u, p, t, r) ==
    /\ Shaped(calls, {"alone"})
    /\ Held(Waiting(calls, {"load"}), l) /\ Held(Waiting(calls, {"bind"}), b)
    /\ Held(Waiting(calls, {"unbind"}), u) /\ Held(Waiting(calls, {"setting"}), p)
    /\ Held(Waiting(calls, {"test"}), t) /\ Held(Waiting(calls, {"recheck"}), r)

\* A lock of an operation after a request that may be of it.
TakesOne(op, own, flag, raised) == IF op = own THEN ~flag /\ raised ELSE (raised <=> flag)

FreesOne(op, own, flag, lowered) == IF op = own THEN ~lowered ELSE (lowered <=> flag)

\* The locks as a request is posted, as one ends, and what is known then.
LEMMA CardLocksPosted ==
    ASSUME NEW calls, NEW l, NEW b, NEW u, NEW p, NEW t, NEW r, CardLocksFit(calls, l, b, u, p, t, r),
           Free(calls) # {}, NEW call, NEW used, NEW after, after = Post(calls, call, used),
           "op" \in DOMAIN call, {"answer", "alone"} \cap DOMAIN call = {},
           NEW l2, NEW b2, NEW u2, NEW p2, NEW t2, NEW r2,
           TakesOne(call.op, "load", l, l2), TakesOne(call.op, "bind", b, b2), TakesOne(call.op, "unbind", u, u2),
           TakesOne(call.op, "setting", p, p2), TakesOne(call.op, "test", t, t2),
           TakesOne(call.op, "recheck", r, r2)
    PROVE  IsPosted(calls, call, used, after) /\ CardLocksFit(after, l2, b2, u2, p2, t2, r2)
<1>0. Shaped(calls, {"alone"})
    BY DEF CardLocksFit
<1>1. IsPosted(calls, call, used, after) /\ Shaped(after, {"alone"})
    BY <1>0, ShapedPosted
<1>2. ASSUME NEW op, op # "idle", NEW flag, NEW raised, Held(Waiting(calls, {op}), flag), TakesOne(call.op, op, flag, raised)
      PROVE  Held(Waiting(after, {op}), raised)
    <2>1. IF call.op = op THEN ~flag /\ raised ELSE (raised <=> flag)
        BY <1>2 DEF TakesOne
    <2> QED BY <1>0, <1>1, <1>2, <2>1, WaitingPosted
<1>3. Held(Waiting(after, {"load"}), l2) /\ Held(Waiting(after, {"bind"}), b2)
    BY <1>2 DEF CardLocksFit
<1>4. Held(Waiting(after, {"unbind"}), u2) /\ Held(Waiting(after, {"setting"}), p2)
    BY <1>2 DEF CardLocksFit
<1>5. Held(Waiting(after, {"test"}), t2) /\ Held(Waiting(after, {"recheck"}), r2)
    BY <1>2 DEF CardLocksFit
<1> QED BY <1>1, <1>3, <1>4, <1>5 DEF CardLocksFit

LEMMA CardLocksEnded ==
    ASSUME NEW calls, NEW l, NEW b, NEW u, NEW p, NEW t, NEW r, CardLocksFit(calls, l, b, u, p, t, r),
           NEW s \in Slots, NEW after, after = End(calls, s), NEW l2, NEW b2, NEW u2, NEW p2, NEW t2, NEW r2,
           FreesOne(calls[s].op, "load", l, l2), FreesOne(calls[s].op, "bind", b, b2),
           FreesOne(calls[s].op, "unbind", u, u2), FreesOne(calls[s].op, "setting", p, p2),
           FreesOne(calls[s].op, "test", t, t2), FreesOne(calls[s].op, "recheck", r, r2)
    PROVE  CardLocksFit(after, l2, b2, u2, p2, t2, r2)
<1>0. Shaped(calls, {"alone"}) /\ DOMAIN calls = Slots
    BY DEF CardLocksFit, Shaped
<1>1. Shaped(after, {"alone"})
    BY <1>0, ShapedEnded
<1>2. ASSUME NEW op, op # "idle", NEW flag, NEW lowered, Held(Waiting(calls, {op}), flag),
             FreesOne(calls[s].op, op, flag, lowered)
      PROVE  Held(Waiting(after, {op}), lowered)
    <2>1. IF calls[s].op = op THEN ~lowered ELSE (lowered <=> flag)
        BY <1>2 DEF FreesOne
    <2> QED BY <1>0, <1>2, <2>1, WaitingEnded
<1>3. Held(Waiting(after, {"load"}), l2) /\ Held(Waiting(after, {"bind"}), b2)
    BY <1>2 DEF CardLocksFit
<1>4. Held(Waiting(after, {"unbind"}), u2) /\ Held(Waiting(after, {"setting"}), p2)
    BY <1>2 DEF CardLocksFit
<1>5. Held(Waiting(after, {"test"}), t2) /\ Held(Waiting(after, {"recheck"}), r2)
    BY <1>2 DEF CardLocksFit
<1> QED BY <1>1, <1>3, <1>4, <1>5 DEF CardLocksFit

\* An answer, or the end of a poll, holds and frees nothing.
LEMMA CardLocksKept ==
    ASSUME NEW calls, NEW l, NEW b, NEW u, NEW p, NEW t, NEW r, CardLocksFit(calls, l, b, u, p, t, r),
           NEW after, Shaped(after, {"alone"}),
           \A s \in Slots : after[s].op = calls[s].op \/ (after[s].op = "idle" /\ calls[s].op = "poll")
    PROVE  CardLocksFit(after, l, b, u, p, t, r)
<1>1. ASSUME NEW op \in {"load", "bind", "unbind", "setting", "test", "recheck"}, NEW flag,
             Held(Waiting(calls, {op}), flag)
      PROVE  Held(Waiting(after, {op}), flag)
    <2>1. \A s \in Slots : after[s].op = op <=> calls[s].op = op
        OBVIOUS
    <2> QED BY <1>1, <2>1, WaitingKept
<1>2. Held(Waiting(after, {"load"}), l) /\ Held(Waiting(after, {"bind"}), b)
    BY <1>1 DEF CardLocksFit
<1>3. Held(Waiting(after, {"unbind"}), u) /\ Held(Waiting(after, {"setting"}), p)
    BY <1>1 DEF CardLocksFit
<1>4. Held(Waiting(after, {"test"}), t) /\ Held(Waiting(after, {"recheck"}), r)
    BY <1>1 DEF CardLocksFit
<1> QED BY <1>2, <1>3, <1>4 DEF CardLocksFit

\* Some polls are over: nothing else ends with them.
EndsPolls(calls, after) ==
    DOMAIN after = Slots /\ \A s \in Slots : after[s] = calls[s] \/ (calls[s].op = "poll" /\ after[s] = NoCall)

LEMMA CardPollsGone ==
    ASSUME NEW calls, NEW l, NEW b, NEW u, NEW p, NEW t, NEW r, CardLocksFit(calls, l, b, u, p, t, r),
           NEW after, EndsPolls(calls, after)
    PROVE  CardLocksFit(after, l, b, u, p, t, r)
<1>1. Shaped(calls, {"alone"})
    BY DEF CardLocksFit
<1>2. Shaped(after, {"alone"})
    <2>1. IsCall(NoCall, {"alone"})
        BY DEF IsCall, NoCall
    <2> QED BY <1>1, <2>1 DEF Shaped, EndsPolls
<1>3. \A s \in Slots : after[s].op = calls[s].op \/ (after[s].op = "idle" /\ calls[s].op = "poll")
    BY DEF EndsPolls, NoCall
<1> QED BY <1>2, <1>3, CardLocksKept

-----------------------------------------------------------------------------
(* The card: what it knows of the settings *)

IsChannel(value) == {"bound", "enabled", "events", "test"} \subseteq DOMAIN value

SameSettings(one, other) ==
    one.bound = other.bound /\ one.enabled = other.enabled /\ one.events = other.events

\* A writer that has changed nothing, and whose answer will not either.
Harmless(call) ==
    \/ call.op = "load"
    \/ call.answer = Unanswered
    \/ call.op = "poll" /\ Succeeds(call) /\ call.answer.body # "bound"

NeedsChannel == {"unbind", "setting", "test", "recheck"}

CardKnown(calls, value, shown, known0) ==
    /\ IsChannel(value) /\ (shown = None \/ IsChannel(shown))
    /\ \A s \in Slots : calls[s].op \in NeedsChannel => IsChannel(shown)
    /\ \A s, t \in Slots : calls[s].op \in Writers /\ calls[t].op \in Writers /\ calls[s].alone => s = t
    /\ \A s \in Slots : calls[s].op \in {"load", "setting"} /\ Succeeds(calls[s]) =>
          IsChannel(calls[s].answer.body) /\ (calls[s].alone => SameSettings(calls[s].answer.body, value))
    /\ \A s \in Slots : calls[s].op = "unbind" /\ calls[s].alone =>
          /\ Succeeds(calls[s]) => value.bound = FALSE /\ value.enabled = FALSE
          /\ known0 => shown.events = value.events
    /\ known0 /\ (\A s \in Slots : calls[s].op \in Writers => Harmless(calls[s])) => SameSettings(shown, value)

\* What the card knows as a request is posted, as one ends and as one is answered.
LEMMA CardKnownPosted ==
    ASSUME NEW calls, NEW value, NEW shown, NEW known0, CardKnown(calls, value, shown, known0),
           Shaped(calls, {"alone"}), NEW call, NEW after, IsPosted(calls, call, Writers, after),
           "op" \in DOMAIN call, call.op \in NeedsChannel => IsChannel(shown), NEW next, next => known0
    PROVE  CardKnown(after, value, shown, next)
<1>1. PICK slot \in Slots :
          /\ calls[slot].op = "idle"
          /\ DOMAIN after[slot] = DOMAIN call \cup {"answer", "alone"}
          /\ \A f \in DOMAIN call : after[slot][f] = call[f]
          /\ after[slot].answer = Unanswered
          /\ after[slot].alone <=> \A t \in Slots : calls[t].op \notin Writers
          /\ \A t \in Slots \ {slot} :
                /\ DOMAIN after[t] = DOMAIN calls[t]
                /\ \A f \in DOMAIN calls[t] \ {"alone"} : after[t][f] = calls[t][f]
                /\ call.op \notin Writers \/ calls[t].op \notin Writers => after[t] = calls[t]
                /\ "alone" \in DOMAIN calls[t] /\ call.op \in Writers /\ calls[t].op \in Writers =>
                      after[t].alone = FALSE
    BY DEF IsPosted
<1>2. "idle" \notin Writers /\ "load" \in Writers /\ "unbind" \in Writers /\ "setting" \in Writers
    BY DEF Writers
<1>3. after[slot].op = call.op /\ after[slot].answer = Unanswered /\ ~Succeeds(after[slot])
    BY <1>1 DEF Succeeds, Unanswered
<1>4. ASSUME NEW t \in Slots \ {slot}
      PROVE  /\ after[t].op = calls[t].op
             /\ calls[t].op # "idle" => after[t].answer = calls[t].answer
             /\ calls[t].op \in Writers /\ after[t].alone => after[t] = calls[t]
             /\ call.op \in Writers /\ calls[t].op \in Writers => ~after[t].alone
    <2>1. /\ "op" \in DOMAIN calls[t]
          /\ calls[t].op # "idle" => {"answer", "alone"} \subseteq DOMAIN calls[t]
        BY DEF Shaped, IsCall
    <2>2. after[t].op = calls[t].op
        BY <1>1, <2>1
    <2>3. CASE calls[t].op # "idle"
        <3>1. after[t].answer = calls[t].answer
            BY <1>1, <2>1, <2>3
        <3>2. calls[t].op \in Writers /\ after[t].alone => after[t] = calls[t]
            BY <1>1, <2>1, <2>3
        <3>3. call.op \in Writers /\ calls[t].op \in Writers => ~after[t].alone
            BY <1>1, <2>1, <2>3
        <3> QED BY <2>2, <3>1, <3>2, <3>3
    <2> QED BY <1>2, <2>2, <2>3
<1>5. ASSUME NEW s \in Slots, NEW t \in Slots, after[s].op \in Writers, after[t].op \in Writers, after[s].alone
      PROVE  s = t
    <2>1. CASE s = slot
        <3>1. \A u \in Slots : calls[u].op \notin Writers
            BY <1>1, <1>5, <2>1
        <3> QED BY <1>4, <1>5, <2>1, <3>1
    <2>2. CASE s # slot
        <3>1. after[s] = calls[s] /\ call.op \notin Writers
            BY <1>4, <1>5, <2>2
        <3>2. t # slot
            BY <1>3, <1>5, <3>1
        <3> QED BY <1>4, <1>5, <2>2, <3>1, <3>2 DEF CardKnown
    <2> QED BY <2>1, <2>2
<1>6. ASSUME NEW s \in Slots, after[s].op \in {"load", "setting"}, Succeeds(after[s])
      PROVE  IsChannel(after[s].answer.body) /\ (after[s].alone => SameSettings(after[s].answer.body, value))
    <2>1. s # slot
        BY <1>3, <1>6
    <2>2. calls[s].op \in {"load", "setting"} /\ after[s].answer = calls[s].answer
        BY <1>4, <1>6, <2>1
    <2>3. Succeeds(calls[s])
        BY <1>6, <2>2 DEF Succeeds
    <2>4. after[s].alone => calls[s].alone
        BY <1>2, <1>4, <2>1, <2>2
    <2> QED BY <2>2, <2>3, <2>4 DEF CardKnown
<1>7. ASSUME next, \A s \in Slots : after[s].op \in Writers => Harmless(after[s])
      PROVE  SameSettings(shown, value)
    <2>1. ASSUME NEW s \in Slots, calls[s].op \in Writers
          PROVE  Harmless(calls[s])
        <3>1. s # slot
            BY <1>1, <1>2, <2>1
        <3>2. after[s].op = calls[s].op /\ after[s].answer = calls[s].answer
            BY <1>2, <1>4, <2>1, <3>1
        <3> QED BY <1>7, <2>1, <3>2 DEF Harmless, Succeeds
    <2> QED BY <1>7, <2>1 DEF CardKnown
<1>8. ASSUME NEW s \in Slots, after[s].op = "unbind", after[s].alone
      PROVE  /\ Succeeds(after[s]) => value.bound = FALSE /\ value.enabled = FALSE
             /\ next => shown.events = value.events
    <2>1. CASE s = slot
        <3>1. \A t \in Slots : calls[t].op \notin Writers
            BY <1>1, <1>8, <2>1
        <3>2. next => SameSettings(shown, value)
            BY <3>1 DEF CardKnown
        <3> QED BY <1>3, <2>1, <3>2 DEF SameSettings
    <2>2. CASE s # slot
        <3>1. after[s] = calls[s]
            BY <1>2, <1>4, <1>8, <2>2
        <3> QED BY <1>8, <3>1 DEF CardKnown
    <2> QED BY <2>1, <2>2
<1>9. ASSUME NEW s \in Slots, after[s].op \in NeedsChannel
      PROVE  IsChannel(shown)
    BY <1>3, <1>4, <1>9 DEF CardKnown
<1>10. IsChannel(value) /\ (shown = None \/ IsChannel(shown))
    BY DEF CardKnown
<1> QED BY <1>5, <1>6, <1>7, <1>8, <1>9, <1>10 DEF CardKnown

LEMMA CardKnownEnded ==
    ASSUME NEW calls, DOMAIN calls = Slots, NEW value, NEW shown, NEW known0, CardKnown(calls, value, shown, known0),
           NEW s \in Slots, NEW after, after = End(calls, s), NEW next, NEW seen,
           seen = None \/ IsChannel(seen), IsChannel(shown) => IsChannel(seen),
           \/ ~next
           \/ calls[s].op \in Writers /\ calls[s].alone /\ SameSettings(seen, value)
           \/ known0 /\ SameSettings(seen, shown) /\ (calls[s].op \in Writers => Harmless(calls[s]))
    PROVE  CardKnown(after, value, seen, next)
<1>1. \A t \in Slots : after[t] = IF t = s THEN NoCall ELSE calls[t]
    BY EndedCalls
<1>2. after[s].op = "idle"
    BY <1>1 DEF NoCall
<1>3. \A t \in Slots : after[t].op \in Writers \cup NeedsChannel => t # s /\ after[t] = calls[t]
    BY <1>1, <1>2 DEF Writers, NeedsChannel
<1>4. "load" \in Writers /\ "unbind" \in Writers /\ "setting" \in Writers
    BY DEF Writers
<1>5. ASSUME NEW t \in Slots, after[t].op = "unbind", after[t].alone, next
      PROVE  seen.events = value.events
    <2>1. t # s /\ after[t] = calls[t]
        BY <1>3, <1>4, <1>5
    <2>2. ~(calls[s].op \in Writers /\ calls[s].alone)
        BY <1>4, <1>5, <2>1 DEF CardKnown
    <2>3. known0 /\ SameSettings(seen, shown)
        BY <1>5, <2>2
    <2> QED BY <1>5, <2>1, <2>3 DEF CardKnown, SameSettings
<1>6. ASSUME next, \A t \in Slots : after[t].op \in Writers => Harmless(after[t])
      PROVE  SameSettings(seen, value)
    <2>1. CASE calls[s].op \in Writers /\ calls[s].alone /\ SameSettings(seen, value)
        BY <2>1
    <2>2. CASE known0 /\ SameSettings(seen, shown) /\ (calls[s].op \in Writers => Harmless(calls[s]))
        <3>1. \A t \in Slots : calls[t].op \in Writers => Harmless(calls[t])
            BY <1>1, <1>6, <2>2
        <3>2. SameSettings(shown, value)
            BY <2>2, <3>1 DEF CardKnown
        <3> QED BY <2>2, <3>2 DEF SameSettings
    <2> QED BY <1>6, <2>1, <2>2
<1>7. /\ IsChannel(value) /\ (seen = None \/ IsChannel(seen))
      /\ \A t \in Slots : after[t].op \in NeedsChannel => IsChannel(seen)
    BY <1>3 DEF CardKnown
<1>8. \A t, o \in Slots : after[t].op \in Writers /\ after[o].op \in Writers /\ after[t].alone => t = o
    BY <1>3 DEF CardKnown
<1>9. \A t \in Slots : after[t].op \in {"load", "setting"} /\ Succeeds(after[t]) =>
          IsChannel(after[t].answer.body) /\ (after[t].alone => SameSettings(after[t].answer.body, value))
    BY <1>3, <1>4 DEF CardKnown
<1>10. \A t \in Slots : after[t].op = "unbind" /\ after[t].alone /\ Succeeds(after[t]) =>
          value.bound = FALSE /\ value.enabled = FALSE
    BY <1>3, <1>4 DEF CardKnown
<1> QED BY <1>5, <1>6, <1>7, <1>8, <1>9, <1>10 DEF CardKnown

LEMMA CardKnownTold ==
    ASSUME NEW calls, NEW value, NEW shown, NEW known0, CardKnown(calls, value, shown, known0), Shaped(calls, {"alone"}),
           NEW s \in Slots, calls[s].op # "idle", NEW answer, NEW after, IsTold(calls, s, answer, after), NEW then,
           IsChannel(then),
           calls[s].op \in {"load", "setting"} /\ answer.kind = "ok" =>
               IsChannel(answer.body) /\ SameSettings(answer.body, then),
           calls[s].op = "unbind" => then.events = value.events,
           calls[s].op = "unbind" /\ answer.kind = "ok" => then.bound = FALSE /\ then.enabled = FALSE,
           \/ SameSettings(then, value)
           \/ calls[s].op \in Writers /\ ~Harmless(after[s]),
           calls[s].op \in Writers /\ Harmless(after[s]) => Harmless(calls[s])
    PROVE  CardKnown(after, then, shown, known0)
<1>1. /\ \A t \in Slots \ {s} : after[t] = calls[t]
      /\ DOMAIN after[s] = DOMAIN calls[s]
      /\ \A f \in DOMAIN calls[s] \ {"answer"} : after[s][f] = calls[s][f]
      /\ "answer" \in DOMAIN calls[s] => after[s].answer = answer
    BY ToldCalls DEF Shaped, IsTold
<1>2. after[s].op = calls[s].op /\ after[s].alone = calls[s].alone /\ after[s].answer = answer
    BY <1>1 DEF Shaped, IsCall
<1>3. \A t \in Slots : after[t].op = calls[t].op /\ after[t].alone = calls[t].alone
    BY <1>1, <1>2
<1>4. "load" \in Writers /\ "unbind" \in Writers /\ "setting" \in Writers
    BY DEF Writers
<1>5. ASSUME NEW t \in Slots, t # s, calls[t].op \in Writers, calls[t].alone
      PROVE  SameSettings(then, value)
    BY <1>5 DEF CardKnown
<1>6. ASSUME NEW t \in Slots, after[t].op \in {"load", "setting"}, Succeeds(after[t])
      PROVE  IsChannel(after[t].answer.body) /\ (after[t].alone => SameSettings(after[t].answer.body, then))
    <2>1. CASE t = s
        BY <1>2, <1>6, <2>1 DEF Succeeds
    <2>2. CASE t # s
        <3>1. after[t] = calls[t]
            BY <1>1, <2>2
        <3>2. IsChannel(calls[t].answer.body) /\ (calls[t].alone => SameSettings(calls[t].answer.body, value))
            BY <1>6, <3>1 DEF CardKnown
        <3>3. calls[t].alone => SameSettings(then, value)
            BY <1>4, <1>5, <1>6, <2>2, <3>1
        <3> QED BY <3>1, <3>2, <3>3 DEF SameSettings
    <2> QED BY <2>1, <2>2
<1>7. ASSUME NEW t \in Slots, after[t].op = "unbind", after[t].alone
      PROVE  /\ Succeeds(after[t]) => then.bound = FALSE /\ then.enabled = FALSE
             /\ known0 => shown.events = then.events
    <2>0. calls[t].op = "unbind" /\ calls[t].alone
        BY <1>3, <1>7
    <2>1. CASE t = s
        <3>1. Succeeds(after[t]) => then.bound = FALSE /\ then.enabled = FALSE
            BY <1>2, <2>0, <2>1 DEF Succeeds
        <3>2. known0 => shown.events = value.events
            BY <2>0 DEF CardKnown
        <3> QED BY <2>0, <2>1, <3>1, <3>2
    <2>2. CASE t # s
        <3>1. after[t] = calls[t]
            BY <1>1, <2>2
        <3>2. SameSettings(then, value)
            BY <1>4, <1>5, <2>0, <2>2
        <3>3. /\ Succeeds(calls[t]) => value.bound = FALSE /\ value.enabled = FALSE
              /\ known0 => shown.events = value.events
            BY <2>0 DEF CardKnown
        <3> QED BY <3>1, <3>2, <3>3 DEF SameSettings
    <2> QED BY <2>1, <2>2
<1>8. ASSUME known0, \A t \in Slots : after[t].op \in Writers => Harmless(after[t])
      PROVE  SameSettings(shown, then)
    <2>1. SameSettings(then, value)
        BY <1>3, <1>8
    <2>2. \A t \in Slots : calls[t].op \in Writers => Harmless(calls[t])
        BY <1>1, <1>3, <1>8
    <2>3. SameSettings(shown, value)
        BY <1>8, <2>2 DEF CardKnown
    <2> QED BY <2>1, <2>3 DEF SameSettings
<1>9. /\ shown = None \/ IsChannel(shown)
      /\ \A t \in Slots : after[t].op \in NeedsChannel => IsChannel(shown)
      /\ \A t, o \in Slots : after[t].op \in Writers /\ after[o].op \in Writers /\ after[t].alone => t = o
    BY <1>3 DEF CardKnown
<1> QED BY <1>6, <1>7, <1>8, <1>9 DEF CardKnown

LEMMA CardKnownGone ==
    ASSUME NEW calls, NEW value, NEW shown, NEW known0, CardKnown(calls, value, shown, known0),
           NEW after, EndsPolls(calls, after), NEW next,
           next => known0 /\ \A s \in Slots : after[s] = calls[s] \/ Harmless(calls[s])
    PROVE  CardKnown(after, value, shown, next)
<1>1. NoCall.op = "idle"
    BY DEF NoCall
<1>2. \A s \in Slots : after[s].op \in Writers \cup NeedsChannel \cup {"load", "setting", "unbind"} =>
          after[s] = calls[s]
    BY <1>1 DEF Writers, NeedsChannel, EndsPolls
<1>3. ASSUME next, \A s \in Slots : after[s].op \in Writers => Harmless(after[s])
      PROVE  SameSettings(shown, value)
    <2>1. \A s \in Slots : calls[s].op \in Writers => Harmless(calls[s])
        BY <1>3
    <2> QED BY <1>3, <2>1 DEF CardKnown
<1> QED BY <1>2, <1>3 DEF CardKnown

\* A change that comes from elsewhere: what is on its way is no longer alone.
LEMMA CardKnownCrossed ==
    ASSUME NEW calls, NEW value, NEW shown, NEW known0, CardKnown(calls, value, shown, known0),
           Shaped(calls, {"alone"}), NEW after, after = Crossed(calls, Writers), NEW then, IsChannel(then),
           NEW next, ~next
    PROVE  CardKnown(after, then, shown, next)
<1>1. ASSUME NEW t \in Slots
      PROVE  /\ after[t].op = calls[t].op
             /\ calls[t].op \in Writers => after[t].answer = calls[t].answer /\ ~after[t].alone
    <2>1. PICK call : call = calls[t]
        OBVIOUS
    <2>2. "op" \in DOMAIN call /\ (call.op # "idle" => {"answer", "alone"} \subseteq DOMAIN call)
        BY <2>1 DEF Shaped, IsCall
    <2>3. after[t] = IF call.op \in Writers THEN [call EXCEPT !.alone = FALSE] ELSE call
        BY <2>1 DEF Crossed
    <2>4. CASE call.op \notin Writers
        BY <2>1, <2>3, <2>4
    <2>5. CASE call.op \in Writers
        <3>1. after[t] = [call EXCEPT !.alone = FALSE] /\ call.op # "idle"
            BY <2>3, <2>5 DEF Writers
        <3> QED BY <2>1, <2>2, <3>1
    <2> QED BY <2>4, <2>5
<1>2. "load" \in Writers /\ "unbind" \in Writers /\ "setting" \in Writers
    BY DEF Writers
<1> QED BY <1>1, <1>2 DEF CardKnown, Succeeds

-----------------------------------------------------------------------------
(* The card: its invariant *)

SwitchWaits(switch) == switch # None

CardLocks ==
    CardLocksFit(cardCalls, channelLoading, fetchingCode, unbinding, SwitchWaits(pendingSetting), testing, rechecking)

CardFits ==
    /\ CardLocks
    /\ CardKnown(cardCalls, wx, channel, settled)
    /\ confirmUnbind => IsChannel(channel)

\* The flag is held by the poll that would be aborted; unless another one strayed, it is the
\* only one, in front of the user and for a code that can be scanned.
PollFits(calls, flag, ref, open, session0, fetching, away) ==
    /\ flag => ref # None
    /\ ref # None => ref \in Slots /\ calls[ref].op = "poll"
    /\ fetching => ~open
    /\ away \/ \A s \in Slots : calls[s].op = "poll" => s = ref /\ flag /\ open /\ session0 = "waiting"

PollsFit == PollFits(cardCalls, pollInFlight, pollRef, bindOpen, cardSession, fetchingCode, strayed)

CardInv == CardFits /\ PollsFit

\* What stopPolling leaves.
LEMMA CardStopped ==
    ASSUME CardFits, PollsFit
    PROVE  /\ EndsPolls(cardCalls, StopPolling(cardCalls))
           /\ \A s \in Slots : StopPolling(cardCalls)[s] = IF s = pollRef THEN NoCall ELSE cardCalls[s]
<1>1. DOMAIN cardCalls = Slots
    BY DEF CardFits, CardLocks, CardLocksFit, Shaped
<1>2. CASE pollRef = None
    BY <1>1, <1>2, CardAssumption DEF StopPolling, EndsPolls
<1>3. CASE pollRef # None
    <2>1. pollRef \in Slots /\ cardCalls[pollRef].op = "poll"
        BY <1>3 DEF PollsFit, PollFits
    <2>2. StopPolling(cardCalls) = End(cardCalls, pollRef)
        BY <1>3 DEF StopPolling
    <2> QED BY <1>1, <2>1, <2>2, EndedCalls DEF EndsPolls
<1> QED BY <1>2, <1>3

\* Every request of the card that a handler starts.
LEMMA CardSent ==
    ASSUME CardFits, NEW call, SendCard(call), "op" \in DOMAIN call, {"answer", "alone"} \cap DOMAIN call = {},
           TakesOne(call.op, "load", channelLoading, channelLoading'),
           TakesOne(call.op, "bind", fetchingCode, fetchingCode'),
           TakesOne(call.op, "unbind", unbinding, unbinding'),
           TakesOne(call.op, "setting", SwitchWaits(pendingSetting), SwitchWaits(pendingSetting')),
           TakesOne(call.op, "test", testing, testing'), TakesOne(call.op, "recheck", rechecking, rechecking'),
           UNCHANGED <<wx, channel, settled, confirmUnbind>>,
           call.op \in NeedsChannel => IsChannel(channel)
    PROVE  CardFits'
<1>1. PICK after : after = cardCalls'
    OBVIOUS
<1>2. after = Post(cardCalls, call, Writers) /\ Free(cardCalls) # {}
    BY <1>1 DEF SendCard
<1>3. /\ IsPosted(cardCalls, call, Writers, after)
      /\ CardLocksFit(after, channelLoading', fetchingCode', unbinding', SwitchWaits(pendingSetting'), testing',
                      rechecking')
    BY <1>2, CardLocksPosted DEF CardFits, CardLocks
<1>4. Shaped(cardCalls, {"alone"})
    BY DEF CardFits, CardLocks, CardLocksFit
<1>5. CardKnown(after, wx, channel, settled)
    <2>1. CardKnown(cardCalls, wx, channel, settled)
        BY DEF CardFits
    <2> QED BY <1>3, <1>4, <2>1, CardKnownPosted
<1>7. CardLocks' /\ CardKnown(cardCalls, wx, channel, settled)'
    BY <1>1, <1>3, <1>5 DEF CardLocks
<1>8. (confirmUnbind => IsChannel(channel))'
    BY DEF CardFits
<1> QED BY <1>7, <1>8 DEF CardFits

\* A request of the card ends.
LEMMA CardEnded ==
    ASSUME CardFits, NEW s \in Slots, cardCalls' = End(cardCalls, s),
           FreesOne(cardCalls[s].op, "load", channelLoading, channelLoading'),
           FreesOne(cardCalls[s].op, "bind", fetchingCode, fetchingCode'),
           FreesOne(cardCalls[s].op, "unbind", unbinding, unbinding'),
           FreesOne(cardCalls[s].op, "setting", SwitchWaits(pendingSetting), SwitchWaits(pendingSetting')),
           FreesOne(cardCalls[s].op, "test", testing, testing'),
           FreesOne(cardCalls[s].op, "recheck", rechecking, rechecking'),
           UNCHANGED wx, channel' = None \/ IsChannel(channel'), IsChannel(channel) => IsChannel(channel'),
           \/ ~settled'
           \/ cardCalls[s].op \in Writers /\ cardCalls[s].alone /\ SameSettings(channel', wx)
           \/ settled /\ SameSettings(channel', channel) /\ (cardCalls[s].op \in Writers => Harmless(cardCalls[s])),
           confirmUnbind' => confirmUnbind
    PROVE  CardFits'
<1>1. PICK after : after = cardCalls'
    OBVIOUS
<1>2. CardLocksFit(after, channelLoading', fetchingCode', unbinding', SwitchWaits(pendingSetting'), testing',
                   rechecking')
    BY <1>1, CardLocksEnded DEF CardFits, CardLocks
<1>3. DOMAIN cardCalls = Slots
    BY DEF CardFits, CardLocks, CardLocksFit, Shaped
<1>4. CardKnown(after, wx, channel', settled')
    <2>1. CardKnown(cardCalls, wx, channel, settled)
        BY DEF CardFits
    <2> QED BY <1>1, <1>3, <2>1, CardKnownEnded
<1>6. CardLocks' /\ CardKnown(cardCalls, wx, channel, settled)'
    BY <1>1, <1>2, <1>4 DEF CardLocks
<1>7. (confirmUnbind => IsChannel(channel))'
    BY DEF CardFits
<1> QED BY <1>6, <1>7 DEF CardFits

\* The backend answers, or the answer is lost.
LEMMA CardTold ==
    ASSUME CardFits, NEW s \in Slots, cardCalls[s].op # "idle", NEW answer,
           cardCalls' = [cardCalls EXCEPT ![s].answer = answer],
           UNCHANGED <<channel, loads, dialogs, locks, settled>>, IsChannel(wx'),
           cardCalls[s].op \in {"load", "setting"} /\ answer.kind = "ok" =>
               IsChannel(answer.body) /\ SameSettings(answer.body, wx'),
           cardCalls[s].op = "unbind" => wx'.events = wx.events,
           cardCalls[s].op = "unbind" /\ answer.kind = "ok" => wx'.bound = FALSE /\ wx'.enabled = FALSE,
           \/ SameSettings(wx', wx)
           \/ /\ cardCalls[s].op \in {"poll", "unbind", "setting"} /\ answer.kind = "ok"
              /\ cardCalls[s].op = "poll" => answer.body = "bound",
           cardCalls[s].answer = Unanswered \/ answer = Lost
    PROVE  CardFits'
<1>1. PICK after : after = cardCalls'
    OBVIOUS
<1>2. IsTold(cardCalls, s, answer, after)
    BY <1>1 DEF IsTold
<1>3. Shaped(cardCalls, {"alone"})
    BY DEF CardFits, CardLocks, CardLocksFit
<1>4. /\ \A t \in Slots \ {s} : after[t] = cardCalls[t]
      /\ \A f \in DOMAIN cardCalls[s] \ {"answer"} : after[s][f] = cardCalls[s][f]
      /\ "answer" \in DOMAIN cardCalls[s] => after[s].answer = answer
    BY <1>1, <1>3, ToldCalls DEF Shaped
<1>5. after[s].op = cardCalls[s].op /\ after[s].answer = answer
    BY <1>3, <1>4 DEF Shaped, IsCall
<1>6. \A t \in Slots : after[t].op = cardCalls[t].op
    BY <1>4, <1>5
<1>7. CardLocksFit(after, channelLoading, fetchingCode, unbinding, SwitchWaits(pendingSetting), testing, rechecking)
    <2>1. Shaped(after, {"alone"})
        BY <1>1, <1>3, ShapedTold
    <2> QED BY <1>6, <2>1, CardLocksKept DEF CardFits, CardLocks
<1>9. PICK then : then = wx'
    OBVIOUS
<1>10. CardKnown(after, then, channel, settled)
    <2>1. CardKnown(cardCalls, wx, channel, settled)
        BY DEF CardFits
    <2>2. Unanswered.kind = "none"
        BY DEF Unanswered
    <2>3. SameSettings(then, wx) \/ (cardCalls[s].op \in Writers /\ ~Harmless(after[s]))
        <3>1. CASE SameSettings(wx', wx)
            BY <1>9, <3>1
        <3>2. CASE /\ cardCalls[s].op \in {"poll", "unbind", "setting"} /\ answer.kind = "ok"
                   /\ cardCalls[s].op = "poll" => answer.body = "bound"
            <4>1. ~Harmless(after[s])
                BY <1>5, <2>2, <3>2 DEF Harmless
            <4> QED BY <3>2, <4>1 DEF Writers
        <3> QED BY <3>1, <3>2
    <2>4. cardCalls[s].op \in Writers /\ Harmless(after[s]) => Harmless(cardCalls[s])
        <3>1. CASE cardCalls[s].answer = Unanswered
            BY <3>1 DEF Harmless
        <3>2. CASE answer = Lost
            <4>1. Lost # Unanswered /\ Lost.kind # "ok"
                BY DEF Lost, Unanswered
            <4>2. Harmless(after[s]) => after[s].op = "load"
                BY <1>5, <3>2, <4>1 DEF Harmless, Succeeds
            <4> QED BY <1>5, <4>2 DEF Harmless
        <3> QED BY <3>1, <3>2
    <2>5. /\ IsChannel(then)
          /\ cardCalls[s].op \in {"load", "setting"} /\ answer.kind = "ok" =>
                 IsChannel(answer.body) /\ SameSettings(answer.body, then)
          /\ cardCalls[s].op = "unbind" => then.events = wx.events
          /\ cardCalls[s].op = "unbind" /\ answer.kind = "ok" => then.bound = FALSE /\ then.enabled = FALSE
        BY <1>9
    <2> QED BY <1>2, <1>3, <2>1, <2>3, <2>4, <2>5, CardKnownTold
<1>11. CardLocks' /\ CardKnown(cardCalls, wx, channel, settled)'
    BY <1>1, <1>7, <1>9, <1>10 DEF CardLocks, loads, dialogs, locks
<1>12. (confirmUnbind => IsChannel(channel))'
    BY DEF CardFits, dialogs
<1> QED BY <1>11, <1>12 DEF CardFits

-----------------------------------------------------------------------------
(* The card: its handlers *)

\* Of a card whose requests stay, a step that leaves the settings keeps what is known.
LEMMA CardQuiet ==
    ASSUME CardFits, UNCHANGED <<cardCalls, channel, settled, locks, channelLoading>>,
           IsChannel(wx'), SameSettings(wx', wx),
           confirmUnbind' => confirmUnbind \/ IsChannel(channel)
    PROVE  CardFits'
<1>1. CardLocks'
    BY DEF CardFits, CardLocks, locks
<1>3. PICK then : then = wx'
    OBVIOUS
<1>4. CardKnown(cardCalls, then, channel, settled)
    <2>1. CardKnown(cardCalls, wx, channel, settled)
        BY DEF CardFits
    <2>2. IsChannel(then) /\ then.bound = wx.bound /\ then.enabled = wx.enabled /\ then.events = wx.events
        BY <1>3 DEF SameSettings
    <2> QED BY <2>1, <2>2 DEF CardKnown, SameSettings
<1>5. CardKnown(cardCalls, wx, channel, settled)'
    BY <1>3, <1>4
<1>6. (confirmUnbind => IsChannel(channel))'
    BY DEF CardFits
<1> QED BY <1>1, <1>5, <1>6 DEF CardFits

\* Only a channel that is there is asked about.
LEMMA CardShown ==
    ASSUME CardFits, CardBody = "bound"
    PROVE  IsChannel(channel)
<1>1. channel # None
    BY DEF CardBody
<1> QED BY <1>1 DEF CardFits, CardKnown

\* The dialogs of the card, the scan of its code and the dispatcher.
LEMMA CardSetsAside ==
    ASSUME CardFits, AskUnbind \/ CancelUnbind \/ ScanCode \/ CodeExpires \/ Dispatch
    PROVE  CardFits'
<1>0. IsChannel(wx)
    BY DEF CardFits, CardKnown
<1>1. UNCHANGED <<cardCalls, channel, settled, locks, channelLoading>>
    BY DEF AskUnbind, CancelUnbind, ScanCode, CodeExpires, Dispatch, loads, dialogs
<1>2. confirmUnbind' => confirmUnbind \/ IsChannel(channel)
    BY CardShown DEF AskUnbind, CancelUnbind, ScanCode, CodeExpires, Dispatch, dialogs
<1>3. IsChannel(wx') /\ SameSettings(wx', wx)
    <2>1. CASE wx' = wx
        BY <1>0, <2>1 DEF SameSettings
    <2>2. CASE Dispatch
        <3>1. PICK status : wx' = [wx EXCEPT !.test = status]
            BY <2>2 DEF Dispatch
        <3> QED BY <1>0, <3>1 DEF IsChannel, SameSettings
    <2> QED BY <2>1, <2>2 DEF AskUnbind, CancelUnbind, ScanCode, CodeExpires, provided
<1> QED BY <1>1, <1>2, <1>3, CardQuiet

\* A poll is over when its dialog is.
LEMMA CardStops ==
    ASSUME CardFits, PollsFit, CloseBinding \/ SessionRunsOut
    PROVE  CardFits'
<1>1. PICK after : after = cardCalls'
    OBVIOUS
<1>2. /\ after = StopPolling(cardCalls) /\ (settled' <=> settled /\ after = cardCalls)
      /\ UNCHANGED <<wx, channel, channelLoading, locks, confirmUnbind>>
    BY <1>1 DEF CloseBinding, SessionRunsOut, Stops, loads, dialogs, provided
<1>3. EndsPolls(cardCalls, after)
    BY <1>2, CardStopped
<1>4. CardLocksFit(after, channelLoading, fetchingCode, unbinding, SwitchWaits(pendingSetting), testing, rechecking)
    BY <1>3, CardPollsGone DEF CardFits, CardLocks
<1>5. CardKnown(after, wx, channel, settled')
    <2>1. CardKnown(cardCalls, wx, channel, settled)
        BY DEF CardFits
    <2>2. settled' => settled /\ \A s \in Slots : after[s] = cardCalls[s] \/ Harmless(cardCalls[s])
        BY <1>2
    <2> QED BY <1>3, <2>1, <2>2, CardKnownGone
<1>6. CardLocks' /\ CardKnown(cardCalls, wx, channel, settled)'
    BY <1>1, <1>2, <1>4, <1>5 DEF CardLocks, locks
<1>7. (confirmUnbind => IsChannel(channel))'
    BY <1>2 DEF CardFits
<1> QED BY <1>6, <1>7 DEF CardFits

\* Another page removes the binding.
LEMMA CardCrossed ==
    ASSUME CardFits, UnbindElsewhere
    PROVE  CardFits'
<1>1. PICK after : after = cardCalls'
    OBVIOUS
<1>2. PICK then : then = wx'
    OBVIOUS
<1>3. /\ after = Crossed(cardCalls, Writers) /\ ~settled'
      /\ UNCHANGED <<channel, channelLoading, locks, confirmUnbind>>
      /\ then = [wx EXCEPT !.bound = FALSE, !.enabled = FALSE]
    BY <1>1, <1>2 DEF UnbindElsewhere, loads, dialogs
<1>4. Shaped(cardCalls, {"alone"}) /\ IsChannel(wx)
    BY DEF CardFits, CardLocks, CardLocksFit, CardKnown
<1>5. IsChannel(then)
    BY <1>3, <1>4 DEF IsChannel
<1>6. CardKnown(after, then, channel, settled')
    <2>1. CardKnown(cardCalls, wx, channel, settled)
        BY DEF CardFits
    <2> QED BY <1>3, <1>4, <1>5, <2>1, CardKnownCrossed
<1>7. CardLocksFit(after, channelLoading, fetchingCode, unbinding, SwitchWaits(pendingSetting), testing, rechecking)
    <2>1. Shaped(after, {"alone"}) /\ \A s \in Slots : after[s].op = cardCalls[s].op
        <3>1. /\ Shaped(after, {"alone"})
              /\ \A t \in Slots : \A f \in DOMAIN cardCalls[t] \ {"alone"} : after[t][f] = cardCalls[t][f]
            BY <1>3, <1>4, ShapedCrossed
        <3> QED BY <1>4, <3>1 DEF Shaped, IsCall
    <2> QED BY <2>1, CardLocksKept DEF CardFits, CardLocks
<1>8. CardLocks' /\ CardKnown(cardCalls, wx, channel, settled)'
    BY <1>1, <1>2, <1>3, <1>6, <1>7 DEF CardLocks, locks
<1>9. (confirmUnbind => IsChannel(channel))'
    BY <1>3 DEF CardFits
<1> QED BY <1>8, <1>9 DEF CardFits

\* The requests that the user or a timer starts.
LEMMA CardLoads ==
    ASSUME CardFits, LoadChannel
    PROVE  CardFits'
<1>1. PICK call : call = [op |-> "load", then |-> "none"]
    OBVIOUS
<1>2. call.op = "load" /\ DOMAIN call = {"op", "then"}
    BY <1>1
<1>3. SendCard(call) /\ Waiting(cardCalls, {"load"}) = {} /\ channelLoading'
    BY <1>1 DEF LoadChannel
<1>4. UNCHANGED <<wx, channel, settled, confirmUnbind, locks>>
    BY DEF LoadChannel, provided, dialogs
<1>5. Held(Waiting(cardCalls, {"load"}), channelLoading)
    BY DEF CardFits, CardLocks, CardLocksFit
<1>6. ~channelLoading
    BY <1>3, <1>5 DEF Held
<1>7. /\ TakesOne(call.op, "load", channelLoading, channelLoading')
      /\ TakesOne(call.op, "bind", fetchingCode, fetchingCode')
      /\ TakesOne(call.op, "unbind", unbinding, unbinding')
      /\ TakesOne(call.op, "setting", SwitchWaits(pendingSetting), SwitchWaits(pendingSetting'))
      /\ TakesOne(call.op, "test", testing, testing') /\ TakesOne(call.op, "recheck", rechecking, rechecking')
    BY <1>2, <1>3, <1>4, <1>6 DEF TakesOne, locks
<1>8. call.op \notin NeedsChannel
    BY <1>2 DEF NeedsChannel
<1> QED BY <1>2, <1>3, <1>4, <1>7, <1>8, CardSent

\* What the user does: he binds, the card polls, he unbinds, changes a setting or tests.
LEMMA CardBinds ==
    ASSUME CardFits, BeginBinding
    PROVE  CardFits'
<1>1. CASE UNCHANGED <<fetchingCode, cardCalls, cardCount>>
    <2>1. UNCHANGED <<cardCalls, channel, settled, locks, channelLoading, wx, confirmUnbind>>
        BY <1>1 DEF BeginBinding, loads, locks, provided
    <2>2. IsChannel(wx') /\ SameSettings(wx', wx)
        BY <2>1 DEF CardFits, CardKnown, SameSettings
    <2> QED BY <2>1, <2>2, CardQuiet
<1>2. CASE SendCard([op |-> "bind"]) /\ fetchingCode' = TRUE
    <2>1. PICK call : call = [op |-> "bind"]
        OBVIOUS
    <2>2. call.op = "bind" /\ DOMAIN call = {"op"}
        BY <2>1
    <2>3. SendCard(call) /\ fetchingCode' /\ ~fetchingCode
        BY <1>2, <2>1 DEF BeginBinding
    <2>4. UNCHANGED <<wx, channel, settled, confirmUnbind, channelLoading, unbinding, pendingSetting, testing,
                      rechecking>>
        BY <1>2 DEF BeginBinding, provided, loads
    <2>5. /\ TakesOne(call.op, "load", channelLoading, channelLoading')
          /\ TakesOne(call.op, "bind", fetchingCode, fetchingCode')
          /\ TakesOne(call.op, "unbind", unbinding, unbinding')
          /\ TakesOne(call.op, "setting", SwitchWaits(pendingSetting), SwitchWaits(pendingSetting'))
          /\ TakesOne(call.op, "test", testing, testing') /\ TakesOne(call.op, "recheck", rechecking, rechecking')
        BY <2>2, <2>3, <2>4 DEF TakesOne
    <2>6. call.op \notin NeedsChannel
        BY <2>2 DEF NeedsChannel
    <2> QED BY <2>2, <2>3, <2>4, <2>5, <2>6, CardSent
<1> QED BY <1>1, <1>2 DEF BeginBinding

LEMMA CardPolls ==
    ASSUME CardFits, Poll
    PROVE  CardFits'
<1>1. PICK call : call = [op |-> "poll", code |-> cardCode]
    OBVIOUS
<1>2. call.op = "poll" /\ DOMAIN call = {"op", "code"}
    BY <1>1
<1>3. SendCard(call)
    BY <1>1 DEF Poll
<1>4. UNCHANGED <<wx, channel, settled, confirmUnbind, locks, channelLoading>>
    BY DEF Poll, provided, dialogs, loads
<1>5. /\ TakesOne(call.op, "load", channelLoading, channelLoading')
      /\ TakesOne(call.op, "bind", fetchingCode, fetchingCode')
      /\ TakesOne(call.op, "unbind", unbinding, unbinding')
      /\ TakesOne(call.op, "setting", SwitchWaits(pendingSetting), SwitchWaits(pendingSetting'))
      /\ TakesOne(call.op, "test", testing, testing') /\ TakesOne(call.op, "recheck", rechecking, rechecking')
    BY <1>2, <1>4 DEF TakesOne, locks
<1>6. call.op \notin NeedsChannel
    BY <1>2 DEF NeedsChannel
<1> QED BY <1>2, <1>3, <1>4, <1>5, <1>6, CardSent

LEMMA CardUnbinds ==
    ASSUME CardFits, Unbind
    PROVE  CardFits'
<1>1. PICK call : call = [op |-> "unbind"]
    OBVIOUS
<1>2. call.op = "unbind" /\ DOMAIN call = {"op"}
    BY <1>1
<1>3. SendCard(call) /\ unbinding' /\ ~unbinding /\ confirmUnbind
    BY <1>1 DEF Unbind
<1>4. UNCHANGED <<wx, channel, settled, confirmUnbind, channelLoading, fetchingCode,
                  pendingSetting, testing, rechecking>>
    BY DEF Unbind, provided, dialogs, loads
<1>5. /\ TakesOne(call.op, "load", channelLoading, channelLoading')
      /\ TakesOne(call.op, "bind", fetchingCode, fetchingCode')
      /\ TakesOne(call.op, "unbind", unbinding, unbinding')
      /\ TakesOne(call.op, "setting", SwitchWaits(pendingSetting), SwitchWaits(pendingSetting'))
      /\ TakesOne(call.op, "test", testing, testing') /\ TakesOne(call.op, "recheck", rechecking, rechecking')
    BY <1>2, <1>3, <1>4 DEF TakesOne
<1>6. IsChannel(channel)
    BY <1>3 DEF CardFits
<1> QED BY <1>2, <1>3, <1>4, <1>5, <1>6, CardSent

LEMMA CardChanges ==
    ASSUME CardFits, NEW switch, switch # None, NEW patch, Change(switch, patch)
    PROVE  CardFits'
<1>1. PICK call : call = [op |-> "setting", switch |-> switch, patch |-> patch]
    OBVIOUS
<1>2. call.op = "setting" /\ DOMAIN call = {"op", "switch", "patch"}
    BY <1>1
<1>3. SendCard(call) /\ pendingSetting' = switch /\ pendingSetting = None
    BY <1>1 DEF Change, SwitchFree
<1>4. UNCHANGED <<wx, channel, settled, confirmUnbind, channelLoading, fetchingCode,
                  unbinding, testing, rechecking>>
    BY DEF Change, provided, dialogs, loads
<1>5. /\ TakesOne(call.op, "load", channelLoading, channelLoading')
      /\ TakesOne(call.op, "bind", fetchingCode, fetchingCode')
      /\ TakesOne(call.op, "unbind", unbinding, unbinding')
      /\ TakesOne(call.op, "setting", SwitchWaits(pendingSetting), SwitchWaits(pendingSetting'))
      /\ TakesOne(call.op, "test", testing, testing') /\ TakesOne(call.op, "recheck", rechecking, rechecking')
    BY <1>2, <1>3, <1>4 DEF TakesOne, SwitchWaits
<1>6. IsChannel(channel)
    BY CardShown DEF Change
<1> QED BY <1>2, <1>3, <1>4, <1>5, <1>6, CardSent

LEMMA CardTests ==
    ASSUME CardFits, SendTest \/ RecheckTest
    PROVE  CardFits'
<1>1. PICK call : \/ SendTest /\ call = [op |-> "test", shown |-> channel]
                  \/ RecheckTest /\ call = [op |-> "recheck", shown |-> channel]
    OBVIOUS
<1>2. call.op \in {"test", "recheck"} /\ DOMAIN call = {"op", "shown"}
    BY <1>1
<1>3. SendCard(call)
    BY <1>1 DEF SendTest, RecheckTest
<1>4. UNCHANGED <<wx, channel, settled, confirmUnbind, channelLoading, fetchingCode,
                  unbinding, pendingSetting>>
    BY DEF SendTest, RecheckTest, provided, dialogs, loads
<1>5. /\ TakesOne(call.op, "load", channelLoading, channelLoading')
      /\ TakesOne(call.op, "bind", fetchingCode, fetchingCode')
      /\ TakesOne(call.op, "unbind", unbinding, unbinding')
      /\ TakesOne(call.op, "setting", SwitchWaits(pendingSetting), SwitchWaits(pendingSetting'))
    BY <1>2, <1>4 DEF TakesOne
<1>6. TakesOne(call.op, "test", testing, testing') /\ TakesOne(call.op, "recheck", rechecking, rechecking')
    BY <1>1 DEF SendTest, RecheckTest, TakesOne
<1>7. IsChannel(channel)
    BY CardShown DEF SendTest, RecheckTest
<1> QED BY <1>2, <1>3, <1>4, <1>5, <1>6, <1>7, CardSent

\* How the locks end with the request that holds one of them.
LEMMA CardLands ==
    ASSUME CardFits, NEW s \in Slots,
           \/ LandChannel(s) \/ LandBinding(s) \/ LandUnbind(s) \/ LandSetting(s) \/ LandTest(s)
    PROVE  /\ FreesOne(cardCalls[s].op, "load", channelLoading, channelLoading')
           /\ FreesOne(cardCalls[s].op, "bind", fetchingCode, fetchingCode')
           /\ FreesOne(cardCalls[s].op, "unbind", unbinding, unbinding')
           /\ FreesOne(cardCalls[s].op, "setting", SwitchWaits(pendingSetting), SwitchWaits(pendingSetting'))
           /\ FreesOne(cardCalls[s].op, "test", testing, testing')
           /\ FreesOne(cardCalls[s].op, "recheck", rechecking, rechecking')
           /\ cardCalls' = End(cardCalls, s) /\ UNCHANGED wx
           /\ confirmUnbind' => confirmUnbind
<1>1. PICK call : call = cardCalls[s]
    OBVIOUS
<1>2. CASE LandChannel(s)
    <2>1. /\ call.op = "load" /\ ~channelLoading' /\ cardCalls' = End(cardCalls, s)
          /\ UNCHANGED <<wx, confirmUnbind, fetchingCode, unbinding, pendingSetting, testing,
                         rechecking>>
        BY <1>1, <1>2 DEF LandChannel, provided, dialogs, locks
    <2> QED BY <1>1, <2>1 DEF FreesOne
<1>3. CASE LandBinding(s)
    <2>1. /\ call.op = "bind" /\ ~fetchingCode' /\ cardCalls' = End(cardCalls, s)
          /\ UNCHANGED <<wx, confirmUnbind, channelLoading, unbinding, pendingSetting, testing, rechecking>>
        BY <1>1, <1>3 DEF LandBinding, provided, loads
    <2> QED BY <1>1, <2>1 DEF FreesOne
<1>4. CASE LandUnbind(s)
    <2>1. /\ call.op = "unbind" /\ ~unbinding' /\ cardCalls' = End(cardCalls, s)
          /\ UNCHANGED <<wx, channelLoading, fetchingCode, pendingSetting, testing, rechecking>>
          /\ confirmUnbind' => confirmUnbind
        BY <1>1, <1>4 DEF LandUnbind, provided, loads
    <2> QED BY <1>1, <2>1 DEF FreesOne
<1>5. CASE LandSetting(s)
    <2>1. /\ call.op = "setting" /\ pendingSetting' = None /\ cardCalls' = End(cardCalls, s)
          /\ UNCHANGED <<wx, channelLoading, fetchingCode, unbinding, testing, rechecking, confirmUnbind>>
        BY <1>1, <1>5 DEF LandSetting, provided, loads, dialogs
    <2> QED BY <1>1, <2>1 DEF FreesOne, SwitchWaits
<1>6. CASE LandTest(s)
    <2>1. /\ call.op \in {"test", "recheck"} /\ cardCalls' = End(cardCalls, s)
          /\ testing' <=> testing /\ call.op # "test"
          /\ rechecking' <=> rechecking /\ call.op # "recheck"
          /\ UNCHANGED <<wx, channelLoading, fetchingCode, unbinding, pendingSetting, confirmUnbind>>
        BY <1>1, <1>6 DEF LandTest, provided, loads, dialogs
    <2>2. /\ FreesOne(call.op, "test", testing, testing')
          /\ FreesOne(call.op, "recheck", rechecking, rechecking')
        BY <2>1 DEF FreesOne
    <2>3. /\ FreesOne(call.op, "load", channelLoading, channelLoading')
          /\ FreesOne(call.op, "bind", fetchingCode, fetchingCode')
          /\ FreesOne(call.op, "unbind", unbinding, unbinding')
          /\ FreesOne(call.op, "setting", SwitchWaits(pendingSetting), SwitchWaits(pendingSetting'))
        BY <2>1 DEF FreesOne
    <2> QED BY <1>1, <2>1, <2>2, <2>3
<1> QED BY <1>2, <1>3, <1>4, <1>5, <1>6

\* The answers of requests that load, bind, unbind, save and test.
LEMMA CardShows ==
    ASSUME CardFits, NEW s \in Slots,
           \/ LandChannel(s) \/ LandBinding(s) \/ LandUnbind(s) \/ LandSetting(s) \/ LandTest(s)
    PROVE  CardFits'
<1>1. PICK call : call = cardCalls[s]
    OBVIOUS
<1>2. CardKnown(cardCalls, wx, channel, settled)
    BY DEF CardFits
<1>3. channel = None \/ IsChannel(channel)
    BY <1>2 DEF CardKnown
<1>4. PICK seen : seen = channel'
    OBVIOUS
<1>5. /\ seen = None \/ IsChannel(seen)
      /\ IsChannel(channel) => IsChannel(seen)
      /\ \/ ~settled'
         \/ call.op \in Writers /\ call.alone /\ SameSettings(seen, wx)
         \/ settled /\ SameSettings(seen, channel) /\ (call.op \in Writers => Harmless(call))
    <2>1. CASE LandChannel(s)
        <3>1. /\ call.op = "load" /\ seen = IF Succeeds(call) THEN call.answer.body ELSE channel
              /\ settled' => Succeeds(call) /\ call.alone
            BY <1>1, <1>4, <2>1 DEF LandChannel, Settles, SureAfter
        <3>2. CASE Succeeds(call)
            <4>1. seen = call.answer.body
                BY <3>1, <3>2
            <4>2. IsChannel(call.answer.body) /\ (call.alone => SameSettings(call.answer.body, wx))
                BY <1>1, <1>2, <3>1, <3>2 DEF CardKnown
            <4> QED BY <3>1, <4>1, <4>2 DEF Writers
        <3>3. CASE ~Succeeds(call)
            BY <1>3, <3>1, <3>3
        <3> QED BY <3>2, <3>3
    <2>2. CASE LandBinding(s)
        <3>1. call.op = "bind" /\ seen = channel /\ settled' = settled
            BY <1>1, <1>4, <2>2 DEF LandBinding
        <3> QED BY <1>3, <3>1 DEF SameSettings, Writers
    <2>3. CASE LandUnbind(s)
        <3>1. call.op = "unbind" /\ (settled' => Succeeds(call) /\ call.alone /\ settled)
            BY <1>1, <2>3 DEF LandUnbind, Settles, SureAfter
        <3>2. IsChannel(channel)
            BY <1>1, <1>2, <3>1 DEF CardKnown, NeedsChannel
        <3>3. CASE Succeeds(call)
            <4>1. seen = [channel EXCEPT !.bound = FALSE, !.enabled = FALSE]
                BY <1>1, <1>4, <2>3, <3>3 DEF LandUnbind
            <4>2. /\ IsChannel(seen) /\ seen.bound = FALSE /\ seen.enabled = FALSE /\ seen.events = channel.events
                BY <3>2, <4>1 DEF IsChannel
            <4>3. settled' => channel.events = wx.events /\ wx.bound = FALSE /\ wx.enabled = FALSE
                BY <1>1, <1>2, <3>1, <3>3 DEF CardKnown
            <4> QED BY <3>1, <4>2, <4>3 DEF SameSettings, Writers
        <3>4. CASE ~Succeeds(call)
            BY <1>1, <1>3, <1>4, <2>3, <3>1, <3>4 DEF LandUnbind
        <3> QED BY <3>3, <3>4
    <2>4. CASE LandSetting(s)
        <3>1. /\ call.op = "setting" /\ seen = IF Succeeds(call) THEN call.answer.body ELSE channel
              /\ settled' => Succeeds(call) /\ call.alone
            BY <1>1, <1>4, <2>4 DEF LandSetting, Settles, SureAfter
        <3>2. CASE Succeeds(call)
            <4>1. seen = call.answer.body
                BY <3>1, <3>2
            <4>2. IsChannel(call.answer.body) /\ (call.alone => SameSettings(call.answer.body, wx))
                BY <1>1, <1>2, <3>1, <3>2 DEF CardKnown
            <4> QED BY <3>1, <4>1, <4>2 DEF Writers
        <3>3. CASE ~Succeeds(call)
            BY <1>3, <3>1, <3>3
        <3> QED BY <3>2, <3>3
    <2>5. CASE LandTest(s)
        <3>1. call.op \in {"test", "recheck"} /\ settled' = settled
            BY <1>1, <2>5 DEF LandTest
        <3>2. IsChannel(channel)
            BY <1>1, <1>2, <3>1 DEF CardKnown, NeedsChannel
        <3>3. IsChannel(seen) /\ SameSettings(seen, channel)
            <4>1. CASE Succeeds(call)
                <5>1. seen = [channel EXCEPT !.test = call.answer.body]
                    BY <1>1, <1>4, <2>5, <4>1 DEF LandTest, WithDelivery
                <5> QED BY <3>2, <5>1 DEF IsChannel, SameSettings
            <4>2. CASE ~Succeeds(call)
                BY <1>1, <1>4, <2>5, <3>2, <4>2 DEF LandTest, SameSettings
            <4> QED BY <4>1, <4>2
        <3>4. call.op \notin Writers
            BY <3>1 DEF Writers
        <3> QED BY <3>1, <3>3, <3>4
    <2> QED BY <2>1, <2>2, <2>3, <2>4, <2>5
<1>6. /\ channel' = None \/ IsChannel(channel')
      /\ IsChannel(channel) => IsChannel(channel')
      /\ \/ ~settled'
         \/ cardCalls[s].op \in Writers /\ cardCalls[s].alone /\ SameSettings(channel', wx)
         \/ settled /\ SameSettings(channel', channel) /\ (cardCalls[s].op \in Writers => Harmless(cardCalls[s]))
    BY <1>1, <1>4, <1>5
<1> QED BY <1>6, CardLands, CardEnded

\* The answer of a poll, which may load the channel.
LEMMA CardLandsPoll ==
    ASSUME CardFits, PollsFit, NEW s \in Slots, LandPoll(s)
    PROVE  CardFits'
<1>1. PICK call : call = cardCalls[s]
    OBVIOUS
<1>2. PICK told : told = (Succeeds(call) /\ call.answer.body = "bound")
    OBVIOUS
<1>3. PICK kept : kept = IF told THEN StopPolling(cardCalls) ELSE cardCalls
    OBVIOUS
<1>4. PICK mid : mid = End(kept, s)
    OBVIOUS
<1>5. PICK after : after = cardCalls'
    OBVIOUS
<1>6. call.op = "poll" /\ UNCHANGED <<wx, channel, confirmUnbind, locks>>
    BY <1>1 DEF LandPoll, provided, dialogs
<1>7. settled' => settled /\ Succeeds(call) /\ ~told
    BY <1>1, <1>2 DEF LandPoll
<1>8. DOMAIN cardCalls = Slots
    BY DEF CardFits, CardLocks, CardLocksFit, Shaped
<1>9. EndsPolls(cardCalls, kept)
    BY <1>3, <1>8, CardStopped DEF EndsPolls
<1>10. \A t \in Slots : mid[t] = IF t = s THEN NoCall ELSE kept[t]
    BY <1>4, <1>9, EndedCalls DEF EndsPolls
<1>11. EndsPolls(cardCalls, mid)
    <2>1. DOMAIN mid = Slots
        BY <1>4, <1>9, EndedCalls DEF EndsPolls
    <2> QED BY <1>1, <1>6, <1>9, <1>10, <2>1 DEF EndsPolls
<1>12. CardLocksFit(mid, channelLoading, fetchingCode, unbinding, SwitchWaits(pendingSetting), testing, rechecking)
    BY <1>11, CardPollsGone DEF CardFits, CardLocks
<1>13. Shaped(mid, {"alone"})
    BY <1>12 DEF CardLocksFit
<1>14. CardKnown(mid, wx, channel, settled')
    <2>1. CardKnown(cardCalls, wx, channel, settled)
        BY DEF CardFits
    <2>2. settled' => settled /\ \A t \in Slots : mid[t] = cardCalls[t] \/ Harmless(cardCalls[t])
        <3>1. SUFFICES ASSUME settled' PROVE \A t \in Slots : mid[t] = cardCalls[t] \/ Harmless(cardCalls[t])
            BY <1>7
        <3>2. Harmless(call) /\ kept = cardCalls
            BY <1>2, <1>3, <1>6, <1>7, <3>1 DEF Harmless
        <3> QED BY <1>1, <1>10, <3>2
    <2> QED BY <1>11, <2>1, <2>2, CardKnownGone
<1>15. CASE ~(told /\ Waiting(cardCalls, {"load"}) = {})
    <2>1. after = mid /\ (channelLoading' <=> channelLoading)
        BY <1>1, <1>2, <1>3, <1>4, <1>5, <1>15 DEF LandPoll
    <2>2. CardLocks'
        BY <1>5, <1>6, <1>12, <2>1 DEF CardLocks, CardLocksFit, locks, Held
    <2>3. CardKnown(cardCalls, wx, channel, settled)'
        BY <1>5, <1>6, <1>14, <2>1
    <2>4. (confirmUnbind => IsChannel(channel))'
        BY <1>6 DEF CardFits
    <2> QED BY <2>2, <2>3, <2>4 DEF CardFits
<1>16. CASE told /\ Waiting(cardCalls, {"load"}) = {}
    <2>1. PICK load : load = [op |-> "load", then |-> "poll"]
        OBVIOUS
    <2>2. load.op = "load" /\ DOMAIN load = {"op", "then"}
        BY <2>1
    <2>3. after = Post(mid, load, Writers) /\ channelLoading'
        BY <1>1, <1>2, <1>3, <1>4, <1>5, <1>16, <2>1 DEF LandPoll
    <2>4. Free(mid) # {}
        BY <1>4, <1>9, EndFrees DEF EndsPolls
    <2>5. ~channelLoading
        BY <1>16 DEF CardFits, CardLocks, CardLocksFit, Held
    <2>6. /\ TakesOne(load.op, "load", channelLoading, channelLoading')
          /\ TakesOne(load.op, "bind", fetchingCode, fetchingCode)
          /\ TakesOne(load.op, "unbind", unbinding, unbinding)
          /\ TakesOne(load.op, "setting", SwitchWaits(pendingSetting), SwitchWaits(pendingSetting))
          /\ TakesOne(load.op, "test", testing, testing) /\ TakesOne(load.op, "recheck", rechecking, rechecking)
        BY <2>2, <2>3, <2>5 DEF TakesOne
    <2>7. /\ IsPosted(mid, load, Writers, after)
          /\ CardLocksFit(after, channelLoading', fetchingCode, unbinding, SwitchWaits(pendingSetting), testing, rechecking)
        BY <1>12, <2>2, <2>3, <2>4, <2>6, CardLocksPosted
    <2>8. CardKnown(after, wx, channel, settled')
        <3>1. load.op \notin NeedsChannel
            BY <2>2 DEF NeedsChannel
        <3> QED BY <1>13, <1>14, <2>2, <2>7, <3>1, CardKnownPosted
    <2>9. CardLocks' /\ CardKnown(cardCalls, wx, channel, settled)'
        BY <1>5, <1>6, <2>7, <2>8 DEF CardLocks, locks
    <2>10. (confirmUnbind => IsChannel(channel))'
        BY <1>6 DEF CardFits
    <2> QED BY <2>9, <2>10 DEF CardFits
<1> QED BY <1>15, <1>16

\* What an answer of the backend says, and leaves.
LEMMA CardAnswered ==
    ASSUME CardFits, NEW s \in Slots, NEW answer, AnswerCard(s, answer), cardCalls[s].op # "idle", IsChannel(wx'),
           cardCalls[s].op \in {"load", "setting"} /\ answer.kind = "ok" =>
               IsChannel(answer.body) /\ SameSettings(answer.body, wx'),
           cardCalls[s].op = "unbind" => wx'.events = wx.events,
           cardCalls[s].op = "unbind" /\ answer.kind = "ok" => wx'.bound = FALSE /\ wx'.enabled = FALSE,
           \/ SameSettings(wx', wx)
           \/ /\ cardCalls[s].op \in {"poll", "unbind", "setting"} /\ answer.kind = "ok"
              /\ cardCalls[s].op = "poll" => answer.body = "bound"
    PROVE  CardFits'
<1>1. /\ cardCalls' = [cardCalls EXCEPT ![s].answer = answer]
      /\ UNCHANGED <<channel, loads, polling, dialogs, locks, settled>>
      /\ cardCalls[s].answer = Unanswered \/ answer = Lost
    BY DEF AnswerCard
<1> QED BY <1>1, CardTold

\* The backend answers.
LEMMA CardServed ==
    ASSUME CardFits, NEW s \in Slots,
           \/ ServeChannel(s) \/ ServeBind(s) \/ ServePollCard(s) \/ ServeUnbind(s) \/ ServeSetting(s)
           \/ ServeTest(s) \/ ServeRecheck(s)
    PROVE  CardFits'
<1>0. IsChannel(wx) /\ SameSettings(wx, wx)
    BY DEF CardFits, CardKnown, SameSettings
<1>1. CASE ServeChannel(s)
    <2>1. PICK answer : answer = Ok(wx)
        OBVIOUS
    <2>2. AnswerCard(s, answer) /\ cardCalls[s].op = "load" /\ wx' = wx /\ answer.body = wx
        BY <1>1, <2>1 DEF ServeChannel, provided, Ok
    <2> QED BY <1>0, <2>2, CardAnswered
<1>2. CASE ServeBind(s)
    <2>1. PICK answer : AnswerCard(s, answer)
        BY <1>2 DEF ServeBind
    <2>2. cardCalls[s].op = "bind" /\ wx' = wx
        BY <1>2 DEF ServeBind
    <2> QED BY <1>0, <2>1, <2>2, CardAnswered
<1>3. CASE ServePollCard(s)
    <2>1. PICK answer : AnswerCard(s, answer) /\ cardCalls[s].op = "poll"
                        /\ (wx' = wx \/ (answer = Ok("bound") /\ wx' = [wx EXCEPT !.bound = TRUE, !.enabled = TRUE]))
        BY <1>3 DEF ServePollCard
    <2>2. CASE wx' = wx
        BY <1>0, <2>1, <2>2, CardAnswered
    <2>3. CASE answer = Ok("bound") /\ wx' = [wx EXCEPT !.bound = TRUE, !.enabled = TRUE]
        <3>1. answer.kind = "ok" /\ answer.body = "bound"
            BY <2>3 DEF Ok
        <3>2. IsChannel(wx')
            BY <1>0, <2>3 DEF IsChannel
        <3> QED BY <2>1, <3>1, <3>2, CardAnswered
    <2> QED BY <2>1, <2>2, <2>3
<1>4. CASE ServeUnbind(s)
    <2>1. PICK answer : answer = Ok(None)
        OBVIOUS
    <2>2. /\ AnswerCard(s, answer) /\ cardCalls[s].op = "unbind" /\ answer.kind = "ok"
          /\ wx' = [wx EXCEPT !.bound = FALSE, !.enabled = FALSE]
        BY <1>4, <2>1 DEF ServeUnbind, Ok
    <2>3. IsChannel(wx') /\ wx'.bound = FALSE /\ wx'.enabled = FALSE /\ wx'.events = wx.events
        BY <1>0, <2>2 DEF IsChannel
    <2> QED BY <2>2, <2>3, CardAnswered
<1>5. CASE ServeSetting(s)
    <2>1. CASE wx.bound
        <3>1. PICK then : then = wx'
            OBVIOUS
        <3>2. PICK answer : answer = Ok(then)
            OBVIOUS
        <3>3. /\ AnswerCard(s, answer) /\ cardCalls[s].op = "setting"
              /\ then = With(cardCalls[s].patch, wx)
            BY <1>5, <2>1, <3>1, <3>2 DEF ServeSetting
        <3>4. answer.kind = "ok" /\ answer.body = then
            BY <3>2 DEF Ok
        <3>5. IsChannel(then)
            <4>1. DOMAIN then = DOMAIN cardCalls[s].patch \cup DOMAIN wx
                BY <3>3 DEF With
            <4> QED BY <1>0, <4>1 DEF IsChannel
        <3>6. IsChannel(wx') /\ IsChannel(answer.body) /\ SameSettings(answer.body, wx')
            BY <3>1, <3>4, <3>5 DEF SameSettings
        <3> QED BY <3>3, <3>4, <3>6, CardAnswered
    <2>2. CASE ~wx.bound
        <3>1. PICK answer : answer = Refused("unbound")
            OBVIOUS
        <3>2. AnswerCard(s, answer) /\ cardCalls[s].op = "setting" /\ answer.kind # "ok" /\ wx' = wx
            BY <1>5, <2>2, <3>1 DEF ServeSetting, Refused
        <3> QED BY <1>0, <3>2, CardAnswered
    <2> QED BY <2>1, <2>2
<1>6. CASE ServeTest(s) \/ ServeRecheck(s)
    <2>1. PICK answer : AnswerCard(s, answer) /\ (wx' = wx \/ \E status : wx' = [wx EXCEPT !.test = status])
        BY <1>6 DEF ServeTest, ServeRecheck
    <2>2. cardCalls[s].op \in {"test", "recheck"}
        BY <1>6 DEF ServeTest, ServeRecheck
    <2>3. IsChannel(wx') /\ SameSettings(wx', wx)
        BY <1>0, <2>1 DEF IsChannel, SameSettings
    <2> QED BY <2>1, <2>2, <2>3, CardAnswered
<1> QED BY <1>1, <1>2, <1>3, <1>4, <1>5, <1>6

\* An answer of the card that is lost.
LEMMA CardLost ==
    ASSUME CardFits, NEW s \in Slots, LoseCardAnswer(s)
    PROVE  CardFits'
<1>1. /\ cardCalls[s].op # "idle" /\ cardCalls' = [cardCalls EXCEPT ![s].answer = Lost]
      /\ UNCHANGED <<wx, channel, loads, polling, dialogs, locks, settled>>
    BY DEF LoseCardAnswer, LoseAnswer, Busy, provided
<1>2. Lost.kind # "ok"
    BY DEF Lost
<1>3. IsChannel(wx') /\ SameSettings(wx', wx) /\ wx'.events = wx.events
    BY <1>1 DEF CardFits, CardKnown, SameSettings
<1> QED BY <1>1, <1>2, <1>3, CardTold

\* The card as it opens.
LEMMA CardStart ==
    ASSUME CardInit
    PROVE  CardInv
<1>1. \A s \in Slots : cardCalls[s].op = "idle" /\ DOMAIN cardCalls[s] = {"op"}
    BY DEF CardInit, NoCalls, NoCall
<1>2. Shaped(cardCalls, {"alone"})
    BY <1>1 DEF CardInit, NoCalls, Shaped, IsCall
<1>3. \A op \in {"load", "bind", "unbind", "setting", "test", "recheck"} : Waiting(cardCalls, {op}) = {}
    BY <1>1 DEF Waiting
<1>4. ~channelLoading /\ ~fetchingCode /\ ~unbinding /\ ~SwitchWaits(pendingSetting) /\ ~testing /\ ~rechecking
    BY DEF CardInit, SwitchWaits
<1>5. CardLocks
    <2>1. Held(Waiting(cardCalls, {"load"}), channelLoading) /\ Held(Waiting(cardCalls, {"bind"}), fetchingCode)
        BY <1>3, <1>4 DEF Held
    <2>2. /\ Held(Waiting(cardCalls, {"unbind"}), unbinding)
          /\ Held(Waiting(cardCalls, {"setting"}), SwitchWaits(pendingSetting))
        BY <1>3, <1>4 DEF Held
    <2>3. Held(Waiting(cardCalls, {"test"}), testing) /\ Held(Waiting(cardCalls, {"recheck"}), rechecking)
        BY <1>3, <1>4 DEF Held
    <2> QED BY <1>2, <2>1, <2>2, <2>3 DEF CardLocks, CardLocksFit
<1>6. IsChannel(wx)
    BY DEF CardInit, NoChannel, IsChannel
<1>7. CardKnown(cardCalls, wx, channel, settled)
    BY <1>1, <1>6 DEF CardInit, CardKnown, IsChannel, Writers, NeedsChannel
<1>8. ~confirmUnbind
    BY DEF CardInit
<1>9. PollsFit
    BY <1>1 DEF CardInit, PollsFit, PollFits
<1> QED BY <1>5, <1>7, <1>8, <1>9 DEF CardInv, CardFits

\* Every step of the card keeps its locks and what it knows.
LEMMA CardStepFits ==
    ASSUME CardFits, PollsFit, [CardNext]_cardVars
    PROVE  CardFits'
<1>1. CASE UNCHANGED cardVars
    BY <1>1 DEF cardVars, CardFits, CardLocks, CardKnown
<1>2. CASE LoadChannel
    BY <1>2, CardLoads
<1>3. CASE BeginBinding
    BY <1>3, CardBinds
<1>4. CASE CloseBinding \/ SessionRunsOut
    BY <1>4, CardStops
<1>5. CASE Poll
    BY <1>5, CardPolls
<1>6. CASE AskUnbind \/ CancelUnbind \/ ScanCode \/ CodeExpires \/ Dispatch
    BY <1>6, CardSetsAside
<1>7. CASE Unbind
    BY <1>7, CardUnbinds
<1>8. CASE SetEnabled
    <2>1. PICK patch : Change("enabled", patch)
        BY <1>8 DEF SetEnabled
    <2> QED BY <2>1, CardAssumption, CardChanges
<1>9. CASE SendTest \/ RecheckTest
    BY <1>9, CardTests
<1>10. CASE \E event \in Events : ToggleEvent(event)
    <2>1. PICK event \in Events : ToggleEvent(event)
        BY <1>10
    <2>2. PICK patch : Change(event, patch)
        BY <2>1 DEF ToggleEvent
    <2>3. event # None
        BY CardAssumption
    <2> QED BY <2>2, <2>3, CardChanges
<1>11. ASSUME NEW s \in Slots,
              \/ LandChannel(s) \/ LandBinding(s) \/ LandPoll(s) \/ LandUnbind(s)
              \/ LandSetting(s) \/ LandTest(s) \/ ServeChannel(s) \/ ServeBind(s)
              \/ ServePollCard(s) \/ ServeUnbind(s) \/ ServeSetting(s) \/ ServeTest(s)
              \/ ServeRecheck(s) \/ LoseCardAnswer(s)
       PROVE  CardFits'
    BY <1>11, CardShows, CardLandsPoll, CardServed, CardLost
<1>12. CASE UnbindElsewhere
    BY <1>12, CardCrossed
<1> QED BY <1>1, <1>2, <1>3, <1>4, <1>5, <1>6, <1>7, <1>8, <1>9, <1>10, <1>11, <1>12 DEF CardNext

-----------------------------------------------------------------------------
(* The card: its poll *)

\* A request that is none of a poll.
LEMMA PostedNoPoll ==
    ASSUME NEW calls, Shaped(calls, {"alone"}), Free(calls) # {}, NEW call, NEW after,
           after = Post(calls, call, Writers), "op" \in DOMAIN call, {"answer", "alone"} \cap DOMAIN call = {}
    PROVE  \E slot \in Slots : /\ calls[slot].op = "idle" /\ after[slot].op = call.op
                               /\ \A t \in Slots \ {slot} : after[t].op = calls[t].op
<1>1. IsPosted(calls, call, Writers, after)
    BY ShapedPosted
<1>2. PICK slot \in Slots :
          /\ calls[slot].op = "idle" /\ \A f \in DOMAIN call : after[slot][f] = call[f]
          /\ \A t \in Slots \ {slot} : \A f \in DOMAIN calls[t] \ {"alone"} : after[t][f] = calls[t][f]
    BY <1>1 DEF IsPosted
<1>3. \A t \in Slots \ {slot} : after[t].op = calls[t].op
    BY <1>2 DEF Shaped, IsCall
<1> QED BY <1>2, <1>3

\* The slot of a request that is posted.
LEMMA PostedAt ==
    ASSUME NEW calls, Shaped(calls, {"alone"}), Free(calls) # {}, NEW call, NEW after,
           after = Post(calls, call, Writers), "op" \in DOMAIN call
    PROVE  NextSlot(calls) \in Slots /\ after[NextSlot(calls)].op = call.op
<1>1. PICK before : before = IF call.op \in Writers THEN Crossed(calls, Writers) ELSE calls
    OBVIOUS
<1>2. PICK next : next = With([answer |-> Unanswered, alone |-> Waiting(calls, Writers) = {}], call)
    OBVIOUS
<1>3. Shaped(before, {"alone"}) /\ \A t \in Slots : before[t].op = calls[t].op
    <2>1. CASE call.op \in Writers
        <3>1. before = Crossed(calls, Writers)
            BY <1>1, <2>1
        <3>2. /\ Shaped(before, {"alone"})
              /\ \A t \in Slots : \A f \in DOMAIN calls[t] \ {"alone"} : before[t][f] = calls[t][f]
            BY <3>1, ShapedCrossed
        <3> QED BY <3>2 DEF Shaped, IsCall
    <2>2. CASE call.op \notin Writers
        BY <1>1, <2>2
    <2> QED BY <2>1, <2>2
<1>4. Free(before) = Free(calls)
    BY <1>3 DEF Free, Busy
<1>5. NextSlot(before) = NextSlot(calls)
    BY <1>4 DEF NextSlot
<1>6. next.op = call.op
    <2>1. PICK own : own = [answer |-> Unanswered, alone |-> Waiting(calls, Writers) = {}]
        OBVIOUS
    <2>2. DOMAIN own = {"answer", "alone"}
        BY <2>1
    <2>3. next = With(own, call)
        BY <1>2, <2>1
    <2>4. "op" \in DOMAIN call \ DOMAIN own
        BY <2>2
    <2>5. \A f \in DOMAIN call \ DOMAIN own : With(own, call)[f] = call[f]
        BY WithFields, Zenon
    <2> QED BY <2>3, <2>4, <2>5
<1>7. after = Begin(before, next)
    BY <1>1, <1>2 DEF Post
<1>8. /\ NextSlot(before) \in Slots
      /\ \A t \in Slots : Begin(before, next)[t] = IF t = NextSlot(before) THEN next ELSE before[t]
    BY <1>3, <1>4, BegunCalls DEF Shaped
<1> QED BY <1>5, <1>6, <1>7, <1>8

\* Of the polls, what every step does: a request that is not one of them.
LEMMA PollsUnsent ==
    ASSUME CardFits, PollsFit, NEW call, SendCard(call), "op" \in DOMAIN call,
           {"answer", "alone"} \cap DOMAIN call = {}, call.op # "poll",
           UNCHANGED <<polling, bindOpen>>, fetchingCode' => fetchingCode \/ ~bindOpen
    PROVE  PollsFit'
<1>1. PICK after : after = cardCalls'
    OBVIOUS
<1>2. Shaped(cardCalls, {"alone"})
    BY DEF CardFits, CardLocks, CardLocksFit
<1>3. after = Post(cardCalls, call, Writers) /\ Free(cardCalls) # {}
    BY <1>1 DEF SendCard
<1>4. \A s \in Slots : after[s].op = "poll" <=> cardCalls[s].op = "poll"
    BY <1>2, <1>3, PostedNoPoll
<1>5. UNCHANGED <<pollInFlight, pollRef, bindOpen, cardSession, strayed>>
    BY DEF polling
<1>6. fetchingCode' => ~bindOpen
    BY DEF PollsFit, PollFits
<1>7. PollFits(after, pollInFlight, pollRef, bindOpen, cardSession, fetchingCode', strayed)
    BY <1>4, <1>6 DEF PollsFit, PollFits
<1> QED BY <1>1, <1>5, <1>7 DEF PollsFit

\* A step that leaves the requests what they are.
LEMMA PollsQuiet ==
    ASSUME CardFits, PollsFit, \A s \in Slots : cardCalls'[s].op = "poll" <=> cardCalls[s].op = "poll",
           UNCHANGED <<polling, fetchingCode>>, bindOpen' => ~fetchingCode, bindOpen => bindOpen'
    PROVE  PollsFit'
<1>1. PICK after : after = cardCalls'
    OBVIOUS
<1>2. PICK open : open = bindOpen'
    OBVIOUS
<1>3. UNCHANGED <<pollInFlight, pollRef, cardSession, strayed, fetchingCode>>
    BY DEF polling
<1>4. \A s \in Slots : after[s].op = "poll" <=> cardCalls[s].op = "poll"
    BY <1>1
<1>5. PollFits(after, pollInFlight, pollRef, open, cardSession, fetchingCode, strayed)
    BY <1>2, <1>4 DEF PollsFit, PollFits
<1> QED BY <1>1, <1>2, <1>3, <1>5 DEF PollsFit

LEMMA PollsSent ==
    ASSUME CardFits, PollsFit,
           \/ LoadChannel \/ Unbind \/ SetEnabled \/ SendTest \/ RecheckTest
           \/ \E event \in Events : ToggleEvent(event)
    PROVE  PollsFit'
<1>1. PICK call : SendCard(call) /\ "op" \in DOMAIN call /\ {"answer", "alone"} \cap DOMAIN call = {} /\ call.op # "poll"
    <2>1. CASE LoadChannel
        <3>1. PICK call : call = [op |-> "load", then |-> "none"]
            OBVIOUS
        <3> QED BY <2>1, <3>1 DEF LoadChannel
    <2>2. CASE Unbind
        <3>1. PICK call : call = [op |-> "unbind"]
            OBVIOUS
        <3> QED BY <2>2, <3>1 DEF Unbind
    <2>3. CASE SetEnabled \/ \E event \in Events : ToggleEvent(event)
        <3>1. PICK switch, patch : Change(switch, patch)
            BY <2>3 DEF SetEnabled, ToggleEvent
        <3>2. PICK call : call = [op |-> "setting", switch |-> switch, patch |-> patch]
            OBVIOUS
        <3> QED BY <3>1, <3>2 DEF Change
    <2>4. CASE SendTest
        <3>1. PICK call : call = [op |-> "test", shown |-> channel]
            OBVIOUS
        <3> QED BY <2>4, <3>1 DEF SendTest
    <2>5. CASE RecheckTest
        <3>1. PICK call : call = [op |-> "recheck", shown |-> channel]
            OBVIOUS
        <3> QED BY <2>5, <3>1 DEF RecheckTest
    <2> QED BY <2>1, <2>2, <2>3, <2>4, <2>5
<1>2. UNCHANGED <<polling, bindOpen, fetchingCode>>
    BY DEF LoadChannel, Unbind, SetEnabled, ToggleEvent, Change, SendTest, RecheckTest, dialogs, locks
<1> QED BY <1>1, <1>2, PollsUnsent

LEMMA PollsBegun ==
    ASSUME CardFits, PollsFit, BeginBinding
    PROVE  PollsFit'
<1>1. ~fetchingCode /\ ~bindOpen /\ UNCHANGED polling
    BY DEF BeginBinding, Uncovered
<1>2. CASE UNCHANGED <<fetchingCode, cardCalls, cardCount>>
    BY <1>1, <1>2, PollsQuiet
<1>3. CASE SendCard([op |-> "bind"]) /\ UNCHANGED bindOpen
    <2>1. PICK call : call = [op |-> "bind"]
        OBVIOUS
    <2>2. SendCard(call) /\ "op" \in DOMAIN call /\ {"answer", "alone"} \cap DOMAIN call = {} /\ call.op # "poll"
        BY <1>3, <2>1
    <2> QED BY <1>1, <1>3, <2>2, PollsUnsent
<1> QED BY <1>2, <1>3 DEF BeginBinding

\* A poll starts when the flag is free: no other one waits, unless it strayed.
LEMMA PollBegun ==
    ASSUME CardFits, PollsFit, Poll
    PROVE  PollsFit'
<1>1. PICK after : after = cardCalls'
    OBVIOUS
<1>2. PICK call : call = [op |-> "poll", code |-> cardCode]
    OBVIOUS
<1>3. call.op = "poll" /\ DOMAIN call = {"op", "code"}
    BY <1>2
<1>4. /\ SendCard(call) /\ ~pollInFlight /\ bindOpen /\ cardSession = "waiting"
      /\ pollInFlight' /\ pollRef' = NextSlot(cardCalls)
      /\ UNCHANGED <<cardSession, strayed, bindOpen, fetchingCode>>
    BY <1>2 DEF Poll, PollFree, dialogs, locks
<1>5. Shaped(cardCalls, {"alone"})
    BY DEF CardFits, CardLocks, CardLocksFit
<1>6. after = Post(cardCalls, call, Writers) /\ Free(cardCalls) # {}
    BY <1>1, <1>4 DEF SendCard
<1>7. PICK slot \in Slots : /\ cardCalls[slot].op = "idle" /\ after[slot].op = "poll"
                            /\ \A t \in Slots \ {slot} : after[t].op = cardCalls[t].op
    BY <1>3, <1>5, <1>6, PostedNoPoll
<1>8. PICK ref : ref = pollRef'
    OBVIOUS
<1>9. ref \in Slots /\ ref # None /\ after[ref].op = "poll"
    <2>1. NextSlot(cardCalls) \in Slots /\ after[NextSlot(cardCalls)].op = "poll"
        BY <1>3, <1>5, <1>6, PostedAt
    <2> QED BY <1>4, <1>8, <2>1, CardAssumption
<1>10. fetchingCode => ~bindOpen
    BY DEF PollsFit, PollFits
<1>11. strayed \/ \A s \in Slots : after[s].op = "poll" => s = ref
    <2>1. strayed \/ \A s \in Slots : cardCalls[s].op # "poll"
        BY <1>4 DEF PollsFit, PollFits
    <2> QED BY <1>7, <1>9, <2>1
<1>12. PollFits(after, pollInFlight', ref, bindOpen, cardSession, fetchingCode, strayed)
    BY <1>4, <1>9, <1>10, <1>11 DEF PollFits
<1> QED BY <1>1, <1>4, <1>8, <1>12 DEF PollsFit

\* Polling stops: of the polls only one that strayed may be left.
LEMMA PollsStopped ==
    ASSUME CardFits, PollsFit, CloseBinding \/ SessionRunsOut
    PROVE  PollsFit'
<1>1. PICK after : after = cardCalls'
    OBVIOUS
<1>2. /\ after = StopPolling(cardCalls) /\ pollRef' = None /\ ~pollInFlight'
      /\ strayed' <=> strayed /\ Waiting(after, {"poll"}) # {}
      /\ UNCHANGED fetchingCode /\ (bindOpen' => bindOpen)
    BY <1>1 DEF CloseBinding, SessionRunsOut, Stops, dialogs, locks
<1>3. \A s \in Slots : after[s] = IF s = pollRef THEN NoCall ELSE cardCalls[s]
    BY <1>2, CardStopped
<1>4. \A s \in Slots : after[s].op = "poll" => s # pollRef /\ cardCalls[s].op = "poll"
    BY <1>3 DEF NoCall
<1>5. ASSUME ~strayed' PROVE \A s \in Slots : after[s].op # "poll"
    <2>1. CASE ~strayed
        BY <1>4, <2>1 DEF PollsFit, PollFits
    <2>2. CASE Waiting(after, {"poll"}) = {}
        BY <2>2 DEF Waiting
    <2> QED BY <1>2, <1>5, <2>1, <2>2
<1>6. fetchingCode' => ~bindOpen'
    BY <1>2 DEF PollsFit, PollFits
<1>7. PollFits(after, pollInFlight', pollRef', bindOpen', cardSession', fetchingCode', strayed')
    BY <1>2, <1>5, <1>6 DEF PollFits
<1> QED BY <1>1, <1>7 DEF PollsFit

\* The answers of the other requests; the late end of a handler frees the flag.
LEMMA PollsLand ==
    ASSUME CardFits, PollsFit, NEW s \in Slots,
           \/ LandChannel(s) \/ LandBinding(s) \/ LandUnbind(s) \/ LandSetting(s) \/ LandTest(s)
    PROVE  PollsFit'
<1>1. PICK call : call = cardCalls[s]
    OBVIOUS
<1>2. PICK after : after = cardCalls'
    OBVIOUS
<1>3. /\ after = End(cardCalls, s) /\ call.op \in {"load", "bind", "unbind", "setting", "test", "recheck"}
      /\ pollRef' = pollRef
    BY <1>1, <1>2 DEF LandChannel, LandBinding, LandUnbind, LandSetting, LandTest, polling
<1>4. DOMAIN cardCalls = Slots
    BY DEF CardFits, CardLocks, CardLocksFit, Shaped
<1>5. \A t \in Slots : after[t].op = "poll" <=> cardCalls[t].op = "poll"
    <2>1. \A t \in Slots : after[t] = IF t = s THEN NoCall ELSE cardCalls[t]
        BY <1>3, <1>4, EndedCalls
    <2> QED BY <1>1, <1>3, <2>1 DEF NoCall
<1>6. CASE LandChannel(s)
    <2>1. PICK late : late = (call.then = "poll")
        OBVIOUS
    <2>2. UNCHANGED <<bindOpen, cardSession, fetchingCode>>
        BY <1>6 DEF LandChannel, dialogs, locks
    <2>3. (pollInFlight' <=> pollInFlight /\ ~late) /\ (strayed' <=> strayed \/ (pollInFlight /\ late))
        BY <1>1, <1>6, <2>1 DEF LandChannel, EndsHandler
    <2>4. PollFits(after, pollInFlight', pollRef, bindOpen, cardSession, fetchingCode, strayed')
        BY <1>5, <2>3 DEF PollsFit, PollFits
    <2> QED BY <1>2, <1>3, <2>2, <2>4 DEF PollsFit
<1>7. CASE LandBinding(s)
    <2>1. UNCHANGED <<pollInFlight, strayed>> /\ ~fetchingCode'
        BY <1>7 DEF LandBinding
    <2>2. (bindOpen => bindOpen') /\ (cardSession = "waiting" => cardSession' = "waiting")
        BY <1>7 DEF LandBinding
    <2>3. PollFits(after, pollInFlight, pollRef, bindOpen', cardSession', fetchingCode', strayed)
        BY <1>5, <2>1, <2>2 DEF PollsFit, PollFits
    <2> QED BY <1>2, <1>3, <2>1, <2>3 DEF PollsFit
<1>8. CASE LandUnbind(s) \/ LandSetting(s) \/ LandTest(s)
    <2>1. UNCHANGED <<polling, bindOpen, fetchingCode>>
        BY <1>8 DEF LandUnbind, LandSetting, LandTest, dialogs
    <2>2. bindOpen => ~fetchingCode
        BY DEF PollsFit, PollFits
    <2> QED BY <1>2, <1>5, <2>1, <2>2, PollsQuiet
<1> QED BY <1>6, <1>7, <1>8

\* The end of a poll, which may stop a later one.
LEMMA PollLanded ==
    ASSUME CardFits, PollsFit, NEW s \in Slots, LandPoll(s)
    PROVE  PollsFit'
<1>1. PICK call : call = cardCalls[s]
    OBVIOUS
<1>2. PICK told : told = (Succeeds(call) /\ call.answer.body = "bound")
    OBVIOUS
<1>3. PICK kept : kept = IF told THEN StopPolling(cardCalls) ELSE cardCalls
    OBVIOUS
<1>4. PICK rest : rest = End(kept, s)
    OBVIOUS
<1>5. PICK after : after = cardCalls'
    OBVIOUS
<1>6. /\ call.op = "poll" /\ ~pollInFlight' /\ UNCHANGED <<bindOpen, fetchingCode>>
      /\ pollRef' = IF told \/ pollRef = s THEN None ELSE pollRef
      /\ strayed' <=> strayed /\ Waiting(rest, {"poll"}) # {}
    BY <1>1, <1>2, <1>3, <1>4 DEF LandPoll, dialogs, locks
<1>7. Shaped(cardCalls, {"alone"})
    BY DEF CardFits, CardLocks, CardLocksFit
<1>8. EndsPolls(cardCalls, kept)
    BY <1>3, <1>7, CardStopped DEF EndsPolls, Shaped
<1>9. DOMAIN rest = Slots /\ \A t \in Slots : rest[t] = IF t = s THEN NoCall ELSE kept[t]
    BY <1>4, <1>8, EndedCalls DEF EndsPolls
<1>10. \A t \in Slots : rest[t].op = "poll" =>
           t # s /\ cardCalls[t].op = "poll" /\ (told => t # pollRef)
    <2>1. \A t \in Slots : kept[t] = IF told /\ t = pollRef THEN NoCall ELSE cardCalls[t]
        BY <1>3, CardStopped
    <2> QED BY <1>9, <2>1 DEF NoCall
<1>11. \A t \in Slots : after[t].op = "poll" <=> rest[t].op = "poll"
    <2>1. CASE after = rest
        BY <2>1
    <2>2. CASE after = Post(rest, [op |-> "load", then |-> "poll"], Writers)
        <3>1. PICK load : load = [op |-> "load", then |-> "poll"]
            OBVIOUS
        <3>2. load.op = "load" /\ DOMAIN load = {"op", "then"} /\ after = Post(rest, load, Writers)
            BY <2>2, <3>1
        <3>3. Shaped(rest, {"alone"})
            <4>1. IsCall(NoCall, {"alone"})
                BY DEF IsCall, NoCall
            <4> QED BY <1>7, <1>8, <1>9, <4>1 DEF Shaped, EndsPolls
        <3>4. Free(rest) # {}
            BY <1>4, <1>8, EndFrees DEF EndsPolls
        <3> QED BY <3>2, <3>3, <3>4, PostedNoPoll
    <2> QED BY <1>1, <1>2, <1>3, <1>4, <1>5, <2>1, <2>2 DEF LandPoll
<1>12. ASSUME ~strayed' PROVE \A t \in Slots : after[t].op # "poll"
    <2>1. CASE ~strayed
        <3>1. s = pollRef
            BY <1>1, <1>6, <2>1 DEF PollsFit, PollFits
        <3> QED BY <1>10, <1>11, <2>1, <3>1 DEF PollsFit, PollFits
    <2>2. CASE Waiting(rest, {"poll"}) = {}
        BY <1>11, <2>2 DEF Waiting
    <2> QED BY <1>6, <1>12, <2>1, <2>2
<1>13. ASSUME pollRef' # None PROVE pollRef' \in Slots /\ after[pollRef'].op = "poll"
    <2>1. ~told /\ pollRef # s /\ pollRef' = pollRef
        BY <1>6, <1>13
    <2>2. pollRef \in Slots /\ cardCalls[pollRef].op = "poll"
        BY <1>13, <2>1 DEF PollsFit, PollFits
    <2>3. rest[pollRef] = cardCalls[pollRef]
        BY <1>3, <1>9, <2>1, <2>2
    <2> QED BY <1>11, <2>1, <2>2, <2>3
<1>14. fetchingCode => ~bindOpen
    BY DEF PollsFit, PollFits
<1>15. PollFits(after, pollInFlight', pollRef', bindOpen', cardSession', fetchingCode', strayed')
    BY <1>6, <1>12, <1>13, <1>14 DEF PollFits
<1> QED BY <1>5, <1>15 DEF PollsFit

\* What the user sets aside, and what happens at the backend.
LEMMA PollsAside ==
    ASSUME CardFits, PollsFit,
           \/ AskUnbind \/ CancelUnbind \/ ScanCode \/ CodeExpires \/ Dispatch \/ UnbindElsewhere
           \/ \E s \in Slots : \/ ServeChannel(s) \/ ServeBind(s) \/ ServePollCard(s) \/ ServeUnbind(s)
                               \/ ServeSetting(s) \/ ServeTest(s) \/ ServeRecheck(s) \/ LoseCardAnswer(s)
    PROVE  PollsFit'
<1>1. Shaped(cardCalls, {"alone"})
    BY DEF CardFits, CardLocks, CardLocksFit
<1>2. bindOpen => ~fetchingCode
    BY DEF PollsFit, PollFits
<1>3. CASE AskUnbind \/ CancelUnbind \/ ScanCode \/ CodeExpires \/ Dispatch
    <2>1. UNCHANGED <<cardCalls, polling, bindOpen, fetchingCode>>
        BY <1>3 DEF AskUnbind, CancelUnbind, ScanCode, CodeExpires, Dispatch, dialogs, locks
    <2> QED BY <1>2, <2>1, PollsQuiet
<1>4. CASE UnbindElsewhere
    <2>1. PICK after : after = cardCalls'
        OBVIOUS
    <2>2. after = Crossed(cardCalls, Writers) /\ UNCHANGED <<polling, bindOpen, fetchingCode>>
        BY <1>4, <2>1 DEF UnbindElsewhere, dialogs, locks
    <2>3. \A t \in Slots : after[t].op = cardCalls[t].op
        <3>1. \A t \in Slots : \A f \in DOMAIN cardCalls[t] \ {"alone"} : after[t][f] = cardCalls[t][f]
            BY <1>1, <2>2, ShapedCrossed
        <3> QED BY <1>1, <3>1 DEF Shaped, IsCall
    <2> QED BY <1>2, <2>1, <2>2, <2>3, PollsQuiet
<1>5. ASSUME NEW s \in Slots,
             \/ ServeChannel(s) \/ ServeBind(s) \/ ServePollCard(s) \/ ServeUnbind(s)
             \/ ServeSetting(s) \/ ServeTest(s) \/ ServeRecheck(s) \/ LoseCardAnswer(s)
      PROVE  PollsFit'
    <2>1. PICK after : after = cardCalls'
        OBVIOUS
    <2>2. PICK answer : after = [cardCalls EXCEPT ![s].answer = answer] /\ UNCHANGED <<polling, bindOpen, fetchingCode>>
        <3>1. CASE LoseCardAnswer(s)
            BY <2>1, <3>1 DEF LoseCardAnswer, LoseAnswer, dialogs, locks
        <3>2. CASE \E answer : AnswerCard(s, answer)
            BY <2>1, <3>2 DEF AnswerCard, dialogs, locks
        <3>3. LoseCardAnswer(s) \/ \E answer : AnswerCard(s, answer)
            BY <1>5 DEF ServeChannel, ServeBind, ServePollCard, ServeUnbind, ServeSetting, ServeTest, ServeRecheck
        <3> QED BY <3>1, <3>2, <3>3
    <2>3. \A t \in Slots : after[t].op = cardCalls[t].op
        <3>1. /\ \A t \in Slots \ {s} : after[t] = cardCalls[t]
              /\ \A f \in DOMAIN cardCalls[s] \ {"answer"} : after[s][f] = cardCalls[s][f]
            BY <1>1, <2>2, ToldCalls DEF Shaped
        <3>2. "op" \in DOMAIN cardCalls[s]
            BY <1>1 DEF Shaped, IsCall
        <3> QED BY <3>1, <3>2
    <2> QED BY <1>2, <2>1, <2>2, <2>3, PollsQuiet
<1> QED BY <1>3, <1>4, <1>5

\* Every step of the card keeps its invariant.
LEMMA CardStep ==
    ASSUME CardInv, [CardNext]_cardVars
    PROVE  CardInv'
<1>0. CardFits /\ PollsFit
    BY DEF CardInv
<1>1. CardFits'
    BY <1>0, CardStepFits
<1>2. PollsFit'
    <2>1. CASE UNCHANGED cardVars
        BY <1>0, <2>1 DEF cardVars, PollsFit, PollFits
    <2>2. CASE CardNext
        BY <1>0, <2>2, PollsSent, PollsBegun, PollBegun, PollsStopped, PollsLand, PollLanded, PollsAside DEF CardNext
    <2> QED BY <2>1, <2>2
<1> QED BY <1>1, <1>2 DEF CardInv

\* What the invariant says of what the card shows.
LEMMA CardShow ==
    ASSUME CardInv
    PROVE  OnePoll /\ CardLocksAreLive /\ SettingsAreCurrent
<1>1. OnePoll
    <2>1. PICK polls : polls = Waiting(cardCalls, {"poll"})
        OBVIOUS
    <2>2. \A s : s \in polls <=> s \in Slots /\ cardCalls[s].op = "poll"
        BY <2>1 DEF Waiting
    <2>3. pollInFlight => pollRef \in polls
        BY <2>2 DEF CardInv, PollsFit, PollFits
    <2>4. ASSUME NEW s \in polls, ~strayed
          PROVE  s = pollRef /\ pollInFlight /\ bindOpen /\ cardSession = "waiting"
        BY <2>2, <2>4 DEF CardInv, PollsFit, PollFits
    <2>5. polls # {} /\ ~strayed => polls = {pollRef} /\ pollInFlight /\ bindOpen /\ cardSession = "waiting"
        BY <2>4
    <2> QED BY <2>1, <2>3, <2>5 DEF OnePoll
<1>2. CardLocksAreLive
    <2>1. /\ Held(Waiting(cardCalls, {"load"}), channelLoading) /\ Held(Waiting(cardCalls, {"bind"}), fetchingCode)
          /\ Held(Waiting(cardCalls, {"unbind"}), unbinding)
          /\ Held(Waiting(cardCalls, {"setting"}), SwitchWaits(pendingSetting))
          /\ Held(Waiting(cardCalls, {"test"}), testing) /\ Held(Waiting(cardCalls, {"recheck"}), rechecking)
        BY DEF CardInv, CardFits, CardLocks, CardLocksFit
    <2>2. /\ Cardinality(Waiting(cardCalls, {"load"})) = IF channelLoading THEN 1 ELSE 0
          /\ Cardinality(Waiting(cardCalls, {"bind"})) = IF fetchingCode THEN 1 ELSE 0
          /\ Cardinality(Waiting(cardCalls, {"unbind"})) = IF unbinding THEN 1 ELSE 0
          /\ Cardinality(Waiting(cardCalls, {"setting"})) = IF SwitchWaits(pendingSetting) THEN 1 ELSE 0
          /\ Cardinality(Waiting(cardCalls, {"test"})) = IF testing THEN 1 ELSE 0
          /\ Cardinality(Waiting(cardCalls, {"recheck"})) = IF rechecking THEN 1 ELSE 0
        BY <2>1, HeldOne
    <2>3. ASSUME NEW lock \in {<<channelLoading, "load">>, <<fetchingCode, "bind">>, <<unbinding, "unbind">>,
                              <<pendingSetting # None, "setting">>, <<testing, "test">>,
                              <<rechecking, "recheck">>}
          PROVE  Cardinality(Waiting(cardCalls, {lock[2]})) = IF lock[1] THEN 1 ELSE 0
        <3>1. CASE lock = <<channelLoading, "load">>
            BY <2>2, <3>1
        <3>2. CASE lock = <<fetchingCode, "bind">>
            BY <2>2, <3>2
        <3>3. CASE lock = <<unbinding, "unbind">>
            BY <2>2, <3>3
        <3>4. CASE lock = <<pendingSetting # None, "setting">>
            BY <2>2, <3>4 DEF SwitchWaits
        <3>5. CASE lock = <<testing, "test">>
            BY <2>2, <3>5
        <3>6. CASE lock = <<rechecking, "recheck">>
            BY <2>2, <3>6
        <3> QED BY <2>3, <3>1, <3>2, <3>3, <3>4, <3>5, <3>6
    <2> QED BY <2>3 DEF CardLocksAreLive
<1>3. SettingsAreCurrent
    <2>1. SUFFICES ASSUME settled, Waiting(cardCalls, {"poll", "unbind", "setting"}) = {}
                   PROVE  SameSettings(channel, wx)
        BY DEF SettingsAreCurrent, SameSettings
    <2>2. \A s \in Slots : cardCalls[s].op \in Writers => Harmless(cardCalls[s])
        BY <2>1 DEF Waiting, Writers, Harmless
    <2> QED BY <2>1, <2>2 DEF CardInv, CardFits, CardKnown
<1> QED BY <1>1, <1>2, <1>3

-----------------------------------------------------------------------------
(* The account page: what holds its locks *)

\* A request holds the lock of these operations, or follows one of them.
HoldsLock(call, ops, again) == (call.op \in ops \/ (call.op = again /\ call.after)) /\ ~call.left

Holders(calls, ops, again) == {s \in Slots : HoldsLock(calls[s], ops, again)}

SettingsFields == {"left", "after", "alone"}

\* A request that is posted holds a lock that was free, or leaves it as it was.
LEMMA HeldPosted ==
    ASSUME NEW calls, Shaped(calls, SettingsFields), NEW ops, NEW again, "idle" \notin ops, again # "idle",
           NEW flag, NEW raised, Held(Holders(calls, ops, again), flag),
           NEW call, NEW used, NEW after, IsPosted(calls, call, used, after), {"op", "left", "after"} \subseteq DOMAIN call,
           HoldsLock(call, ops, again) => ~flag /\ raised,
           ~HoldsLock(call, ops, again) => (raised <=> flag)
    PROVE  Held(Holders(after, ops, again), raised)
<1>1. PICK slot \in Slots :
          /\ calls[slot].op = "idle"
          /\ DOMAIN after[slot] = DOMAIN call \cup {"answer", "alone"}
          /\ \A f \in DOMAIN call : after[slot][f] = call[f]
          /\ \A t \in Slots \ {slot} :
                /\ DOMAIN after[t] = DOMAIN calls[t]
                /\ \A f \in DOMAIN calls[t] \ {"alone"} : after[t][f] = calls[t][f]
    BY DEF IsPosted
<1>2. HoldsLock(after[slot], ops, again) <=> HoldsLock(call, ops, again)
    BY <1>1 DEF HoldsLock
<1>3. ~HoldsLock(calls[slot], ops, again)
    BY <1>1 DEF HoldsLock
<1>4. ASSUME NEW t \in Slots \ {slot}
      PROVE  HoldsLock(after[t], ops, again) <=> HoldsLock(calls[t], ops, again)
    <2>1. /\ "op" \in DOMAIN calls[t]
          /\ calls[t].op # "idle" => {"answer", "left", "after"} \subseteq DOMAIN calls[t]
        BY DEF Shaped, IsCall, SettingsFields
    <2>2. after[t].op = calls[t].op
        BY <1>1, <2>1
    <2>3. CASE calls[t].op = "idle"
        BY <2>2, <2>3 DEF HoldsLock
    <2>4. CASE calls[t].op # "idle"
        <3>1. after[t].left = calls[t].left /\ after[t].after = calls[t].after
            BY <1>1, <2>1, <2>4
        <3> QED BY <2>2, <3>1 DEF HoldsLock
    <2> QED BY <2>3, <2>4
<1>5. CASE HoldsLock(call, ops, again)
    <2>1. Holders(after, ops, again) = Holders(calls, ops, again) \cup {slot}
        BY <1>2, <1>4, <1>5 DEF Holders
    <2>2. PICK T : T = Holders(after, ops, again)
        OBVIOUS
    <2>3. PICK S : S = Holders(calls, ops, again)
        OBVIOUS
    <2>4. Held(S, flag) /\ ~flag /\ raised /\ T = S \cup {slot}
        BY <1>5, <2>1, <2>2, <2>3
    <2>5. Held(T, raised)
        BY <2>4 DEF Held
    <2> QED BY <2>2, <2>5
<1>6. CASE ~HoldsLock(call, ops, again)
    <2>1. Holders(after, ops, again) = Holders(calls, ops, again)
        BY <1>2, <1>3, <1>4, <1>6 DEF Holders
    <2> QED BY <1>6, <2>1 DEF Held
<1> QED BY <1>5, <1>6

\* A request that ends frees the lock that it held.
LEMMA HeldEnded ==
    ASSUME NEW calls, DOMAIN calls = Slots, NEW ops, NEW again, "idle" \notin ops, again # "idle",
           NEW flag, NEW lowered, Held(Holders(calls, ops, again), flag),
           NEW s \in Slots, NEW after, after = End(calls, s),
           HoldsLock(calls[s], ops, again) => ~lowered,
           ~HoldsLock(calls[s], ops, again) => (lowered <=> flag)
    PROVE  Held(Holders(after, ops, again), lowered)
<1>1. \A t \in Slots : after[t] = IF t = s THEN NoCall ELSE calls[t]
    BY EndedCalls
<1>2. ~HoldsLock(after[s], ops, again)
    BY <1>1 DEF HoldsLock, NoCall
<1>3. \A t \in Slots \ {s} : HoldsLock(after[t], ops, again) <=> HoldsLock(calls[t], ops, again)
    BY <1>1
<1>4. Holders(after, ops, again) = Holders(calls, ops, again) \ {s}
    BY <1>2, <1>3 DEF Holders
<1>5. CASE HoldsLock(calls[s], ops, again)
    <2>1. PICK T : T = Holders(after, ops, again)
        OBVIOUS
    <2>2. PICK S : S = Holders(calls, ops, again)
        OBVIOUS
    <2>3. s \in S
        BY <1>5, <2>2 DEF Holders
    <2>4. Held(T, lowered)
        BY <1>4, <1>5, <2>1, <2>2, <2>3, HeldNoMore
    <2> QED BY <2>1, <2>4
<1>6. CASE ~HoldsLock(calls[s], ops, again)
    <2>1. Holders(after, ops, again) = Holders(calls, ops, again)
        BY <1>4, <1>6 DEF Holders
    <2> QED BY <1>6, <2>1 DEF Held
<1> QED BY <1>5, <1>6

\* What changes neither what the calls are nor whom they are for leaves the locks.
LEMMA HeldAsBefore ==
    ASSUME NEW calls, NEW ops, NEW again, NEW flag, Held(Holders(calls, ops, again), flag), NEW after,
           \A t \in Slots : HoldsLock(after[t], ops, again) <=> HoldsLock(calls[t], ops, again)
    PROVE  Held(Holders(after, ops, again), flag)
<1>1. Holders(after, ops, again) = Holders(calls, ops, again)
    BY DEF Holders
<1> QED BY <1>1

ConnectionOps == {"sync", "cookie", "unlink"}

\* The calls of the page, and the lock that each kind holds.
LocksFit(calls, pending, saving, alerts, quiet) ==
    /\ Shaped(calls, SettingsFields)
    /\ Held(Holders(calls, ConnectionOps, "binding"), pending)
    /\ Held(Holders(calls, {"password"}, "sessions"), saving)
    /\ Held(Holders(calls, {"browser"}, "browser"), alerts)
    /\ Held(Holders(calls, {"quiet"}, "quiet"), quiet)

\* A lock after a request that may hold it.
Raises(call, ops, again, flag, raised) ==
    IF HoldsLock(call, ops, again) THEN ~flag /\ raised ELSE (raised <=> flag)

Lowers(call, ops, again, flag, lowered) ==
    IF HoldsLock(call, ops, again) THEN ~lowered ELSE (lowered <=> flag)

\* The locks of the settings as a request is posted, ends, is answered or is crossed.
LEMMA LocksPosted ==
    ASSUME NEW calls, NEW p, NEW v, NEW a, NEW q, LocksFit(calls, p, v, a, q), Free(calls) # {},
           NEW call, NEW used, NEW after, after = Post(calls, call, used), NEW p2, NEW v2, NEW a2, NEW q2,
           {"answer", "alone"} \cap DOMAIN call = {}, {"op", "left", "after"} \subseteq DOMAIN call,
           Raises(call, ConnectionOps, "binding", p, p2), Raises(call, {"password"}, "sessions", v, v2),
           Raises(call, {"browser"}, "browser", a, a2), Raises(call, {"quiet"}, "quiet", q, q2)
    PROVE  IsPosted(calls, call, used, after) /\ LocksFit(after, p2, v2, a2, q2)
<1>1. IsPosted(calls, call, used, after) /\ Shaped(after, SettingsFields)
    BY ShapedPosted DEF LocksFit, SettingsFields
<1>2. Held(Holders(after, ConnectionOps, "binding"), p2)
    <2>1. "idle" \notin ConnectionOps
        BY DEF ConnectionOps
    <2>2. Shaped(calls, SettingsFields) /\ Held(Holders(calls, ConnectionOps, "binding"), p)
        BY DEF LocksFit
    <2>3. /\ HoldsLock(call, ConnectionOps, "binding") => ~p /\ p2
          /\ ~HoldsLock(call, ConnectionOps, "binding") => (p2 <=> p)
        BY DEF Raises
    <2> QED BY <1>1, <2>1, <2>2, <2>3, HeldPosted
<1>3. Held(Holders(after, {"password"}, "sessions"), v2)
    BY <1>1, HeldPosted DEF LocksFit, Raises
<1>4. Held(Holders(after, {"browser"}, "browser"), a2)
    BY <1>1, HeldPosted DEF LocksFit, Raises
<1>5. Held(Holders(after, {"quiet"}, "quiet"), q2)
    BY <1>1, HeldPosted DEF LocksFit, Raises
<1> QED BY <1>1, <1>2, <1>3, <1>4, <1>5 DEF LocksFit

LEMMA LocksEnded ==
    ASSUME NEW calls, NEW p, NEW v, NEW a, NEW q, LocksFit(calls, p, v, a, q), NEW s \in Slots,
           NEW after, after = End(calls, s), NEW p2, NEW v2, NEW a2, NEW q2,
           Lowers(calls[s], ConnectionOps, "binding", p, p2), Lowers(calls[s], {"password"}, "sessions", v, v2),
           Lowers(calls[s], {"browser"}, "browser", a, a2), Lowers(calls[s], {"quiet"}, "quiet", q, q2)
    PROVE  LocksFit(after, p2, v2, a2, q2)
<1>0. DOMAIN calls = Slots
    BY DEF LocksFit, Shaped
<1>1. Shaped(after, SettingsFields)
    BY ShapedEnded DEF LocksFit
<1>2. Held(Holders(after, ConnectionOps, "binding"), p2)
    BY <1>0, HeldEnded DEF LocksFit, Lowers, ConnectionOps
<1>3. Held(Holders(after, {"password"}, "sessions"), v2)
    BY <1>0, HeldEnded DEF LocksFit, Lowers
<1>4. Held(Holders(after, {"browser"}, "browser"), a2)
    BY <1>0, HeldEnded DEF LocksFit, Lowers
<1>5. Held(Holders(after, {"quiet"}, "quiet"), q2)
    BY <1>0, HeldEnded DEF LocksFit, Lowers
<1> QED BY <1>1, <1>2, <1>3, <1>4, <1>5 DEF LocksFit

\* An answer holds and frees nothing, and neither does what happens elsewhere.
LEMMA SettingsLocksKept ==
    ASSUME NEW calls, NEW p, NEW v, NEW a, NEW q, LocksFit(calls, p, v, a, q), NEW after,
           Shaped(after, SettingsFields),
           \A t \in Slots : /\ after[t].op = calls[t].op
                            /\ calls[t].op # "idle" => after[t].left = calls[t].left /\ after[t].after = calls[t].after
    PROVE  LocksFit(after, p, v, a, q)
<1>1. ASSUME NEW ops, NEW again, "idle" \notin ops, again # "idle", NEW flag, Held(Holders(calls, ops, again), flag)
      PROVE  Held(Holders(after, ops, again), flag)
    <2>1. \A t \in Slots : HoldsLock(after[t], ops, again) <=> HoldsLock(calls[t], ops, again)
        BY <1>1 DEF HoldsLock
    <2> QED BY <1>1, <2>1, HeldAsBefore
<1>2. Held(Holders(after, ConnectionOps, "binding"), p)
    BY <1>1 DEF LocksFit, ConnectionOps
<1>3. Held(Holders(after, {"password"}, "sessions"), v)
    BY <1>1 DEF LocksFit
<1>4. Held(Holders(after, {"browser"}, "browser"), a)
    BY <1>1 DEF LocksFit
<1>5. Held(Holders(after, {"quiet"}, "quiet"), q)
    BY <1>1 DEF LocksFit
<1> QED BY <1>2, <1>3, <1>4, <1>5 DEF LocksFit

LEMMA LocksTold ==
    ASSUME NEW calls, NEW p, NEW v, NEW a, NEW q, LocksFit(calls, p, v, a, q), NEW s \in Slots,
           NEW answer, NEW after, after = [calls EXCEPT ![s].answer = answer]
    PROVE  LocksFit(after, p, v, a, q)
<1>0. Shaped(calls, SettingsFields)
    BY DEF LocksFit
<1>1. Shaped(after, SettingsFields)
    BY <1>0, ShapedTold
<1>2. /\ \A t \in Slots \ {s} : after[t] = calls[t]
      /\ \A f \in DOMAIN calls[s] \ {"answer"} : after[s][f] = calls[s][f]
    BY <1>0, ToldCalls DEF Shaped
<1>3. /\ "op" \in DOMAIN calls[s]
      /\ calls[s].op # "idle" => {"left", "after"} \subseteq DOMAIN calls[s]
    BY <1>0 DEF Shaped, IsCall, SettingsFields
<1>4. ASSUME NEW t \in Slots
      PROVE  /\ after[t].op = calls[t].op
             /\ calls[t].op # "idle" => after[t].left = calls[t].left /\ after[t].after = calls[t].after
    BY <1>2, <1>3
<1> QED BY <1>1, <1>4, SettingsLocksKept

LEMMA LocksCrossed ==
    ASSUME NEW calls, NEW p, NEW v, NEW a, NEW q, LocksFit(calls, p, v, a, q), NEW writers,
           NEW after, after = Crossed(calls, writers)
    PROVE  LocksFit(after, p, v, a, q)
<1>0. Shaped(calls, SettingsFields)
    BY DEF LocksFit
<1>1. /\ Shaped(after, SettingsFields)
      /\ \A t \in Slots : /\ DOMAIN after[t] = DOMAIN calls[t]
                          /\ \A f \in DOMAIN calls[t] \ {"alone"} : after[t][f] = calls[t][f]
    BY <1>0, ShapedCrossed
<1>2. \A t \in Slots : /\ "op" \in DOMAIN calls[t]
                       /\ calls[t].op # "idle" => {"left", "after"} \subseteq DOMAIN calls[t]
    BY <1>0 DEF Shaped, IsCall, SettingsFields
<1>3. ASSUME NEW t \in Slots
      PROVE  /\ after[t].op = calls[t].op
             /\ calls[t].op # "idle" => after[t].left = calls[t].left /\ after[t].after = calls[t].after
    BY <1>1, <1>2
<1> QED BY <1>1, <1>3, SettingsLocksKept

-----------------------------------------------------------------------------
(* The account page: its invariant *)

DevicesOf(others) == IF others THEN "several" ELSE "one"

SettingsForms ==
    /\ {"bound", "others"} \subseteq DOMAIN stored
    /\ DOMAIN connection = {"binding", "failed", "loading", "pending", "dialog"}
    /\ DOMAIN security = {"sessions", "saving"}
    /\ DOMAIN guide = {"open", "required", "reachedEnd", "saving", "prompted"}

SettingsLocks == LocksFit(settingsCalls, connection.pending, security.saving, alerting, quietSaving)

BindingKnown == Known(settingsCalls, BindingWriters, "binding", stored.bound, connection.binding, bindingSure)

SessionsKnown ==
    Known(settingsCalls, SessionWriters, "sessions", DevicesOf(stored.others), security.sessions, sessionsSure)

DialogPlaced == connection.dialog = None \/ tab = "connection"

GuideKept ==
    /\ prompts = IF guide.prompted THEN 1 ELSE 0
    /\ guide.required /\ ~guide.reachedEnd => guide.open

SettingsInv ==
    SettingsForms /\ SettingsLocks /\ BindingKnown /\ SessionsKnown /\ DialogPlaced /\ GuideKept

\* The guide opens, is read and is put away.
LEMMA SettingsGuide ==
    ASSUME SettingsInv, PromptGuide \/ OpenReference \/ ReachEnd \/ DismissGuide
    PROVE  SettingsInv'
<1>1. /\ UNCHANGED <<stored, tab, panels, sure, settingsCalls>>
      /\ DOMAIN guide' = DOMAIN guide
    BY DEF PromptGuide, OpenReference, ReachEnd, DismissGuide, GuideCalls
<1>2. UNCHANGED <<connection, security, alerting, quietSaving, bindingSure, sessionsSure>>
    BY <1>1 DEF panels, sure
<1>3. SettingsForms' /\ SettingsLocks' /\ BindingKnown' /\ SessionsKnown' /\ DialogPlaced'
    BY <1>1, <1>2 DEF SettingsInv, SettingsForms, SettingsLocks, BindingKnown, SessionsKnown, DialogPlaced,
                      BindingWriters, SessionWriters
<1>4. GuideKept'
    <2>1. CASE PromptGuide
        BY <2>1 DEF PromptGuide, NotPrompted, SettingsInv, GuideKept, SettingsForms
    <2>2. CASE OpenReference
        BY <2>2 DEF OpenReference, SettingsInv, GuideKept, SettingsForms
    <2>3. CASE ReachEnd
        BY <2>3 DEF ReachEnd, SettingsInv, GuideKept, SettingsForms
    <2>4. CASE DismissGuide
        BY <2>4 DEF DismissGuide, MayLeaveGuide, SettingsInv, GuideKept, SettingsForms
    <2> QED BY <2>1, <2>2, <2>3, <2>4
<1> QED BY <1>3, <1>4 DEF SettingsInv

\* A dialog of the connection opens or closes, or the permission is taken back.
LEMMA SettingsShown ==
    ASSUME SettingsInv,
           \/ \E which \in {"scan", "cookie", "unlink"} : OpenConnectionDialog(which)
           \/ CloseConnectionDialog
           \/ RevokePermission
    PROVE  SettingsInv'
<1>1. /\ UNCHANGED <<stored, tab, security, alerting, quietSaving, guide, prompts, bindingSure, sessionsSure,
                     settingsCalls>>
      /\ DOMAIN connection' = DOMAIN connection
      /\ connection'.binding = connection.binding /\ connection'.pending = connection.pending
    BY DEF OpenConnectionDialog, CloseConnectionDialog, RevokePermission, ConnectionCalls, PreferenceCalls, reading,
           sure, SettingsInv, SettingsForms
<1>2. DialogPlaced'
    BY DEF OpenConnectionDialog, CloseConnectionDialog, RevokePermission, ConnectionCalls, PreferenceCalls, reading,
           sure, SettingsInv, SettingsForms, DialogPlaced, Page
<1>3. SettingsForms' /\ SettingsLocks' /\ BindingKnown' /\ SessionsKnown' /\ GuideKept'
    BY <1>1 DEF SettingsInv, SettingsForms, SettingsLocks, BindingKnown, SessionsKnown, GuideKept,
                BindingWriters, SessionWriters
<1> QED BY <1>2, <1>3 DEF SettingsInv

\* Requests that are marked are requests.
LEMMA SettingsMarked ==
    ASSUME NEW calls, Shaped(calls, SettingsFields)
    PROVE  Shaped(calls, {"left", "alone"})
BY DEF Shaped, IsCall, SettingsFields

\* A request that starts is for the page, and follows no other.
LEMMA SettingsWhole ==
    ASSUME NEW call, "op" \in DOMAIN call, {"left", "after", "answer", "alone"} \cap DOMAIN call = {},
           NEW whole, whole = With([left |-> FALSE, after |-> FALSE], call)
    PROVE  /\ whole.op = call.op /\ ~whole.left /\ ~whole.after
           /\ {"answer", "alone"} \cap DOMAIN whole = {} /\ {"op", "left", "after"} \subseteq DOMAIN whole
<1>1. PICK own : own = [left |-> FALSE, after |-> FALSE]
    OBVIOUS
<1>2. DOMAIN own = {"left", "after"} /\ own.left = FALSE /\ own.after = FALSE
    BY <1>1
<1>3. /\ DOMAIN whole = DOMAIN own \cup DOMAIN call
      /\ \A f \in DOMAIN own : whole[f] = own[f]
      /\ \A f \in DOMAIN call \ DOMAIN own : whole[f] = call[f]
    BY <1>1 DEF With
<1> QED BY <1>2, <1>3

\* The requests that replace what a page knows cross those of their own kind only.
CrossesItsKind(op, writers) ==
    /\ writers \in {BindingWriters, SessionWriters, {}}
    /\ op \in BindingWriters => writers = BindingWriters
    /\ op \in SessionWriters => writers = SessionWriters

\* The binding and the sessions through a request that starts.
LEMMA BindingPosted ==
    ASSUME NEW calls, Shaped(calls, SettingsFields), NEW call, NEW used, NEW after, IsPosted(calls, call, used, after),
           {"op", "left"} \subseteq DOMAIN call, ~call.left, CrossesItsKind(call.op, used),
           NEW value, NEW shown, NEW sure0, NEW next, next => sure0,
           Known(calls, BindingWriters, "binding", value, shown, sure0)
    PROVE  Known(after, BindingWriters, "binding", value, shown, next)
<1>1. Shaped(calls, {"left", "alone"})
    BY SettingsMarked
<1>2. "binding" \in BindingWriters /\ "idle" \notin BindingWriters /\ BindingWriters \cap SessionWriters = {}
    BY DEF BindingWriters, SessionWriters
<1>3. CASE call.op \in BindingWriters
    <2>1. used = BindingWriters
        BY <1>3 DEF CrossesItsKind
    <2>2. next => ~call.left /\ \A s \in Slots : calls[s].op \in BindingWriters => ~calls[s].left
        BY DEF Known
    <2> QED BY <1>1, <1>2, <1>3, <2>1, <2>2, KnownPosted
<1>4. CASE call.op \notin BindingWriters
    <2>1. CASE used = BindingWriters
        <3>1. call.op \notin BindingWriters \cup used
            BY <1>4, <2>1
        <3> QED BY <1>1, <1>2, <3>1, KnownPosted
    <2>2. CASE used # BindingWriters
        <3>1. call.op \notin BindingWriters /\ used \cap BindingWriters = {}
            BY <1>2, <1>4, <2>2 DEF CrossesItsKind
        <3> QED BY <1>1, <1>2, <3>1, KnownPosted
    <2> QED BY <2>1, <2>2
<1> QED BY <1>3, <1>4

\* The list of devices as a request of it is posted.
LEMMA SessionsPosted ==
    ASSUME NEW calls, Shaped(calls, SettingsFields), NEW call, NEW used, NEW after, IsPosted(calls, call, used, after),
           {"op", "left"} \subseteq DOMAIN call, ~call.left, CrossesItsKind(call.op, used),
           NEW value, NEW shown, NEW sure0, NEW next, next => sure0,
           Known(calls, SessionWriters, "sessions", value, shown, sure0)
    PROVE  Known(after, SessionWriters, "sessions", value, shown, next)
<1>1. Shaped(calls, {"left", "alone"})
    BY SettingsMarked
<1>2. "sessions" \in SessionWriters /\ "idle" \notin SessionWriters /\ BindingWriters \cap SessionWriters = {}
    BY DEF BindingWriters, SessionWriters
<1>3. CASE call.op \in SessionWriters
    <2>1. used = SessionWriters
        BY <1>3 DEF CrossesItsKind
    <2>2. next => ~call.left /\ \A s \in Slots : calls[s].op \in SessionWriters => ~calls[s].left
        BY DEF Known
    <2> QED BY <1>1, <1>2, <1>3, <2>1, <2>2, KnownPosted
<1>4. CASE call.op \notin SessionWriters
    <2>1. CASE used = SessionWriters
        <3>1. call.op \notin SessionWriters \cup used
            BY <1>4, <2>1
        <3> QED BY <1>1, <1>2, <3>1, KnownPosted
    <2>2. CASE used # SessionWriters
        <3>1. call.op \notin SessionWriters /\ used \cap SessionWriters = {}
            BY <1>2, <1>4, <2>2 DEF CrossesItsKind
        <3> QED BY <1>1, <1>2, <3>1, KnownPosted
    <2> QED BY <2>1, <2>2
<1> QED BY <1>3, <1>4

\* How a lock changes as a request of its kind starts.
Takes(op, ops, flag, raised) == IF op \in ops THEN ~flag /\ raised ELSE (raised <=> flag)

\* Every request of the page that a handler starts.
LEMMA SettingsSent ==
    ASSUME SettingsInv, NEW call, NEW writers, SendSettings(call, writers), CrossesItsKind(call.op, writers),
           "op" \in DOMAIN call, {"left", "after", "answer", "alone"} \cap DOMAIN call = {},
           Takes(call.op, ConnectionOps, connection.pending, connection'.pending),
           Takes(call.op, {"password"}, security.saving, security'.saving),
           Takes(call.op, {"browser"}, alerting, alerting'), Takes(call.op, {"quiet"}, quietSaving, quietSaving'),
           UNCHANGED <<stored, bindingSure, sessionsSure>>, connection'.binding = connection.binding,
           security'.sessions = security.sessions, SettingsForms', DialogPlaced', GuideKept'
    PROVE  SettingsInv'
<1>1. PICK whole : whole = With([left |-> FALSE, after |-> FALSE], call)
    OBVIOUS
<1>2. /\ whole.op = call.op /\ ~whole.left /\ ~whole.after
      /\ {"answer", "alone"} \cap DOMAIN whole = {} /\ {"op", "left", "after"} \subseteq DOMAIN whole
    BY <1>1, SettingsWhole
<1>3. settingsCalls' = Post(settingsCalls, whole, writers) /\ Free(settingsCalls) # {}
    BY <1>1 DEF SendSettings
<1>4. /\ Raises(whole, ConnectionOps, "binding", connection.pending, connection'.pending)
      /\ Raises(whole, {"password"}, "sessions", security.saving, security'.saving)
      /\ Raises(whole, {"browser"}, "browser", alerting, alerting')
      /\ Raises(whole, {"quiet"}, "quiet", quietSaving, quietSaving')
    BY <1>2 DEF Takes, Raises, HoldsLock, ConnectionOps
<1>5. LocksFit(settingsCalls, connection.pending, security.saving, alerting, quietSaving)
    BY DEF SettingsInv, SettingsLocks
<1>6. PICK after : after = settingsCalls'
    OBVIOUS
<1>7. /\ IsPosted(settingsCalls, whole, writers, after)
      /\ LocksFit(after, connection'.pending, security'.saving, alerting', quietSaving')
    BY <1>2, <1>3, <1>4, <1>5, <1>6, LocksPosted
<1>8. Shaped(settingsCalls, SettingsFields)
    BY <1>5 DEF LocksFit
<1>9. Known(after, BindingWriters, "binding", stored.bound, connection.binding, bindingSure)
    BY <1>2, <1>7, <1>8, BindingPosted DEF SettingsInv, BindingKnown
<1>10. Known(after, SessionWriters, "sessions", DevicesOf(stored.others), security.sessions, sessionsSure)
    BY <1>2, <1>7, <1>8, SessionsPosted DEF SettingsInv, SessionsKnown
<1>11. SettingsLocks' /\ BindingKnown' /\ SessionsKnown'
    BY <1>6, <1>7, <1>9, <1>10 DEF SettingsLocks, BindingKnown, SessionsKnown, BindingWriters, SessionWriters
<1> QED BY <1>11 DEF SettingsInv

\* What the user does: he asks for the connection or the devices, and changes them,
LEMMA SettingsAskBinding ==
    ASSUME SettingsInv, AskBinding
    PROVE  SettingsInv'
<1>1. PICK call : call = [op |-> "binding"]
    OBVIOUS
<1>2. call.op = "binding" /\ DOMAIN call = {"op"}
    BY <1>1
<1>3. SendSettings(call, BindingWriters)
    BY <1>1 DEF AskBinding
<1>4. CrossesItsKind(call.op, BindingWriters)
    BY <1>2 DEF CrossesItsKind, BindingWriters, SessionWriters
<1>5. /\ UNCHANGED <<stored, tab, security, alerting, quietSaving, guide, prompts, bindingSure, sessionsSure>>
      /\ DOMAIN connection' = DOMAIN connection
      /\ connection'.binding = connection.binding /\ connection'.pending = connection.pending
      /\ connection'.dialog = None
    BY DEF AskBinding, ConnectionCalls, reading, SettingsInv, SettingsForms
<1>6. SettingsForms' /\ DialogPlaced' /\ GuideKept'
    BY <1>5 DEF SettingsInv, SettingsForms, DialogPlaced, GuideKept
<1>7. /\ Takes(call.op, ConnectionOps, connection.pending, connection'.pending)
      /\ Takes(call.op, {"password"}, security.saving, security'.saving)
      /\ Takes(call.op, {"browser"}, alerting, alerting') /\ Takes(call.op, {"quiet"}, quietSaving, quietSaving')
    BY <1>2, <1>5 DEF Takes, ConnectionOps
<1> QED BY <1>2, <1>3, <1>4, <1>5, <1>6, <1>7, SettingsSent

LEMMA SettingsChangeConnection ==
    ASSUME SettingsInv, NEW op \in ConnectionOps, ChangeConnection(op)
    PROVE  SettingsInv'
<1>1. PICK call : call = [op |-> op]
    OBVIOUS
<1>2. call.op = op /\ DOMAIN call = {"op"}
    BY <1>1
<1>3. SendSettings(call, BindingWriters)
    BY <1>1 DEF ChangeConnection
<1>4. CrossesItsKind(call.op, BindingWriters)
    BY <1>2 DEF CrossesItsKind, BindingWriters, SessionWriters, ConnectionOps
<1>5. /\ UNCHANGED <<stored, tab, security, alerting, quietSaving, guide, prompts, bindingSure, sessionsSure>>
      /\ DOMAIN connection' = DOMAIN connection
      /\ connection'.binding = connection.binding /\ connection'.pending /\ ~connection.pending
      /\ tab = "connection"
    BY DEF ChangeConnection, NotPending, Page, ConnectionCalls, reading, SettingsInv, SettingsForms
<1>6. SettingsForms' /\ DialogPlaced' /\ GuideKept'
    BY <1>5 DEF SettingsInv, SettingsForms, DialogPlaced, GuideKept
<1>7. /\ Takes(call.op, ConnectionOps, connection.pending, connection'.pending)
      /\ Takes(call.op, {"password"}, security.saving, security'.saving)
      /\ Takes(call.op, {"browser"}, alerting, alerting') /\ Takes(call.op, {"quiet"}, quietSaving, quietSaving')
    BY <1>2, <1>5 DEF Takes, ConnectionOps
<1> QED BY <1>2, <1>3, <1>4, <1>5, <1>6, <1>7, SettingsSent

LEMMA SettingsAskSessions ==
    ASSUME SettingsInv, AskSessions
    PROVE  SettingsInv'
<1>1. PICK call : call = [op |-> "sessions"]
    OBVIOUS
<1>2. call.op = "sessions" /\ DOMAIN call = {"op"}
    BY <1>1
<1>3. SendSettings(call, SessionWriters)
    BY <1>1 DEF AskSessions
<1>4. CrossesItsKind(call.op, SessionWriters)
    BY <1>2 DEF CrossesItsKind, BindingWriters, SessionWriters
<1>5. UNCHANGED <<stored, tab, connection, security, alerting, quietSaving, guide, prompts, bindingSure, sessionsSure>>
    BY DEF AskSessions, SecurityCalls
<1>6. SettingsForms' /\ DialogPlaced' /\ GuideKept'
    BY <1>5 DEF SettingsInv, SettingsForms, DialogPlaced, GuideKept
<1>7. /\ Takes(call.op, ConnectionOps, connection.pending, connection'.pending)
      /\ Takes(call.op, {"password"}, security.saving, security'.saving)
      /\ Takes(call.op, {"browser"}, alerting, alerting') /\ Takes(call.op, {"quiet"}, quietSaving, quietSaving')
    BY <1>2, <1>5 DEF Takes, ConnectionOps
<1>8. connection'.binding = connection.binding /\ security'.sessions = security.sessions
    BY <1>5
<1> QED BY <1>2, <1>3, <1>4, <1>5, <1>6, <1>7, <1>8, SettingsSent

LEMMA SettingsChangeSessions ==
    ASSUME SettingsInv, NEW op \in {"password", "others"}, ChangeSessions(op)
    PROVE  SettingsInv'
<1>1. PICK call : call = [op |-> op]
    OBVIOUS
<1>2. call.op = op /\ DOMAIN call = {"op"}
    BY <1>1
<1>3. SendSettings(call, SessionWriters)
    BY <1>1 DEF ChangeSessions
<1>4. CrossesItsKind(call.op, SessionWriters)
    BY <1>2 DEF CrossesItsKind, BindingWriters, SessionWriters
<1>5. /\ UNCHANGED <<stored, tab, connection, alerting, quietSaving, guide, prompts, bindingSure, sessionsSure>>
      /\ DOMAIN security' = DOMAIN security /\ security'.sessions = security.sessions
      /\ op = "password" => ~security.saving
      /\ security'.saving <=> security.saving \/ op = "password"
    BY DEF ChangeSessions, SecurityCalls, SettingsInv, SettingsForms
<1>6. SettingsForms' /\ DialogPlaced' /\ GuideKept'
    BY <1>5 DEF SettingsInv, SettingsForms, DialogPlaced, GuideKept
<1>7. /\ Takes(call.op, ConnectionOps, connection.pending, connection'.pending)
      /\ Takes(call.op, {"password"}, security.saving, security'.saving)
      /\ Takes(call.op, {"browser"}, alerting, alerting') /\ Takes(call.op, {"quiet"}, quietSaving, quietSaving')
    BY <1>2, <1>5 DEF Takes, ConnectionOps
<1>8. connection'.binding = connection.binding
    BY <1>5
<1> QED BY <1>2, <1>3, <1>4, <1>5, <1>6, <1>7, <1>8, SettingsSent

\* saves the quiet hours, switches alerts or acknowledges the guide.
LEMMA SettingsSaveQuiet ==
    ASSUME SettingsInv, NEW value \in BOOLEAN, SaveQuietHours(value)
    PROVE  SettingsInv'
<1>1. PICK call : call = [op |-> "quiet", value |-> value]
    OBVIOUS
<1>2. call.op = "quiet" /\ DOMAIN call = {"op", "value"}
    BY <1>1
<1>3. SendSettings(call, {})
    BY <1>1 DEF SaveQuietHours
<1>4. CrossesItsKind(call.op, {})
    BY <1>2 DEF CrossesItsKind, BindingWriters, SessionWriters
<1>5. /\ UNCHANGED <<stored, tab, connection, security, alerting, guide, prompts, bindingSure, sessionsSure>>
      /\ ~quietSaving /\ quietSaving'
    BY DEF SaveQuietHours, PreferenceCalls, reading, sure
<1>6. SettingsForms' /\ DialogPlaced' /\ GuideKept'
    BY <1>5 DEF SettingsInv, SettingsForms, DialogPlaced, GuideKept
<1>7. /\ Takes(call.op, ConnectionOps, connection.pending, connection'.pending)
      /\ Takes(call.op, {"password"}, security.saving, security'.saving)
      /\ Takes(call.op, {"browser"}, alerting, alerting') /\ Takes(call.op, {"quiet"}, quietSaving, quietSaving')
    BY <1>2, <1>5 DEF Takes, ConnectionOps
<1>8. connection'.binding = connection.binding /\ security'.sessions = security.sessions
    BY <1>5
<1> QED BY <1>2, <1>3, <1>4, <1>5, <1>6, <1>7, <1>8, SettingsSent

LEMMA SettingsToggleAlerts ==
    ASSUME SettingsInv, NEW choice \in {"granted", "denied"}, ToggleAlerts(choice)
    PROVE  SettingsInv'
<1>0. /\ UNCHANGED <<stored, tab, connection, security, quietSaving, guide, prompts, bindingSure, sessionsSure>>
      /\ ~alerting
    BY DEF ToggleAlerts, PreferenceCalls, reading, sure
<1>1. SettingsForms' /\ DialogPlaced' /\ GuideKept'
    BY <1>0 DEF SettingsInv, SettingsForms, DialogPlaced, GuideKept
<1>2. CASE permission' = "granted" \/ preference.browser
    <2>1. PICK call : call = [op |-> "browser", value |-> SwitchesTo(permission')]
        OBVIOUS
    <2>2. call.op = "browser" /\ DOMAIN call = {"op", "value"}
        BY <2>1
    <2>3. SendSettings(call, {}) /\ alerting' = TRUE
        BY <1>2, <2>1 DEF ToggleAlerts
    <2>4. CrossesItsKind(call.op, {})
        BY <2>2 DEF CrossesItsKind, BindingWriters, SessionWriters
    <2>5. /\ Takes(call.op, ConnectionOps, connection.pending, connection'.pending)
          /\ Takes(call.op, {"password"}, security.saving, security'.saving)
          /\ Takes(call.op, {"browser"}, alerting, alerting') /\ Takes(call.op, {"quiet"}, quietSaving, quietSaving')
        BY <1>0, <2>2, <2>3 DEF Takes, ConnectionOps
    <2>6. connection'.binding = connection.binding /\ security'.sessions = security.sessions
        BY <1>0
    <2> QED BY <1>0, <1>1, <2>2, <2>3, <2>4, <2>5, <2>6, SettingsSent
<1>3. CASE ~(permission' = "granted" \/ preference.browser)
    <2>1. UNCHANGED <<settingsCalls, alerting>>
        BY <1>3 DEF ToggleAlerts
    <2> QED BY <1>0, <1>1, <2>1 DEF SettingsInv, SettingsLocks, BindingKnown, SessionsKnown, BindingWriters,
                                    SessionWriters
<1> QED BY <1>2, <1>3

LEMMA SettingsAcknowledge ==
    ASSUME SettingsInv, AcknowledgeGuide
    PROVE  SettingsInv'
<1>1. PICK call : call = [op |-> "ack"]
    OBVIOUS
<1>2. call.op = "ack" /\ DOMAIN call = {"op"}
    BY <1>1
<1>3. SendSettings(call, {})
    BY <1>1 DEF AcknowledgeGuide
<1>4. CrossesItsKind(call.op, {})
    BY <1>2 DEF CrossesItsKind, BindingWriters, SessionWriters
<1>5. /\ UNCHANGED <<stored, tab, connection, security, alerting, quietSaving, prompts, bindingSure, sessionsSure>>
      /\ guide' = [guide EXCEPT !.saving = TRUE]
    BY DEF AcknowledgeGuide, GuideCalls, panels, sure
<1>6. SettingsForms' /\ DialogPlaced' /\ GuideKept'
    BY <1>5 DEF SettingsInv, SettingsForms, DialogPlaced, GuideKept
<1>7. /\ Takes(call.op, ConnectionOps, connection.pending, connection'.pending)
      /\ Takes(call.op, {"password"}, security.saving, security'.saving)
      /\ Takes(call.op, {"browser"}, alerting, alerting') /\ Takes(call.op, {"quiet"}, quietSaving, quietSaving')
    BY <1>2, <1>5 DEF Takes, ConnectionOps
<1>8. connection'.binding = connection.binding /\ security'.sessions = security.sessions
    BY <1>5
<1> QED BY <1>2, <1>3, <1>4, <1>5, <1>6, <1>7, <1>8, SettingsSent

\* How a lock changes as a request ends.
LEMMA SettingsEnded ==
    ASSUME SettingsInv, NEW s \in Slots, settingsCalls' = End(settingsCalls, s),
           Lowers(settingsCalls[s], ConnectionOps, "binding", connection.pending, connection'.pending),
           Lowers(settingsCalls[s], {"password"}, "sessions", security.saving, security'.saving),
           Lowers(settingsCalls[s], {"browser"}, "browser", alerting, alerting'),
           Lowers(settingsCalls[s], {"quiet"}, "quiet", quietSaving, quietSaving'),
           UNCHANGED stored, SettingsForms', DialogPlaced', GuideKept',
           \/ ~bindingSure'
           \/ /\ settingsCalls[s].op \notin BindingWriters /\ bindingSure
              /\ connection'.binding = connection.binding
           \/ /\ settingsCalls[s].op = "binding" /\ settingsCalls[s].alone /\ Succeeds(settingsCalls[s])
              /\ connection'.binding = settingsCalls[s].answer.body,
           \/ ~sessionsSure'
           \/ /\ settingsCalls[s].op \notin SessionWriters /\ sessionsSure
              /\ security'.sessions = security.sessions
           \/ /\ settingsCalls[s].op = "sessions" /\ settingsCalls[s].alone /\ Succeeds(settingsCalls[s])
              /\ security'.sessions = settingsCalls[s].answer.body
    PROVE  SettingsInv'
<1>1. PICK after : after = settingsCalls'
    OBVIOUS
<1>2. LocksFit(after, connection'.pending, security'.saving, alerting', quietSaving')
    BY <1>1, LocksEnded DEF SettingsInv, SettingsLocks
<1>3. DOMAIN settingsCalls = Slots
    BY DEF SettingsInv, SettingsLocks, LocksFit, Shaped
<1>4. /\ "binding" \in BindingWriters /\ "idle" \notin BindingWriters
      /\ "sessions" \in SessionWriters /\ "idle" \notin SessionWriters
    BY DEF BindingWriters, SessionWriters
<1>5. Known(after, BindingWriters, "binding", stored.bound, connection'.binding, bindingSure')
    BY <1>1, <1>3, <1>4, KnownEnded DEF SettingsInv, BindingKnown
<1>6. Known(after, SessionWriters, "sessions", DevicesOf(stored.others), security'.sessions, sessionsSure')
    BY <1>1, <1>3, <1>4, KnownEnded DEF SettingsInv, SessionsKnown
<1>7. SettingsLocks' /\ BindingKnown' /\ SessionsKnown'
    BY <1>1, <1>2, <1>5, <1>6 DEF SettingsLocks, BindingKnown, SessionsKnown, BindingWriters, SessionWriters
<1> QED BY <1>7 DEF SettingsInv

\* The shape of a call of the page.
LEMMA SettingsCallIs ==
    ASSUME SettingsInv, NEW s \in Slots
    PROVE  /\ DOMAIN settingsCalls = Slots /\ "op" \in DOMAIN settingsCalls[s]
           /\ settingsCalls[s].op # "idle" => {"answer", "left", "after", "alone"} \subseteq DOMAIN settingsCalls[s]
BY DEF SettingsInv, SettingsLocks, LocksFit, Shaped, IsCall, SettingsFields

\* As long as the page is sure, what may replace what it knows is for it.
LEMMA SureIsForThePage ==
    ASSUME SettingsInv, NEW s \in Slots
    PROVE  /\ bindingSure /\ settingsCalls[s].op \in BindingWriters => ~settingsCalls[s].left
           /\ sessionsSure /\ settingsCalls[s].op \in SessionWriters => ~settingsCalls[s].left
BY DEF SettingsInv, BindingKnown, SessionsKnown, Known

\* The answers, request by request.
LEMMA SettingsLandBinding ==
    ASSUME SettingsInv, NEW s \in Slots, LandBindingState(s)
    PROVE  SettingsInv'
<1>1. PICK call : call = settingsCalls[s]
    OBVIOUS
<1>2. /\ call.op = "binding" /\ settingsCalls' = End(settingsCalls, s)
      /\ UNCHANGED <<stored, tab, security, alerting, quietSaving, guide, prompts, sessionsSure>>
    BY <1>1 DEF LandBindingState, ConnectionCalls, reading
<1>3. CASE call.left
    <2>1. UNCHANGED <<connection, bindingSure>>
        BY <1>1, <1>3 DEF LandBindingState
    <2>2. SettingsForms' /\ DialogPlaced' /\ GuideKept'
        BY <1>2, <2>1 DEF SettingsInv, SettingsForms, DialogPlaced, GuideKept
    <2>3. ~bindingSure'
        BY <1>1, <1>2, <1>3, <2>1, SureIsForThePage DEF BindingWriters
    <2>4. call.op \notin SessionWriters /\ security'.sessions = security.sessions
        BY <1>2 DEF SessionWriters
    <2>5. /\ Lowers(call, ConnectionOps, "binding", connection.pending, connection'.pending)
          /\ Lowers(call, {"password"}, "sessions", security.saving, security'.saving)
          /\ Lowers(call, {"browser"}, "browser", alerting, alerting')
          /\ Lowers(call, {"quiet"}, "quiet", quietSaving, quietSaving')
        BY <1>2, <1>3, <2>1 DEF Lowers, HoldsLock, ConnectionOps
    <2> QED BY <1>1, <1>2, <2>2, <2>3, <2>4, <2>5, SettingsEnded
<1>4. CASE ~call.left
    <2>1. /\ connection' = [connection EXCEPT !.loading = FALSE, !.failed = ~Succeeds(call),
                  !.pending = @ /\ ~call.after,
                  !.binding = IF Succeeds(call) THEN call.answer.body ELSE @]
          /\ bindingSure' = SureAfter(call, bindingSure, {"binding"})
        BY <1>1, <1>4 DEF LandBindingState
    <2>2. /\ DOMAIN connection' = DOMAIN connection
          /\ connection'.pending <=> connection.pending /\ ~call.after
          /\ Succeeds(call) => connection'.binding = call.answer.body
          /\ connection'.dialog = connection.dialog
        BY <2>1 DEF SettingsInv, SettingsForms
    <2>3. SettingsForms' /\ DialogPlaced' /\ GuideKept'
        BY <1>2, <2>2 DEF SettingsInv, SettingsForms, DialogPlaced, GuideKept
    <2>4. bindingSure' => call.alone /\ Succeeds(call)
        BY <2>1 DEF SureAfter
    <2>5. call.op \notin SessionWriters /\ security'.sessions = security.sessions
        BY <1>2 DEF SessionWriters
    <2>6. /\ Lowers(call, ConnectionOps, "binding", connection.pending, connection'.pending)
          /\ Lowers(call, {"password"}, "sessions", security.saving, security'.saving)
          /\ Lowers(call, {"browser"}, "browser", alerting, alerting')
          /\ Lowers(call, {"quiet"}, "quiet", quietSaving, quietSaving')
        BY <1>2, <1>4, <2>2 DEF Lowers, HoldsLock, ConnectionOps
    <2> QED BY <1>1, <1>2, <2>2, <2>3, <2>4, <2>5, <2>6, SettingsEnded
<1> QED BY <1>3, <1>4

LEMMA SettingsLandSessions ==
    ASSUME SettingsInv, NEW s \in Slots, LandSessions(s)
    PROVE  SettingsInv'
<1>1. PICK call : call = settingsCalls[s]
    OBVIOUS
<1>2. /\ call.op = "sessions" /\ settingsCalls' = End(settingsCalls, s)
      /\ UNCHANGED <<stored, tab, connection, alerting, quietSaving, guide, prompts, bindingSure>>
    BY <1>1 DEF LandSessions, SecurityCalls
<1>3. CASE call.left
    <2>1. UNCHANGED <<security, sessionsSure>>
        BY <1>1, <1>3 DEF LandSessions
    <2>2. SettingsForms' /\ DialogPlaced' /\ GuideKept'
        BY <1>2, <2>1 DEF SettingsInv, SettingsForms, DialogPlaced, GuideKept
    <2>3. ~sessionsSure'
        BY <1>1, <1>2, <1>3, <2>1, SureIsForThePage DEF SessionWriters
    <2>4. call.op \notin BindingWriters /\ connection'.binding = connection.binding
        BY <1>2 DEF BindingWriters
    <2>5. /\ Lowers(call, ConnectionOps, "binding", connection.pending, connection'.pending)
          /\ Lowers(call, {"password"}, "sessions", security.saving, security'.saving)
          /\ Lowers(call, {"browser"}, "browser", alerting, alerting')
          /\ Lowers(call, {"quiet"}, "quiet", quietSaving, quietSaving')
        BY <1>2, <1>3, <2>1 DEF Lowers, HoldsLock, ConnectionOps
    <2> QED BY <1>1, <1>2, <2>2, <2>3, <2>4, <2>5, SettingsEnded
<1>4. CASE ~call.left
    <2>1. /\ security' = [security EXCEPT !.saving = @ /\ ~call.after,
                                          !.sessions = IF Succeeds(call) THEN call.answer.body ELSE @]
          /\ sessionsSure' = SureAfter(call, sessionsSure, {"sessions"})
        BY <1>1, <1>4 DEF LandSessions
    <2>2. /\ DOMAIN security' = DOMAIN security
          /\ security'.saving <=> security.saving /\ ~call.after
          /\ Succeeds(call) => security'.sessions = call.answer.body
        BY <2>1 DEF SettingsInv, SettingsForms
    <2>3. SettingsForms' /\ DialogPlaced' /\ GuideKept'
        BY <1>2, <2>2 DEF SettingsInv, SettingsForms, DialogPlaced, GuideKept
    <2>4. sessionsSure' => call.alone /\ Succeeds(call)
        BY <2>1 DEF SureAfter
    <2>5. call.op \notin BindingWriters /\ connection'.binding = connection.binding
        BY <1>2 DEF BindingWriters
    <2>6. /\ Lowers(call, ConnectionOps, "binding", connection.pending, connection'.pending)
          /\ Lowers(call, {"password"}, "sessions", security.saving, security'.saving)
          /\ Lowers(call, {"browser"}, "browser", alerting, alerting')
          /\ Lowers(call, {"quiet"}, "quiet", quietSaving, quietSaving')
        BY <1>2, <1>4, <2>2 DEF Lowers, HoldsLock, ConnectionOps
    <2> QED BY <1>1, <1>2, <2>2, <2>3, <2>4, <2>5, <2>6, SettingsEnded
<1> QED BY <1>3, <1>4

LEMMA SettingsLandPreference ==
    ASSUME SettingsInv, NEW s \in Slots, LandPreference(s)
    PROVE  SettingsInv'
<1>1. PICK call : call = settingsCalls[s]
    OBVIOUS
<1>2. /\ call.op \in {"browser", "quiet"} /\ settingsCalls' = End(settingsCalls, s)
      /\ UNCHANGED <<stored, tab, connection, security, guide, prompts, bindingSure, sessionsSure>>
      /\ alerting' <=> alerting /\ (call.left \/ call.op # "browser")
      /\ quietSaving' <=> quietSaving /\ (call.left \/ call.op # "quiet")
    BY <1>1 DEF LandPreference, PreferenceCalls, reading, sure
<1>3. SettingsForms' /\ DialogPlaced' /\ GuideKept'
    BY <1>2 DEF SettingsInv, SettingsForms, DialogPlaced, GuideKept
<1>4. /\ call.op \notin BindingWriters /\ connection'.binding = connection.binding
      /\ call.op \notin SessionWriters /\ security'.sessions = security.sessions
    BY <1>2 DEF BindingWriters, SessionWriters
<1>5. /\ Lowers(call, ConnectionOps, "binding", connection.pending, connection'.pending)
      /\ Lowers(call, {"password"}, "sessions", security.saving, security'.saving)
      /\ Lowers(call, {"browser"}, "browser", alerting, alerting')
      /\ Lowers(call, {"quiet"}, "quiet", quietSaving, quietSaving')
    BY <1>2 DEF Lowers, HoldsLock, ConnectionOps
<1>6. bindingSure' = bindingSure /\ sessionsSure' = sessionsSure
    BY <1>2
<1> QED BY <1>1, <1>2, <1>3, <1>4, <1>5, <1>6, SettingsEnded

LEMMA SettingsLandAck ==
    ASSUME SettingsInv, NEW s \in Slots, LandAck(s)
    PROVE  SettingsInv'
<1>1. PICK call : call = settingsCalls[s]
    OBVIOUS
<1>2. /\ call.op = "ack" /\ settingsCalls' = End(settingsCalls, s)
      /\ UNCHANGED <<stored, tab, connection, security, alerting, quietSaving, prompts, bindingSure, sessionsSure>>
      /\ guide' = [guide EXCEPT !.saving = FALSE, !.required = @ /\ ~Succeeds(call),
                                !.open = @ /\ ~Succeeds(call)]
    BY <1>1 DEF LandAck, GuideCalls, panels, sure
<1>3. /\ DOMAIN guide' = DOMAIN guide /\ guide'.prompted = guide.prompted /\ guide'.reachedEnd = guide.reachedEnd
      /\ guide'.required <=> guide.required /\ ~Succeeds(call)
      /\ guide'.open <=> guide.open /\ ~Succeeds(call)
    BY <1>2 DEF SettingsInv, SettingsForms
<1>4. SettingsForms' /\ DialogPlaced' /\ GuideKept'
    BY <1>2, <1>3 DEF SettingsInv, SettingsForms, DialogPlaced, GuideKept
<1>5. /\ call.op \notin BindingWriters /\ connection'.binding = connection.binding
      /\ call.op \notin SessionWriters /\ security'.sessions = security.sessions
    BY <1>2 DEF BindingWriters, SessionWriters
<1>6. /\ Lowers(call, ConnectionOps, "binding", connection.pending, connection'.pending)
      /\ Lowers(call, {"password"}, "sessions", security.saving, security'.saving)
      /\ Lowers(call, {"browser"}, "browser", alerting, alerting')
      /\ Lowers(call, {"quiet"}, "quiet", quietSaving, quietSaving')
    BY <1>2 DEF Lowers, HoldsLock, ConnectionOps
<1>7. bindingSure' = bindingSure /\ sessionsSure' = sessionsSure
    BY <1>2
<1> QED BY <1>1, <1>2, <1>4, <1>5, <1>6, <1>7, SettingsEnded

\* What the page knows once a request ended and another one reads it again.
LEMMA KnownReadAgain ==
    ASSUME NEW calls, Shaped(calls, SettingsFields), NEW writers, NEW load, load \in writers, "idle" \notin writers,
           NEW value, NEW shown, NEW sure0, Known(calls, writers, load, value, shown, sure0), NEW s \in Slots,
           NEW middle, middle = End(calls, s), NEW call, {"op", "left"} \subseteq DOMAIN call, ~call.left,
           call.op = load, NEW after, IsPosted(middle, call, writers, after), NEW next, next => sure0, NEW seen
    PROVE  Known(after, writers, load, value, seen, next)
<1>1. DOMAIN calls = Slots
    BY DEF Shaped
<1>2. PICK unsure : unsure = FALSE
    OBVIOUS
<1>3. Known(middle, writers, load, value, seen, unsure)
    BY <1>1, <1>2, KnownEnded
<1>4. Shaped(middle, {"left", "alone"})
    BY ShapedEnded, SettingsMarked
<1>5. ASSUME next, NEW t \in Slots, middle[t].op \in writers
      PROVE  ~middle[t].left
    <2>1. \A u \in Slots : middle[u] = IF u = s THEN NoCall ELSE calls[u]
        BY <1>1, EndedCalls
    <2>2. t # s
        BY <1>5, <2>1 DEF NoCall
    <2>3. middle[t] = calls[t]
        BY <2>1, <2>2
    <2> QED BY <1>5, <2>3 DEF Known
<1>6. next => ~call.left /\ \A t \in Slots : middle[t].op \in writers => ~middle[t].left
    BY <1>5
<1> QED BY <1>3, <1>4, <1>6, KnownPosted

LEMMA SettingsLandConnection ==
    ASSUME SettingsInv, NEW s \in Slots, NEW read \in BOOLEAN, LandConnection(s, read)
    PROVE  SettingsInv'
<1>1. PICK call : call = settingsCalls[s]
    OBVIOUS
<1>2. PICK reloads \in BOOLEAN : reloads <=> Succeeds(call) /\ ReadsBinding(call.op) /\ (call.op = "sync" => read)
    OBVIOUS
<1>3. PICK closes \in BOOLEAN : closes <=> Succeeds(call) /\ call.op # "sync"
    OBVIOUS
<1>4. /\ call.op \in ConnectionOps
      /\ UNCHANGED <<stored, tab, security, alerting, quietSaving, guide, prompts, sessionsSure>>
    BY <1>1 DEF LandConnection, ConnectionCalls, reading, ConnectionOps
<1>5. /\ call.op \notin SessionWriters /\ security'.sessions = security.sessions
      /\ sessionsSure' = sessionsSure
    BY <1>4 DEF SessionWriters, ConnectionOps
<1>6. CASE call.left
    <2>1. settingsCalls' = End(settingsCalls, s) /\ UNCHANGED <<connection, bindingSure>>
        BY <1>1, <1>6 DEF LandConnection
    <2>2. SettingsForms' /\ DialogPlaced' /\ GuideKept'
        BY <1>4, <2>1 DEF SettingsInv, SettingsForms, DialogPlaced, GuideKept
    <2>3. call.op \in BindingWriters => ~bindingSure'
        BY <1>1, <1>6, <2>1, SureIsForThePage
    <2>4. /\ Lowers(call, ConnectionOps, "binding", connection.pending, connection'.pending)
          /\ Lowers(call, {"password"}, "sessions", security.saving, security'.saving)
          /\ Lowers(call, {"browser"}, "browser", alerting, alerting')
          /\ Lowers(call, {"quiet"}, "quiet", quietSaving, quietSaving')
        BY <1>4, <1>6, <2>1 DEF Lowers, HoldsLock, ConnectionOps
    <2>5. connection'.binding = connection.binding /\ bindingSure' = bindingSure
        BY <2>1
    <2> QED BY <1>1, <1>4, <1>5, <2>1, <2>2, <2>3, <2>4, <2>5, SettingsEnded
<1>7. CASE ~call.left
    <2>1. /\ connection' = [connection EXCEPT
                  !.dialog = IF closes THEN None ELSE @,
                  !.loading = @ \/ reloads, !.pending = reloads,
                  !.failed = @ /\ ~reloads]
          /\ bindingSure' <=> bindingSure /\ (call.op = "unlink" => Succeeds(call) /\ call.alone)
          /\ settingsCalls' =
                  IF reloads
                  THEN Post(End(settingsCalls, s), [op |-> "binding", after |-> TRUE, left |-> FALSE],
                            BindingWriters)
                  ELSE End(settingsCalls, s)
        BY <1>1, <1>2, <1>3, <1>7 DEF LandConnection
    <2>2. /\ DOMAIN connection' = DOMAIN connection /\ connection'.binding = connection.binding
          /\ connection'.pending = reloads
          /\ connection'.dialog = None \/ connection'.dialog = connection.dialog
        BY <2>1 DEF SettingsInv, SettingsForms
    <2>3. SettingsForms' /\ DialogPlaced' /\ GuideKept'
        BY <1>4, <2>2 DEF SettingsInv, SettingsForms, DialogPlaced, GuideKept
    <2>4. PICK freed : freed = FALSE
        OBVIOUS
    <2>5. /\ Lowers(call, ConnectionOps, "binding", connection.pending, freed)
          /\ Lowers(call, {"password"}, "sessions", security.saving, security'.saving)
          /\ Lowers(call, {"browser"}, "browser", alerting, alerting')
          /\ Lowers(call, {"quiet"}, "quiet", quietSaving, quietSaving')
        BY <1>4, <1>7, <2>4 DEF Lowers, HoldsLock, ConnectionOps
    <2>6. CASE ~reloads
        <3>1. settingsCalls' = End(settingsCalls, s)
            BY <2>1, <2>6
        <3>2. Lowers(call, ConnectionOps, "binding", connection.pending, connection'.pending)
            BY <2>2, <2>4, <2>5, <2>6 DEF Lowers
        <3>3. call.op \in BindingWriters => ~bindingSure'
            BY <1>2, <1>4, <2>1, <2>6 DEF BindingWriters, ConnectionOps, ReadsBinding
        <3>4. bindingSure' => bindingSure
            BY <2>1
        <3> QED BY <1>1, <1>4, <1>5, <2>2, <2>3, <2>5, <3>1, <3>2, <3>3, <3>4, SettingsEnded
    <2>7. CASE reloads
        <3>1. PICK middle : middle = End(settingsCalls, s)
            OBVIOUS
        <3>2. PICK again : again = [op |-> "binding", after |-> TRUE, left |-> FALSE]
            OBVIOUS
        <3>3. PICK after : after = settingsCalls'
            OBVIOUS
        <3>4. after = Post(middle, again, BindingWriters)
            BY <2>1, <2>7, <3>1, <3>2, <3>3
        <3>5. /\ again.op = "binding" /\ again.after /\ ~again.left
              /\ DOMAIN again = {"op", "after", "left"}
            BY <3>2
        <3>6. /\ Shaped(settingsCalls, SettingsFields) /\ DOMAIN settingsCalls = Slots
              /\ LocksFit(settingsCalls, connection.pending, security.saving, alerting, quietSaving)
            BY DEF SettingsInv, SettingsLocks, LocksFit, Shaped
        <3>7. LocksFit(middle, freed, security'.saving, alerting', quietSaving')
            BY <1>1, <2>5, <3>1, <3>6, LocksEnded
        <3>8. Free(middle) # {}
            BY <3>1, <3>6, EndFrees
        <3>9. /\ Raises(again, ConnectionOps, "binding", freed, connection'.pending)
              /\ Raises(again, {"password"}, "sessions", security'.saving, security'.saving)
              /\ Raises(again, {"browser"}, "browser", alerting', alerting')
              /\ Raises(again, {"quiet"}, "quiet", quietSaving', quietSaving')
            BY <2>2, <2>4, <2>7, <3>5 DEF Raises, HoldsLock, ConnectionOps
        <3>10. /\ IsPosted(middle, again, BindingWriters, after)
               /\ LocksFit(after, connection'.pending, security'.saving, alerting', quietSaving')
            BY <3>4, <3>5, <3>7, <3>8, <3>9, LocksPosted
        <3>11. Known(after, BindingWriters, "binding", stored.bound, connection'.binding, bindingSure')
            <4>1. "binding" \in BindingWriters /\ "idle" \notin BindingWriters
                BY DEF BindingWriters
            <4>2. Known(settingsCalls, BindingWriters, "binding", stored.bound, connection.binding, bindingSure)
                BY DEF SettingsInv, BindingKnown
            <4>3. bindingSure' => bindingSure
                BY <2>1
            <4> QED BY <3>1, <3>5, <3>6, <3>10, <4>1, <4>2, <4>3, KnownReadAgain
        <3>12. Known(middle, SessionWriters, "sessions", DevicesOf(stored.others), security.sessions, sessionsSure)
            <4>1. "sessions" \in SessionWriters /\ "idle" \notin SessionWriters
                BY DEF SessionWriters
            <4> QED BY <1>1, <1>5, <3>1, <3>6, <4>1, KnownEnded DEF SettingsInv, SessionsKnown
        <3>13. CrossesItsKind(again.op, BindingWriters)
            BY <3>5 DEF CrossesItsKind, BindingWriters, SessionWriters
        <3>14. Shaped(middle, SettingsFields)
            BY <3>7 DEF LocksFit
        <3>15. Known(after, SessionWriters, "sessions", DevicesOf(stored.others), security.sessions, sessionsSure)
            BY <3>5, <3>10, <3>12, <3>13, <3>14, SessionsPosted
        <3>16. SettingsLocks' /\ BindingKnown' /\ SessionsKnown'
            BY <1>4, <3>3, <3>10, <3>11, <3>15 DEF SettingsLocks, BindingKnown, SessionsKnown, BindingWriters,
                                                   SessionWriters
        <3> QED BY <2>3, <3>16 DEF SettingsInv
    <2> QED BY <2>6, <2>7
<1> QED BY <1>6, <1>7

LEMMA SettingsLandSessionChange ==
    ASSUME SettingsInv, NEW s \in Slots, LandSessionChange(s)
    PROVE  SettingsInv'
<1>1. PICK call : call = settingsCalls[s]
    OBVIOUS
<1>2. PICK reloads \in BOOLEAN : reloads <=> Succeeds(call) /\ ~call.left /\ Reloads(call.op)
    OBVIOUS
<1>3. /\ call.op \in {"password", "others"}
      /\ UNCHANGED <<stored, tab, connection, alerting, quietSaving, guide, prompts, bindingSure>>
      /\ settingsCalls' =
             IF reloads THEN Post(End(settingsCalls, s), [op |-> "sessions", left |-> FALSE,
                                                          after |-> call.op = "password"], SessionWriters)
             ELSE End(settingsCalls, s)
      /\ security' = IF call.left THEN security
                     ELSE [security EXCEPT !.saving = IF call.op = "password" THEN reloads ELSE @]
      /\ sessionsSure' <=> sessionsSure /\ (call.left \/ (Succeeds(call) /\ call.alone))
    BY <1>1, <1>2 DEF LandSessionChange, SecurityCalls
<1>4. /\ DOMAIN security' = DOMAIN security /\ security'.sessions = security.sessions
      /\ call.left => security'.saving = security.saving
      /\ ~call.left /\ call.op = "password" => security'.saving = reloads
      /\ call.op # "password" => security'.saving = security.saving
    BY <1>3 DEF SettingsInv, SettingsForms
<1>5. SettingsForms' /\ DialogPlaced' /\ GuideKept'
    BY <1>3, <1>4 DEF SettingsInv, SettingsForms, DialogPlaced, GuideKept
<1>6. call.op \notin BindingWriters /\ connection'.binding = connection.binding /\ bindingSure' = bindingSure
    BY <1>3 DEF BindingWriters
<1>7. sessionsSure' => sessionsSure /\ ~call.left /\ Succeeds(call)
    BY <1>1, <1>3, SureIsForThePage DEF SessionWriters
<1>8. CASE ~reloads
    <2>1. settingsCalls' = End(settingsCalls, s)
        BY <1>3, <1>8
    <2>2. ~sessionsSure'
        BY <1>2, <1>7, <1>8 DEF Reloads
    <2>3. Lowers(call, {"password"}, "sessions", security.saving, security'.saving)
        <3>1. CASE ~call.left /\ call.op = "password"
            <4>1. ~security'.saving
                BY <1>4, <1>8, <3>1
            <4> QED BY <3>1, <4>1 DEF Lowers, HoldsLock
        <3>2. CASE call.left \/ call.op # "password"
            <4>1. security'.saving = security.saving
                BY <1>4, <3>2
            <4>2. ~HoldsLock(call, {"password"}, "sessions")
                BY <1>3, <3>2 DEF HoldsLock
            <4> QED BY <4>1, <4>2 DEF Lowers
        <3> QED BY <3>1, <3>2
    <2>4. /\ Lowers(call, ConnectionOps, "binding", connection.pending, connection'.pending)
          /\ Lowers(call, {"browser"}, "browser", alerting, alerting')
          /\ Lowers(call, {"quiet"}, "quiet", quietSaving, quietSaving')
        <3>1. /\ connection'.pending = connection.pending /\ alerting' = alerting /\ quietSaving' = quietSaving
              /\ call.op \in {"password", "others"}
            BY <1>3
        <3>2. /\ ~HoldsLock(call, ConnectionOps, "binding") /\ ~HoldsLock(call, {"browser"}, "browser")
              /\ ~HoldsLock(call, {"quiet"}, "quiet")
            BY <3>1 DEF HoldsLock, ConnectionOps
        <3> QED BY <3>1, <3>2 DEF Lowers
    <2>5. UNCHANGED stored
        BY <1>3
    <2> QED BY <1>1, <1>5, <1>6, <2>1, <2>2, <2>3, <2>4, <2>5, SettingsEnded
<1>9. CASE reloads
    <2>0. ~call.left
        BY <1>2, <1>9
    <2>1. PICK middle : middle = End(settingsCalls, s)
        OBVIOUS
    <2>2. PICK follows : follows = (call.op = "password")
        OBVIOUS
    <2>3. PICK again : again = [op |-> "sessions", left |-> FALSE, after |-> follows]
        OBVIOUS
    <2>4. PICK after : after = settingsCalls'
        OBVIOUS
    <2>5. after = Post(middle, again, SessionWriters)
        BY <1>3, <1>9, <2>1, <2>2, <2>3, <2>4
    <2>6. /\ again.op = "sessions" /\ again.after = follows /\ ~again.left
          /\ DOMAIN again = {"op", "after", "left"}
        BY <2>3
    <2>7. /\ Shaped(settingsCalls, SettingsFields) /\ DOMAIN settingsCalls = Slots
          /\ LocksFit(settingsCalls, connection.pending, security.saving, alerting, quietSaving)
        BY DEF SettingsInv, SettingsLocks, LocksFit, Shaped
    <2>8. PICK freed : freed = IF follows THEN FALSE ELSE security.saving
        OBVIOUS
    <2>9. /\ Lowers(call, ConnectionOps, "binding", connection.pending, connection'.pending)
          /\ Lowers(call, {"password"}, "sessions", security.saving, freed)
          /\ Lowers(call, {"browser"}, "browser", alerting, alerting')
          /\ Lowers(call, {"quiet"}, "quiet", quietSaving, quietSaving')
        BY <1>3, <2>0, <2>2, <2>8 DEF Lowers, HoldsLock, ConnectionOps
    <2>10. LocksFit(middle, connection'.pending, freed, alerting', quietSaving')
        BY <1>1, <2>1, <2>7, <2>9, LocksEnded
    <2>11. Free(middle) # {}
        BY <2>1, <2>7, EndFrees
    <2>12. /\ Raises(again, ConnectionOps, "binding", connection'.pending, connection'.pending)
           /\ Raises(again, {"password"}, "sessions", freed, security'.saving)
           /\ Raises(again, {"browser"}, "browser", alerting', alerting')
           /\ Raises(again, {"quiet"}, "quiet", quietSaving', quietSaving')
        BY <1>3, <1>4, <1>9, <2>0, <2>2, <2>6, <2>8 DEF Raises, HoldsLock, ConnectionOps
    <2>13. /\ IsPosted(middle, again, SessionWriters, after)
           /\ LocksFit(after, connection'.pending, security'.saving, alerting', quietSaving')
        BY <2>5, <2>6, <2>10, <2>11, <2>12, LocksPosted
    <2>14. Known(after, SessionWriters, "sessions", DevicesOf(stored.others), security'.sessions, sessionsSure')
        <3>1. "sessions" \in SessionWriters /\ "idle" \notin SessionWriters
            BY DEF SessionWriters
        <3>2. Known(settingsCalls, SessionWriters, "sessions", DevicesOf(stored.others), security.sessions,
                    sessionsSure)
            BY DEF SettingsInv, SessionsKnown
        <3>3. sessionsSure' => sessionsSure
            BY <1>3
        <3> QED BY <2>1, <2>6, <2>7, <2>13, <3>1, <3>2, <3>3, KnownReadAgain
    <2>15. Known(middle, BindingWriters, "binding", stored.bound, connection.binding, bindingSure)
        <3>1. "binding" \in BindingWriters /\ "idle" \notin BindingWriters
            BY DEF BindingWriters
        <3> QED BY <1>1, <1>6, <2>1, <2>7, <3>1, KnownEnded DEF SettingsInv, BindingKnown
    <2>16. CrossesItsKind(again.op, SessionWriters)
        BY <2>6 DEF CrossesItsKind, BindingWriters, SessionWriters
    <2>17. Shaped(middle, SettingsFields)
        BY <2>10 DEF LocksFit
    <2>18. Known(after, BindingWriters, "binding", stored.bound, connection.binding, bindingSure)
        BY <2>6, <2>13, <2>15, <2>16, <2>17, BindingPosted
    <2>19. SettingsLocks' /\ BindingKnown' /\ SessionsKnown'
        BY <1>3, <1>6, <2>4, <2>13, <2>14, <2>18 DEF SettingsLocks, BindingKnown, SessionsKnown, BindingWriters,
                                                     SessionWriters
    <2> QED BY <1>5, <2>19 DEF SettingsInv
<1> QED BY <1>8, <1>9

\* The tab changes: what its panel waited for is for nobody.
LEMMA SettingsOpenTab ==
    ASSUME SettingsInv, NEW next, OpenTab(next)
    PROVE  SettingsInv'
<1>1. /\ UNCHANGED <<stored, guide, prompts>>
      /\ connection' = FreshConnection /\ security' = FreshSecurity /\ alerting' = FALSE /\ quietSaving' = FALSE
      /\ bindingSure' = FALSE /\ sessionsSure' = FALSE
    BY DEF OpenTab, reading
<1>2. PICK after : after = settingsCalls'
    OBVIOUS
<1>3. DOMAIN settingsCalls = Slots
    BY DEF SettingsInv, SettingsLocks, LocksFit, Shaped
<1>4. /\ DOMAIN after = Slots
      /\ \A t \in Slots : after[t] = IF settingsCalls[t].op \in {"idle", "ack"} THEN settingsCalls[t]
                                     ELSE [settingsCalls[t] EXCEPT !.left = TRUE]
    BY <1>2 DEF OpenTab, LeavePanel
<1>5. ASSUME NEW t \in Slots
      PROVE  /\ IsCall(after[t], SettingsFields) /\ after[t].op = settingsCalls[t].op
             /\ after[t].op \in {"idle", "ack"} \/ after[t].left
             /\ after[t].op # "idle" => after[t].alone = settingsCalls[t].alone /\ after[t].answer = settingsCalls[t].answer
    <2>1. PICK call : call = settingsCalls[t]
        OBVIOUS
    <2>2. IsCall(call, SettingsFields)
        BY <2>1 DEF SettingsInv, SettingsLocks, LocksFit, Shaped
    <2>3. CASE call.op \in {"idle", "ack"}
        BY <1>4, <2>1, <2>2, <2>3
    <2>4. CASE call.op \notin {"idle", "ack"}
        <3>1. after[t] = [call EXCEPT !.left = TRUE]
            BY <1>4, <2>1, <2>4
        <3>2. "op" \in DOMAIN call /\ {"answer", "left", "after", "alone"} \subseteq DOMAIN call
            BY <2>2, <2>4 DEF IsCall, SettingsFields
        <3>3. /\ DOMAIN after[t] = DOMAIN call /\ after[t].left = TRUE /\ after[t].op = call.op
              /\ after[t].alone = call.alone /\ after[t].answer = call.answer
            BY <3>1, <3>2
        <3>4. IsCall(after[t], SettingsFields)
            BY <3>2, <3>3 DEF IsCall, SettingsFields
        <3> QED BY <2>1, <3>3, <3>4
    <2> QED BY <2>3, <2>4
<1>6. Shaped(after, SettingsFields)
    BY <1>4, <1>5 DEF Shaped
<1>7. LocksFit(after, connection'.pending, security'.saving, alerting', quietSaving')
    <2>1. /\ Holders(after, ConnectionOps, "binding") = {} /\ Holders(after, {"password"}, "sessions") = {}
          /\ Holders(after, {"browser"}, "browser") = {} /\ Holders(after, {"quiet"}, "quiet") = {}
        BY <1>5 DEF Holders, HoldsLock, ConnectionOps
    <2>2. ~connection'.pending /\ ~security'.saving /\ ~alerting' /\ ~quietSaving'
        BY <1>1 DEF FreshConnection, FreshSecurity
    <2>3. /\ Held(Holders(after, ConnectionOps, "binding"), connection'.pending)
          /\ Held(Holders(after, {"password"}, "sessions"), security'.saving)
          /\ Held(Holders(after, {"browser"}, "browser"), alerting')
          /\ Held(Holders(after, {"quiet"}, "quiet"), quietSaving')
        BY <2>1, <2>2 DEF Held
    <2> QED BY <1>6, <2>3 DEF LocksFit
<1>8. /\ "binding" \in BindingWriters /\ "idle" \notin BindingWriters
      /\ "sessions" \in SessionWriters /\ "idle" \notin SessionWriters
    BY DEF BindingWriters, SessionWriters
<1>9. Known(after, BindingWriters, "binding", stored.bound, connection'.binding, bindingSure')
    BY <1>1, <1>5, <1>8, KnownLeft DEF SettingsInv, BindingKnown
<1>10. Known(after, SessionWriters, "sessions", DevicesOf(stored.others), security'.sessions, sessionsSure')
    BY <1>1, <1>5, <1>8, KnownLeft DEF SettingsInv, SessionsKnown
<1>11. SettingsLocks' /\ BindingKnown' /\ SessionsKnown'
    BY <1>1, <1>2, <1>7, <1>9, <1>10 DEF SettingsLocks, BindingKnown, SessionsKnown, BindingWriters, SessionWriters
<1>12. SettingsForms' /\ DialogPlaced' /\ GuideKept'
    BY <1>1 DEF SettingsInv, SettingsForms, DialogPlaced, GuideKept, FreshConnection, FreshSecurity
<1> QED BY <1>11, <1>12 DEF SettingsInv

\* The account is bound in the dialog.
LEMMA SettingsScanBinds ==
    ASSUME SettingsInv, ScanBinds
    PROVE  SettingsInv'
<1>1. /\ UNCHANGED <<tab, connection, security, alerting, quietSaving, guide, prompts, sessionsSure>>
      /\ stored' = [stored EXCEPT !.bound = TRUE] /\ bindingSure' = FALSE
    BY DEF ScanBinds, panels, reading
<1>2. DOMAIN stored' = DOMAIN stored /\ stored'.others = stored.others
    BY <1>1 DEF SettingsInv, SettingsForms
<1>3. PICK after : after = settingsCalls'
    OBVIOUS
<1>4. after = Crossed(settingsCalls, BindingWriters)
    BY <1>3 DEF ScanBinds
<1>5. Shaped(settingsCalls, {"left", "alone"})
    BY SettingsMarked DEF SettingsInv, SettingsLocks, LocksFit
<1>6. LocksFit(after, connection.pending, security.saving, alerting, quietSaving)
    BY <1>4, LocksCrossed DEF SettingsInv, SettingsLocks
<1>7. /\ "binding" \in BindingWriters /\ "idle" \notin BindingWriters
      /\ "sessions" \in SessionWriters /\ "idle" \notin SessionWriters /\ BindingWriters \cap SessionWriters = {}
    BY DEF BindingWriters, SessionWriters
<1>8. Known(after, BindingWriters, "binding", stored'.bound, connection.binding, bindingSure')
    <2>1. ~bindingSure'
        BY <1>1
    <2>2. Known(settingsCalls, BindingWriters, "binding", stored.bound, connection.binding, bindingSure)
        BY DEF SettingsInv, BindingKnown
    <2>3. PICK then : then = stored'.bound
        OBVIOUS
    <2>4. Known(after, BindingWriters, "binding", then, connection.binding, bindingSure')
        BY <1>4, <1>5, <1>7, <2>1, <2>2, KnownCrossed
    <2> QED BY <2>3, <2>4
<1>9. Known(after, SessionWriters, "sessions", DevicesOf(stored'.others), security.sessions, sessionsSure)
    BY <1>2, <1>4, <1>5, <1>7, KnownCrossed DEF SettingsInv, SessionsKnown
<1>10. SettingsLocks' /\ BindingKnown' /\ SessionsKnown'
    BY <1>1, <1>3, <1>6, <1>8, <1>9 DEF SettingsLocks, BindingKnown, SessionsKnown, BindingWriters, SessionWriters
<1>11. SettingsForms' /\ DialogPlaced' /\ GuideKept'
    BY <1>1, <1>2 DEF SettingsInv, SettingsForms, DialogPlaced, GuideKept
<1> QED BY <1>10, <1>11 DEF SettingsInv

\* The backend answers, or the answer is lost.
LEMMA SettingsTold ==
    ASSUME SettingsInv, NEW s \in Slots, settingsCalls[s].op # "idle", NEW answer,
           settingsCalls' = [settingsCalls EXCEPT ![s].answer = answer],
           UNCHANGED <<tab, connection, security, alerting, quietSaving, guide, prompts, bindingSure, sessionsSure>>,
           {"bound", "others"} \subseteq DOMAIN stored',
           stored'.bound = stored.bound \/ settingsCalls[s].op = "unlink",
           stored'.others = stored.others \/ settingsCalls[s].op \in {"password", "others"},
           settingsCalls[s].op = "binding" /\ answer.kind = "ok" => answer.body = stored'.bound,
           settingsCalls[s].op = "sessions" /\ answer.kind = "ok" => answer.body = DevicesOf(stored'.others)
    PROVE  SettingsInv'
<1>1. PICK after : after = settingsCalls'
    OBVIOUS
<1>2. LocksFit(after, connection.pending, security.saving, alerting, quietSaving)
    BY <1>1, LocksTold DEF SettingsInv, SettingsLocks
<1>3. Shaped(settingsCalls, {"left", "alone"})
    BY SettingsMarked DEF SettingsInv, SettingsLocks, LocksFit
<1>4. Known(after, BindingWriters, "binding", stored'.bound, connection.binding, bindingSure)
    <2>1. "binding" \in BindingWriters /\ "idle" \notin BindingWriters
        BY DEF BindingWriters
    <2>2. stored'.bound = stored.bound \/ settingsCalls[s].op \in BindingWriters \ {"binding"}
        BY DEF BindingWriters
    <2>3. Known(settingsCalls, BindingWriters, "binding", stored.bound, connection.binding, bindingSure)
        BY DEF SettingsInv, BindingKnown
    <2>4. PICK then : then = stored'.bound
        OBVIOUS
    <2>5. PICK value : value = stored.bound
        OBVIOUS
    <2>6. /\ IsTold(settingsCalls, s, answer, after)
          /\ then = value \/ settingsCalls[s].op \in BindingWriters \ {"binding"}
          /\ settingsCalls[s].op = "binding" /\ answer.kind = "ok" => answer.body = then
          /\ Known(settingsCalls, BindingWriters, "binding", value, connection.binding, bindingSure)
        BY <1>1, <2>2, <2>3, <2>4, <2>5 DEF IsTold
    <2>7. PICK load : load = "binding"
        OBVIOUS
    <2>8. Known(after, BindingWriters, load, then, connection.binding, bindingSure)
        <3>1. /\ load \in BindingWriters
              /\ then = value \/ settingsCalls[s].op \in BindingWriters \ {load}
              /\ settingsCalls[s].op = load /\ answer.kind = "ok" => answer.body = then
              /\ Known(settingsCalls, BindingWriters, load, value, connection.binding, bindingSure)
            BY <2>1, <2>6, <2>7
        <3> QED BY <1>3, <2>1, <2>6, <3>1, KnownTold
    <2> QED BY <2>4, <2>7, <2>8
<1>5. Known(after, SessionWriters, "sessions", DevicesOf(stored'.others), security.sessions, sessionsSure)
    <2>1. "sessions" \in SessionWriters /\ "idle" \notin SessionWriters
        BY DEF SessionWriters
    <2>2. DevicesOf(stored'.others) = DevicesOf(stored.others)
             \/ settingsCalls[s].op \in SessionWriters \ {"sessions"}
        BY DEF SessionWriters
    <2>3. Known(settingsCalls, SessionWriters, "sessions", DevicesOf(stored.others), security.sessions, sessionsSure)
        BY DEF SettingsInv, SessionsKnown
    <2>4. PICK then : then = DevicesOf(stored'.others)
        OBVIOUS
    <2>5. PICK value : value = DevicesOf(stored.others)
        OBVIOUS
    <2>6. /\ IsTold(settingsCalls, s, answer, after)
          /\ then = value \/ settingsCalls[s].op \in SessionWriters \ {"sessions"}
          /\ settingsCalls[s].op = "sessions" /\ answer.kind = "ok" => answer.body = then
          /\ Known(settingsCalls, SessionWriters, "sessions", value, security.sessions, sessionsSure)
        BY <1>1, <2>2, <2>3, <2>4, <2>5 DEF IsTold
    <2>7. PICK load : load = "sessions"
        OBVIOUS
    <2>8. Known(after, SessionWriters, load, then, security.sessions, sessionsSure)
        <3>1. /\ load \in SessionWriters
              /\ then = value \/ settingsCalls[s].op \in SessionWriters \ {load}
              /\ settingsCalls[s].op = load /\ answer.kind = "ok" => answer.body = then
              /\ Known(settingsCalls, SessionWriters, load, value, security.sessions, sessionsSure)
            BY <2>1, <2>6, <2>7
        <3> QED BY <1>3, <2>1, <2>6, <3>1, KnownTold
    <2> QED BY <2>4, <2>7, <2>8
<1>6. SettingsLocks' /\ BindingKnown' /\ SessionsKnown'
    BY <1>1, <1>2, <1>4, <1>5 DEF SettingsLocks, BindingKnown, SessionsKnown, BindingWriters, SessionWriters
<1>7. SettingsForms' /\ DialogPlaced' /\ GuideKept'
    BY DEF SettingsInv, SettingsForms, DialogPlaced, GuideKept
<1> QED BY <1>6, <1>7 DEF SettingsInv

\* What the backend stores keeps the rest of the user's row.
LEMMA StoredWith ==
    ASSUME SettingsForms, NEW values, stored' = With(values, stored)
    PROVE  /\ {"bound", "others"} \subseteq DOMAIN stored'
           /\ "bound" \notin DOMAIN values => stored'.bound = stored.bound
           /\ "others" \notin DOMAIN values => stored'.others = stored.others
<1>1. /\ DOMAIN stored' = DOMAIN values \cup DOMAIN stored
      /\ \A f \in DOMAIN stored \ DOMAIN values : stored'[f] = stored[f]
    BY DEF With
<1> QED BY <1>1 DEF SettingsForms

\* The backend answers.
LEMMA SettingsServe ==
    ASSUME SettingsInv, NEW s \in Slots, ServeSettings(s)
    PROVE  SettingsInv'
<1>1. PICK call : call = settingsCalls[s]
    OBVIOUS
<1>2. PICK answer :
          /\ settingsCalls' = [settingsCalls EXCEPT ![s].answer = answer]
          /\ UNCHANGED <<tab, connection, security, alerting, quietSaving, guide, prompts, bindingSure, sessionsSure>>
          /\ call.op # "idle" /\ {"bound", "others"} \subseteq DOMAIN stored'
          /\ stored'.bound = stored.bound \/ call.op = "unlink"
          /\ stored'.others = stored.others \/ call.op \in {"password", "others"}
          /\ call.op = "binding" /\ answer.kind = "ok" => answer.body = stored'.bound
          /\ call.op = "sessions" /\ answer.kind = "ok" => answer.body = DevicesOf(stored'.others)
    <2>1. ASSUME NEW body, UNCHANGED stored, AnswerSettings(s, Ok(body)), call.op # "idle",
                 call.op = "binding" => body = stored.bound,
                 call.op = "sessions" => body = DevicesOf(stored.others)
          PROVE  \E answer :
                    /\ settingsCalls' = [settingsCalls EXCEPT ![s].answer = answer]
                    /\ UNCHANGED <<tab, connection, security, alerting, quietSaving, guide, prompts, bindingSure, sessionsSure>>
                    /\ call.op # "idle" /\ {"bound", "others"} \subseteq DOMAIN stored'
                    /\ stored'.bound = stored.bound \/ call.op = "unlink"
                    /\ stored'.others = stored.others \/ call.op \in {"password", "others"}
                    /\ call.op = "binding" /\ answer.kind = "ok" => answer.body = stored'.bound
                    /\ call.op = "sessions" /\ answer.kind = "ok" => answer.body = DevicesOf(stored'.others)
        <3>1. PICK answer : answer = Ok(body)
            OBVIOUS
        <3>2. answer.body = body
            BY <3>1 DEF Ok
        <3>3. /\ settingsCalls' = [settingsCalls EXCEPT ![s].answer = answer]
              /\ UNCHANGED <<tab, connection, security, alerting, quietSaving, guide, prompts, bindingSure, sessionsSure>>
            BY <2>1, <3>1 DEF AnswerSettings, panels, reading, sure
        <3>4. {"bound", "others"} \subseteq DOMAIN stored'
            BY <2>1 DEF SettingsInv, SettingsForms
        <3> QED BY <2>1, <3>2, <3>3, <3>4
    <2>2. ASSUME NEW values, NEW body, stored' = With(values, stored), AnswerSettings(s, Ok(body)),
                 call.op \notin {"idle", "binding", "sessions"},
                 "bound" \in DOMAIN values => call.op = "unlink",
                 "others" \in DOMAIN values => call.op \in {"password", "others"}
          PROVE  \E answer :
                    /\ settingsCalls' = [settingsCalls EXCEPT ![s].answer = answer]
                    /\ UNCHANGED <<tab, connection, security, alerting, quietSaving, guide, prompts, bindingSure, sessionsSure>>
                    /\ call.op # "idle" /\ {"bound", "others"} \subseteq DOMAIN stored'
                    /\ stored'.bound = stored.bound \/ call.op = "unlink"
                    /\ stored'.others = stored.others \/ call.op \in {"password", "others"}
                    /\ call.op = "binding" /\ answer.kind = "ok" => answer.body = stored'.bound
                    /\ call.op = "sessions" /\ answer.kind = "ok" => answer.body = DevicesOf(stored'.others)
        <3>1. PICK answer : answer = Ok(body)
            OBVIOUS
        <3>3. /\ settingsCalls' = [settingsCalls EXCEPT ![s].answer = answer]
              /\ UNCHANGED <<tab, connection, security, alerting, quietSaving, guide, prompts, bindingSure, sessionsSure>>
            BY <2>2, <3>1 DEF AnswerSettings, panels, reading, sure
        <3>4. /\ {"bound", "others"} \subseteq DOMAIN stored'
              /\ "bound" \notin DOMAIN values => stored'.bound = stored.bound
              /\ "others" \notin DOMAIN values => stored'.others = stored.others
            BY <2>2, StoredWith DEF SettingsInv
        <3> QED BY <2>2, <3>3, <3>4
    <2>3. CASE call.op = "binding" /\ UNCHANGED stored /\ AnswerSettings(s, Ok(stored.bound))
        BY <2>1, <2>3
    <2>4. CASE call.op = "sessions" /\ UNCHANGED stored
                  /\ AnswerSettings(s, Ok(IF stored.others THEN "several" ELSE "one"))
        <3>1. AnswerSettings(s, Ok(DevicesOf(stored.others)))
            BY <2>4 DEF DevicesOf
        <3> QED BY <2>1, <2>4, <3>1
    <2>5. CASE call.op \in {"sync", "cookie"} /\ UNCHANGED stored /\ AnswerSettings(s, Ok(None))
        BY <2>1, <2>5
    <2>6. CASE call.op = "unlink" /\ stored' = With([bound |-> FALSE], stored) /\ AnswerSettings(s, Ok(None))
        <3>1. PICK values : values = [bound |-> FALSE]
            OBVIOUS
        <3>2. DOMAIN values = {"bound"}
            BY <3>1
        <3>3. stored' = With(values, stored)
            BY <2>6, <3>1
        <3> QED BY <2>2, <2>6, <3>2, <3>3
    <2>7. CASE call.op = "password" /\ stored' = With([others |-> FALSE], stored)
                  /\ AnswerSettings(s, Ok(stored.acked))
        <3>1. PICK values : values = [others |-> FALSE]
            OBVIOUS
        <3>2. DOMAIN values = {"others"}
            BY <3>1
        <3>3. stored' = With(values, stored)
            BY <2>7, <3>1
        <3> QED BY <2>2, <2>7, <3>2, <3>3
    <2>8. CASE call.op = "others" /\ stored' = With([others |-> FALSE], stored) /\ AnswerSettings(s, Ok(None))
        <3>1. PICK values : values = [others |-> FALSE]
            OBVIOUS
        <3>2. DOMAIN values = {"others"}
            BY <3>1
        <3>3. stored' = With(values, stored)
            BY <2>8, <3>1
        <3> QED BY <2>2, <2>8, <3>2, <3>3
    <2>9. CASE call.op = "ack" /\ stored' = With([acked |-> TRUE], stored) /\ AnswerSettings(s, Ok(TRUE))
        <3>1. PICK values : values = [acked |-> TRUE]
            OBVIOUS
        <3>2. DOMAIN values = {"acked"}
            BY <3>1
        <3>3. stored' = With(values, stored)
            BY <2>9, <3>1
        <3>4. PICK body : body = TRUE
            OBVIOUS
        <3>5. AnswerSettings(s, Ok(body))
            BY <2>9, <3>4
        <3> QED BY <2>2, <2>9, <3>2, <3>3, <3>5
    <2>10. CASE call.op = "browser" /\ stored' = With([browser |-> call.value], stored)
                  /\ AnswerSettings(s, Ok(Preferences([stored EXCEPT !.browser = call.value])))
        <3>1. PICK values : values = [browser |-> call.value]
            OBVIOUS
        <3>2. DOMAIN values = {"browser"}
            BY <3>1
        <3>3. stored' = With(values, stored)
            BY <2>10, <3>1
        <3>4. PICK body : body = Preferences([stored EXCEPT !.browser = call.value])
            OBVIOUS
        <3>5. AnswerSettings(s, Ok(body))
            BY <2>10, <3>4
        <3> QED BY <2>2, <2>10, <3>2, <3>3, <3>5
    <2>11. CASE call.op = "quiet" /\ stored' = With([quiet |-> call.value], stored)
                  /\ AnswerSettings(s, Ok(Preferences([stored EXCEPT !.quiet = call.value])))
        <3>1. PICK values : values = [quiet |-> call.value]
            OBVIOUS
        <3>2. DOMAIN values = {"quiet"}
            BY <3>1
        <3>3. stored' = With(values, stored)
            BY <2>11, <3>1
        <3>4. PICK body : body = Preferences([stored EXCEPT !.quiet = call.value])
            OBVIOUS
        <3>5. AnswerSettings(s, Ok(body))
            BY <2>11, <3>4
        <3> QED BY <2>2, <2>11, <3>2, <3>3, <3>5
    <2> QED BY <1>1, <2>3, <2>4, <2>5, <2>6, <2>7, <2>8, <2>9, <2>10, <2>11 DEF ServeSettings
<1> QED BY <1>1, <1>2, SettingsTold

\* An answer that tells nothing.
LEMMA SettingsUntold ==
    ASSUME SettingsInv, NEW s \in Slots, RefuseSettings(s) \/ LoseSettingsAnswer(s)
    PROVE  SettingsInv'
<1>1. PICK answer :
          /\ settingsCalls' = [settingsCalls EXCEPT ![s].answer = answer]
          /\ answer.kind # "ok"
          /\ UNCHANGED <<stored, tab, connection, security, alerting, quietSaving, guide, prompts, bindingSure, sessionsSure>>
          /\ settingsCalls[s].op # "idle"
    <2>1. CASE RefuseSettings(s)
        <3>1. PICK answer : answer = Refused("refused")
            OBVIOUS
        <3>2. answer.kind # "ok"
            BY <3>1 DEF Refused
        <3>3. settingsCalls' = [settingsCalls EXCEPT ![s].answer = answer]
            BY <2>1, <3>1 DEF RefuseSettings, AnswerSettings
        <3>4. /\ UNCHANGED <<stored, tab, connection, security, alerting, quietSaving, guide, prompts, bindingSure, sessionsSure>>
              /\ settingsCalls[s].op # "idle"
            BY <2>1 DEF RefuseSettings, AnswerSettings, panels, reading, sure, Busy
        <3> QED BY <3>2, <3>3, <3>4
    <2>2. CASE LoseSettingsAnswer(s)
        <3>1. Lost.kind # "ok"
            BY DEF Lost
        <3>2. settingsCalls' = [settingsCalls EXCEPT ![s].answer = Lost]
            BY <2>2 DEF LoseSettingsAnswer, LoseAnswer
        <3>3. /\ UNCHANGED <<stored, tab, connection, security, alerting, quietSaving, guide, prompts, bindingSure, sessionsSure>>
              /\ settingsCalls[s].op # "idle"
            BY <2>2 DEF LoseSettingsAnswer, panels, reading, sure, Busy
        <3> QED BY <3>1, <3>2, <3>3
    <2> QED BY <2>1, <2>2
<1>2. {"bound", "others"} \subseteq DOMAIN stored' /\ stored' = stored
    BY <1>1 DEF SettingsInv, SettingsForms
<1> QED BY <1>1, <1>2, SettingsTold

\* SettingsInv holds of settings that were just opened, and every step keeps it.
LEMMA SettingsStart ==
    ASSUME SettingsInit
    PROVE  SettingsInv
<1>1. \A s \in Slots : settingsCalls[s].op = "idle" /\ DOMAIN settingsCalls[s] = {"op"}
    BY DEF SettingsInit, NoCalls, NoCall
<1>2. Shaped(settingsCalls, SettingsFields)
    BY <1>1 DEF SettingsInit, NoCalls, Shaped, IsCall
<1>3. LocksFit(settingsCalls, connection.pending, security.saving, alerting, quietSaving)
    <2>1. /\ Holders(settingsCalls, ConnectionOps, "binding") = {}
          /\ Holders(settingsCalls, {"password"}, "sessions") = {}
          /\ Holders(settingsCalls, {"browser"}, "browser") = {} /\ Holders(settingsCalls, {"quiet"}, "quiet") = {}
        BY <1>1 DEF Holders, HoldsLock, ConnectionOps
    <2>2. ~connection.pending /\ ~security.saving /\ ~alerting /\ ~quietSaving
        BY DEF SettingsInit, FreshConnection, FreshSecurity
    <2>3. /\ Held(Holders(settingsCalls, ConnectionOps, "binding"), connection.pending)
          /\ Held(Holders(settingsCalls, {"password"}, "sessions"), security.saving)
          /\ Held(Holders(settingsCalls, {"browser"}, "browser"), alerting)
          /\ Held(Holders(settingsCalls, {"quiet"}, "quiet"), quietSaving)
        BY <2>1, <2>2 DEF Held
    <2> QED BY <1>2, <2>3 DEF LocksFit
<1>4. BindingKnown /\ SessionsKnown
    BY <1>1 DEF SettingsInit, BindingKnown, SessionsKnown, Known, BindingWriters, SessionWriters
<1>5. SettingsForms
    <2>1. {"bound", "others"} \subseteq DOMAIN stored
        BY DEF SettingsInit
    <2>2. DOMAIN connection = {"binding", "failed", "loading", "pending", "dialog"} /\ DOMAIN security = {"sessions", "saving"}
        BY DEF SettingsInit, FreshConnection, FreshSecurity
    <2>3. DOMAIN guide = {"open", "required", "reachedEnd", "saving", "prompted"}
        BY DEF SettingsInit
    <2> QED BY <2>1, <2>2, <2>3 DEF SettingsForms
<1>6. DialogPlaced
    BY DEF SettingsInit, DialogPlaced
<1>7. GuideKept
    BY DEF SettingsInit, GuideKept
<1> QED BY <1>3, <1>4, <1>5, <1>6, <1>7 DEF SettingsInv, SettingsLocks

LEMMA SettingsStep ==
    ASSUME SettingsInv, [SettingsNext]_settingsVars
    PROVE  SettingsInv'
<1>1. CASE UNCHANGED settingsVars
    BY <1>1 DEF settingsVars, SettingsInv, SettingsForms, SettingsLocks, BindingKnown, SessionsKnown, DialogPlaced,
                GuideKept, BindingWriters, SessionWriters
<1>2. CASE AskBinding
    BY <1>2, SettingsAskBinding
<1>3. CASE ScanBinds
    BY <1>3, SettingsScanBinds
<1>4. CASE CloseConnectionDialog \/ RevokePermission
    BY <1>4, SettingsShown
<1>5. CASE AskSessions
    BY <1>5, SettingsAskSessions
<1>6. CASE PromptGuide \/ OpenReference \/ ReachEnd \/ DismissGuide
    BY <1>6, SettingsGuide
<1>7. CASE AcknowledgeGuide
    BY <1>7, SettingsAcknowledge
<1>8. CASE \E value \in BOOLEAN : SaveQuietHours(value)
    BY <1>8, SettingsSaveQuiet
<1>9. CASE \E next \in {"connection", "notifications", "security"} : OpenTab(next)
    BY <1>9, SettingsOpenTab
<1>10. CASE \E which \in {"scan", "cookie", "unlink"} : OpenConnectionDialog(which)
    BY <1>10, SettingsShown
<1>11. CASE \E op \in {"sync", "cookie", "unlink"} : ChangeConnection(op)
    BY <1>11, SettingsChangeConnection DEF ConnectionOps
<1>12. CASE \E op \in {"password", "others"} : ChangeSessions(op)
    BY <1>12, SettingsChangeSessions
<1>13. CASE \E choice \in {"granted", "denied"} : ToggleAlerts(choice)
    BY <1>13, SettingsToggleAlerts
<1>14. ASSUME NEW s \in Slots,
              \/ LandBindingState(s) \/ LandSessions(s) \/ (\E read \in BOOLEAN : LandConnection(s, read))
              \/ LandSessionChange(s) \/ LandPreference(s) \/ LandAck(s)
              \/ ServeSettings(s) \/ RefuseSettings(s) \/ LoseSettingsAnswer(s)
       PROVE  SettingsInv'
    BY <1>14, SettingsLandBinding, SettingsLandSessions, SettingsLandConnection, SettingsLandSessionChange,
       SettingsLandPreference, SettingsLandAck, SettingsServe, SettingsUntold
<1> QED BY <1>1, <1>2, <1>3, <1>4, <1>5, <1>6, <1>7, <1>8, <1>9, <1>10, <1>11, <1>12, <1>13, <1>14 DEF SettingsNext

\* What the invariant says of what the page shows.
LEMMA SettingsShow ==
    ASSUME SettingsInv
    PROVE  SettingsLocksAreLive /\ BindingIsCurrent /\ SessionsAreCurrent /\ GuideIsRead
<1>1. LocksFit(settingsCalls, connection.pending, security.saving, alerting, quietSaving)
    BY DEF SettingsInv, SettingsLocks
<1>2. ASSUME NEW S, NEW flag, Held(S, flag)
      PROVE  Cardinality(S) = IF flag THEN 1 ELSE 0
    <2>1. CASE flag
        <3>1. PICK s : s \in S
            BY <1>2, <2>1 DEF Held
        <3>2. S = {s}
            BY <1>2, <3>1 DEF Held
        <3>3. Cardinality(S) = 1
            BY <3>2, FS_Singleton, Zenon
        <3> QED BY <2>1, <3>3
    <2>2. CASE ~flag
        <3>1. S = {}
            BY <1>2, <2>2 DEF Held
        <3>2. Cardinality(S) = 0
            BY <3>1, FS_EmptySet, Zenon
        <3> QED BY <2>2, <3>2
    <2> QED BY <2>1, <2>2
<1>3. SettingsLocksAreLive
    <2>1. Cardinality(Holders(settingsCalls, ConnectionOps, "binding")) = IF connection.pending THEN 1 ELSE 0
        BY <1>1, <1>2 DEF LocksFit
    <2>2. Cardinality(Holders(settingsCalls, {"password"}, "sessions")) = IF security.saving THEN 1 ELSE 0
        BY <1>1, <1>2 DEF LocksFit
    <2>3. Cardinality(Holders(settingsCalls, {"browser"}, "browser")) = IF alerting THEN 1 ELSE 0
        BY <1>1, <1>2 DEF LocksFit
    <2>4. Cardinality(Holders(settingsCalls, {"quiet"}, "quiet")) = IF quietSaving THEN 1 ELSE 0
        BY <1>1, <1>2 DEF LocksFit
    <2>5. Waits({"sync", "cookie", "unlink"}) \cup {s \in Waits({"binding"}) : settingsCalls[s].after}
              = Holders(settingsCalls, ConnectionOps, "binding")
        BY DEF Waits, Waiting, Holders, HoldsLock, ConnectionOps
    <2>6. Waits({"password"}) \cup {s \in Waits({"sessions"}) : settingsCalls[s].after}
              = Holders(settingsCalls, {"password"}, "sessions")
        BY DEF Waits, Waiting, Holders, HoldsLock
    <2>7. /\ Waits({"browser"}) = Holders(settingsCalls, {"browser"}, "browser")
          /\ Waits({"quiet"}) = Holders(settingsCalls, {"quiet"}, "quiet")
        BY DEF Waits, Waiting, Holders, HoldsLock
    <2>8. connection.dialog = None \/ tab = "connection"
        BY DEF SettingsInv, DialogPlaced
    <2> QED BY <2>1, <2>2, <2>3, <2>4, <2>5, <2>6, <2>7, <2>8 DEF SettingsLocksAreLive
<1>4. BindingIsCurrent
    BY DEF SettingsInv, BindingKnown, Known, BindingIsCurrent, Waits, Waiting
<1>5. SessionsAreCurrent
    BY DEF SettingsInv, SessionsKnown, Known, SessionsAreCurrent, Waits, Waiting, DevicesOf
<1>6. GuideIsRead
    BY DEF SettingsInv, GuideKept, GuideIsRead
<1> QED BY <1>3, <1>4, <1>5, <1>6

-----------------------------------------------------------------------------
(* The scan: its requests *)

\* What a session became stays so.
SavedOnce == {"saved", "gone"}

\* What a code may have become by then.
Later(one, other, owned, kept) ==
    /\ DOMAIN other = Scans /\ (owned => kept)
    /\ \A q \in Scans : one[q] # "unused" => other[q] # "unused"
    /\ \A q \in Scans : one[q] \in SavedOnce => other[q] \in SavedOnce

CreatedCode(call) == call.op = "create" /\ Succeeds(call)

\* A request of the page, and what its answer says of the sessions.
ScanCall(call, value, owned) ==
    /\ "op" \in DOMAIN call
    /\ call.op # "idle" => "answer" \in DOMAIN call
    /\ call.op \in {"check", "confirm"} => "scan" \in DOMAIN call /\ call.scan \in Scans /\ value[call.scan] # "unused"
    /\ CreatedCode(call) => call.answer.body \in Scans /\ value[call.answer.body] # "unused"
    /\ call.op = "check" /\ Succeeds(call) /\ call.answer.body = "saved" => value[call.scan] \in SavedOnce /\ owned
    /\ call.op = "confirm" /\ Succeeds(call) => value[call.scan] \in SavedOnce /\ owned

ScanCallsFit(calls, value, owned) ==
    /\ DOMAIN calls = Slots
    /\ \A s \in Slots : ScanCall(calls[s], value, owned)
    /\ \A s, t \in Slots : CreatedCode(calls[s]) /\ CreatedCode(calls[t]) /\ calls[s].answer.body = calls[t].answer.body
                           => s = t

\* A request that goes on, that loses its answer, or that ends.
Fades(call, next) ==
    \/ next = NoCall
    \/ /\ next.op = call.op /\ DOMAIN next = DOMAIN call
       /\ call.op \in {"check", "confirm"} => next.scan = call.scan
       /\ call.op # "idle" => next.answer = call.answer \/ next.answer.kind # "ok"

CallsFade(calls, after) == DOMAIN after = Slots /\ \A s \in Slots : Fades(calls[s], after[s])

\* A request that fades claims nothing new.
LEMMA FadedCall ==
    ASSUME NEW call, NEW next, NEW value, NEW other, NEW owned, NEW kept, ScanCall(call, value, owned), Fades(call, next),
           Later(value, other, owned, kept)
    PROVE  /\ ScanCall(next, other, kept)
           /\ CreatedCode(next) => CreatedCode(call) /\ next.answer.body = call.answer.body
<1>1. CASE next = NoCall
    BY <1>1 DEF NoCall, ScanCall, CreatedCode
<1>2. CASE /\ next.op = call.op /\ DOMAIN next = DOMAIN call
           /\ call.op \in {"check", "confirm"} => next.scan = call.scan
           /\ call.op # "idle" => next.answer = call.answer \/ next.answer.kind # "ok"
    <2>1. CASE call.op = "idle"
        BY <1>2, <2>1 DEF ScanCall, CreatedCode
    <2>2. CASE call.op # "idle" /\ next.answer = call.answer
        <3>1. Succeeds(next) <=> Succeeds(call)
            BY <2>2 DEF Succeeds
        <3> QED BY <1>2, <2>2, <3>1 DEF ScanCall, CreatedCode, Later
    <2>3. CASE call.op # "idle" /\ next.answer.kind # "ok"
        <3>1. ~Succeeds(next)
            BY <2>3 DEF Succeeds
        <3> QED BY <1>2, <2>3, <3>1 DEF ScanCall, CreatedCode, Later
    <2> QED BY <1>2, <2>1, <2>2, <2>3
<1> QED BY <1>1, <1>2 DEF Fades

LEMMA FadedCalls ==
    ASSUME NEW calls, NEW after, NEW value, NEW other, NEW owned, NEW kept, ScanCallsFit(calls, value, owned),
           CallsFade(calls, after), Later(value, other, owned, kept)
    PROVE  /\ ScanCallsFit(after, other, kept)
           /\ \A s \in Slots : CreatedCode(after[s]) =>
                  CreatedCode(calls[s]) /\ after[s].answer.body = calls[s].answer.body
<1>1. ASSUME NEW s \in Slots
      PROVE  /\ ScanCall(after[s], other, kept)
             /\ CreatedCode(after[s]) => CreatedCode(calls[s]) /\ after[s].answer.body = calls[s].answer.body
    <2>1. ScanCall(calls[s], value, owned) /\ Fades(calls[s], after[s])
        BY DEF ScanCallsFit, CallsFade
    <2> QED BY <2>1, FadedCall
<1>2. DOMAIN after = Slots
    BY DEF CallsFade
<1> QED BY <1>1, <1>2 DEF ScanCallsFit

\* An operation that is given up.
LEMMA AbortedCalls ==
    ASSUME NEW calls, NEW value, NEW owned, ScanCallsFit(calls, value, owned),
           NEW s, s = None \/ s \in Slots, NEW after, after = Abort(calls, s)
    PROVE  CallsFade(calls, after) /\ \A t \in Slots : after[t].op = calls[t].op
<1>0. /\ DOMAIN calls = Slots /\ \A t \in Slots : "op" \in DOMAIN calls[t]
      /\ \A t \in Slots : calls[t].op # "idle" => "answer" \in DOMAIN calls[t]
      /\ \A t \in Slots : calls[t].op \in {"check", "confirm"} => "scan" \in DOMAIN calls[t]
    BY DEF ScanCallsFit, ScanCall
<1>1. CASE after = calls
    BY <1>0, <1>1 DEF CallsFade, Fades
<1>2. CASE after # calls
    <2>1. s \in Slots /\ after = LoseAnswer(calls, s)
        BY <1>2 DEF Abort
    <2>2. PICK lost : lost = Lost
        OBVIOUS
    <2>3. after = [calls EXCEPT ![s].answer = lost]
        BY <2>1, <2>2 DEF LoseAnswer
    <2>4. /\ DOMAIN after = Slots
          /\ \A t \in Slots \ {s} : after[t] = calls[t]
          /\ DOMAIN after[s] = DOMAIN calls[s]
          /\ \A f \in DOMAIN calls[s] \ {"answer"} : after[s][f] = calls[s][f]
          /\ "answer" \in DOMAIN calls[s] => after[s].answer = lost
        BY <1>0, <2>1, <2>3, ToldCalls
    <2>5. lost.kind # "ok"
        BY <2>2 DEF Lost
    <2>6. after[s].op = calls[s].op /\ (calls[s].op # "idle" => after[s].answer = lost)
        BY <1>0, <2>1, <2>4
    <2>7. Fades(calls[s], after[s])
        <3>1. calls[s].op \in {"check", "confirm"} => after[s].scan = calls[s].scan
            BY <1>0, <2>1, <2>4
        <3> QED BY <2>4, <2>5, <2>6, <3>1 DEF Fades
    <2>8. \A t \in Slots \ {s} : Fades(calls[t], after[t])
        BY <2>4 DEF Fades
    <2> QED BY <2>4, <2>6, <2>7, <2>8 DEF CallsFade
<1> QED BY <1>1, <1>2

-----------------------------------------------------------------------------
(* The scan: its flow *)

\* What the operation of the flow says of it.
OperationFits(f, call) ==
    /\ f.result = None
    /\ call.op \in IF f.loading THEN {"create"} ELSE {"check", "confirm"}
    /\ ~f.loading => call.scan = f.qr
    /\ call.op = "confirm" => f.status = "confirming" /\ ~f.error

FlowFields == {"qr", "status", "result", "error", "loading", "busy", "failures", "operation"}

CodeOf(f) == IF f = None THEN None ELSE f.qr

FlowFits(f, calls, value, owned, unsure) ==
    f # None =>
        /\ DOMAIN f = FlowFields
        /\ f.qr # None => f.qr \in Scans /\ value[f.qr] # "unused"
        /\ f.qr \in unsure => f.error
        /\ f.result # None => f.result = f.qr /\ value[f.qr] \in SavedOnce /\ owned
        /\ f.loading \/ f.busy <=> f.operation # None
        /\ ~(f.loading /\ f.busy)
        /\ f.operation # None => f.operation \in Slots /\ OperationFits(f, calls[f.operation])

\* A code that was created and not shown yet is new to the page.
NewCodes(calls, code, unsure) ==
    \A s \in Slots : CreatedCode(calls[s]) => calls[s].answer.body \notin unsure /\ calls[s].answer.body # code

SessionRows(value, owned) == DOMAIN value = Scans /\ \A q \in Scans : value[q] \in SavedOnce => owned

AddFits(calls, lock) ==
    (lock = None \/ lock \in Slots) /\ \A s \in Slots : calls[s].op = "add" <=> s = lock

ScanInv ==
    /\ SessionRows(scans, bound)
    /\ ScanCallsFit(scanCalls, scans, bound)
    /\ FlowFits(flow, scanCalls, scans, bound, unsettled)
    /\ unsettled \subseteq Scans /\ \A q \in unsettled : scans[q] # "unused"
    /\ NewCodes(scanCalls, CodeOf(flow), unsettled)
    /\ AddFits(scanCalls, adding)

\* What the page hears no more of.
LEMMA Unheards ==
    ASSUME ScanInv
    PROVE  /\ Unheard \subseteq unsettled \cup ({CodeOf(flow)} \ {None})
           /\ unsettled \subseteq Unheard /\ Unheard \subseteq Scans /\ \A q \in Unheard : scans[q] # "unused"
<1>1. CASE Unheard = unsettled
    BY <1>1 DEF ScanInv
<1>2. CASE Unheard # unsettled
    <2>1. flow # None /\ flow.operation # None /\ scanCalls[flow.operation].op = "confirm"
          /\ Unheard = unsettled \cup {flow.qr}
        BY <1>2 DEF Unheard
    <2>2. flow.operation \in Slots /\ OperationFits(flow, scanCalls[flow.operation])
        BY <2>1 DEF ScanInv, FlowFits
    <2>3. ~flow.loading /\ scanCalls[flow.operation].scan = flow.qr
        BY <2>1, <2>2 DEF OperationFits
    <2>4. ScanCall(scanCalls[flow.operation], scans, bound)
        BY <2>2 DEF ScanInv, ScanCallsFit
    <2>5. flow.qr \in Scans /\ scans[flow.qr] # "unused"
        BY <2>1, <2>3, <2>4 DEF ScanCall
    <2>6. flow.qr # None
        BY <2>5, ScanAssumption
    <2> QED BY <2>1, <2>5, <2>6 DEF ScanInv, CodeOf
<1> QED BY <1>1, <1>2

\* Requests fade, and the flow goes on, starts anew or is left.
LEMMA ScanMoved ==
    ASSUME ScanInv, NEW after, after = scanCalls', CallsFade(scanCalls, after), Later(scans, scans', bound, bound'),
           SessionRows(scans', bound'), unsettled' \subseteq unsettled \cup ({CodeOf(flow)} \ {None}),
           CodeOf(flow') \in {CodeOf(flow), None}, FlowFits(flow', after, scans', bound', unsettled'),
           AddFits(after, adding')
    PROVE  ScanInv'
<1>1. PICK value : value = scans'
    OBVIOUS
<1>2. PICK owned : owned = bound'
    OBVIOUS
<1>3. /\ ScanCallsFit(after, value, owned)
      /\ \A s \in Slots : CreatedCode(after[s]) =>
             CreatedCode(scanCalls[s]) /\ after[s].answer.body = scanCalls[s].answer.body
    <2>1. ScanCallsFit(scanCalls, scans, bound)
        BY DEF ScanInv
    <2>2. Later(scans, value, bound, owned)
        BY <1>1, <1>2
    <2> QED BY <2>1, <2>2, FadedCalls
<1>4. \A s \in Slots : CreatedCode(after[s]) => after[s].answer.body \in Scans
    BY <1>3 DEF ScanCallsFit, ScanCall
<1>5. NewCodes(after, CodeOf(flow'), unsettled')
    BY <1>3, <1>4, ScanAssumption DEF ScanInv, NewCodes
<1>6. unsettled' \subseteq Scans /\ \A q \in unsettled' : scans'[q] # "unused"
    <2>1. CodeOf(flow) # None => CodeOf(flow) \in Scans /\ scans[CodeOf(flow)] # "unused"
        BY DEF ScanInv, FlowFits, CodeOf
    <2>2. unsettled \subseteq Scans /\ \A q \in unsettled : scans[q] # "unused"
        BY DEF ScanInv
    <2> QED BY <2>1, <2>2 DEF Later
<1>7. /\ SessionRows(scans, bound)'
      /\ ScanCallsFit(scanCalls, scans, bound)'
      /\ FlowFits(flow, scanCalls, scans, bound, unsettled)'
      /\ NewCodes(scanCalls, CodeOf(flow), unsettled)'
      /\ AddFits(scanCalls, adding)'
    BY <1>1, <1>2, <1>3, <1>5
<1> QED BY <1>6, <1>7 DEF ScanInv

\* A request is sent.
LEMMA ScanPosted ==
    ASSUME ScanInv, NEW mid, CallsFade(scanCalls, mid), Free(mid) # {}, NEW call, NEW after, after = scanCalls',
           after = Begin(mid, call), ScanCall(call, scans, bound), ~CreatedCode(call), call # NoCall,
           UNCHANGED <<scans, bound, unsettled>>,
           CodeOf(flow') \in {CodeOf(flow), None}, FlowFits(flow', after, scans, bound, unsettled),
           AddFits(after, adding')
    PROVE  ScanInv'
<1>1. ScanCallsFit(scanCalls, scans, bound) /\ NewCodes(scanCalls, CodeOf(flow), unsettled)
    BY DEF ScanInv
<1>2. Later(scans, scans, bound, bound)
    BY DEF Later, ScanInv, SessionRows
<1>3. /\ ScanCallsFit(mid, scans, bound)
      /\ \A s \in Slots : CreatedCode(mid[s]) => CreatedCode(scanCalls[s]) /\ mid[s].answer.body = scanCalls[s].answer.body
    BY <1>1, <1>2, FadedCalls
<1>4. DOMAIN mid = Slots
    BY DEF CallsFade
<1>5. PICK slot : slot = NextSlot(mid)
    OBVIOUS
<1>6. DOMAIN after = Slots /\ slot \in Slots /\ \A t \in Slots : after[t] = IF t = slot THEN call ELSE mid[t]
    BY <1>4, <1>5, BegunCalls
<1>7. \A s \in Slots : CreatedCode(after[s]) => after[s] = mid[s]
    BY <1>6
<1>8. ScanCallsFit(after, scans, bound)
    <2>1. \A s \in Slots : ScanCall(after[s], scans, bound)
        BY <1>3, <1>6 DEF ScanCallsFit
    <2> QED BY <1>3, <1>6, <1>7, <2>1 DEF ScanCallsFit
<1>9. NewCodes(after, CodeOf(flow'), unsettled)
    <2>1. \A s \in Slots : CreatedCode(after[s]) => after[s].answer.body \in Scans
        BY <1>8 DEF ScanCallsFit, ScanCall
    <2> QED BY <1>1, <1>3, <1>7, <2>1, ScanAssumption DEF NewCodes
<1>10. /\ ScanCallsFit(scanCalls, scans, bound)'
       /\ FlowFits(flow, scanCalls, scans, bound, unsettled)'
       /\ NewCodes(scanCalls, CodeOf(flow), unsettled)'
       /\ AddFits(scanCalls, adding)'
    BY <1>8, <1>9
<1>11. SessionRows(scans, bound)' /\ (unsettled \subseteq Scans /\ \A q \in unsettled : scans[q] # "unused")'
    BY DEF ScanInv
<1> QED BY <1>10, <1>11 DEF ScanInv

\* The requests go on, and what was answered meanwhile: a code that is given was not in use.
SameRequests(calls, after) ==
    /\ DOMAIN after = Slots
    /\ \A s \in Slots : /\ after[s].op = calls[s].op
                        /\ calls[s].op \in {"check", "confirm"} => after[s].scan = calls[s].scan

GivesUnused(calls, after, value) ==
    \A s \in Slots : CreatedCode(after[s]) =>
        after[s].answer = calls[s].answer \/ value[after[s].answer.body] = "unused"

\* The backend changes the sessions or answers.
LEMMA ScanTold ==
    ASSUME ScanInv, UNCHANGED <<flow, unsettled, adding>>, Later(scans, scans', bound, bound'),
           SessionRows(scans', bound'), NEW after, after = scanCalls', SameRequests(scanCalls, after),
           ScanCallsFit(after, scans', bound'), GivesUnused(scanCalls, after, scans)
    PROVE  ScanInv'
<1>0. /\ \A s \in Slots : after[s].op = scanCalls[s].op
      /\ \A s \in Slots : scanCalls[s].op \in {"check", "confirm"} => after[s].scan = scanCalls[s].scan
    BY DEF SameRequests
<1>1. \A s \in Slots : ScanCall(after[s], scans', bound')
    BY DEF ScanCallsFit
<1>2. PICK value : value = scans'
    OBVIOUS
<1>3. PICK owned : owned = bound'
    OBVIOUS
<1>4. FlowFits(flow, after, value, owned, unsettled)
    <2>1. FlowFits(flow, scanCalls, scans, bound, unsettled)
        BY DEF ScanInv
    <2>2. Later(scans, value, bound, owned)
        BY <1>2, <1>3
    <2>3. CASE flow = None
        BY <2>3 DEF FlowFits
    <2>4. CASE flow # None
        <3>1. flow.operation # None => flow.operation \in Slots /\ OperationFits(flow, after[flow.operation])
            BY <1>0, <2>1, <2>4 DEF FlowFits, OperationFits
        <3>2. flow.qr # None => flow.qr \in Scans /\ value[flow.qr] # "unused"
            BY <2>1, <2>2, <2>4 DEF FlowFits, Later
        <3>3. flow.result # None => flow.result = flow.qr /\ value[flow.qr] \in SavedOnce /\ owned
            <4>1. SUFFICES ASSUME flow.result # None
                           PROVE  flow.result = flow.qr /\ value[flow.qr] \in SavedOnce /\ owned
                OBVIOUS
            <4>2. flow.result = flow.qr /\ scans[flow.qr] \in SavedOnce /\ bound
                BY <2>1, <2>4, <4>1 DEF FlowFits
            <4>3. flow.qr \in Scans
                BY <2>1, <2>4, <4>1, <4>2 DEF FlowFits
            <4> QED BY <2>2, <4>2, <4>3 DEF Later
        <3> QED BY <2>1, <2>4, <3>1, <3>2, <3>3 DEF FlowFits
    <2> QED BY <2>3, <2>4
<1>5. NewCodes(after, CodeOf(flow), unsettled)
    <2>1. /\ \A q \in unsettled : scans[q] # "unused"
          /\ CodeOf(flow) # None => scans[CodeOf(flow)] # "unused"
        BY DEF ScanInv, FlowFits, CodeOf
    <2>2. ASSUME NEW s \in Slots, CreatedCode(after[s])
          PROVE  after[s].answer.body \notin unsettled /\ after[s].answer.body # CodeOf(flow)
        <3>1. after[s].answer.body \in Scans
            BY <1>1, <2>2 DEF ScanCall
        <3>2. CASE after[s].answer = scanCalls[s].answer
            <4>1. CreatedCode(scanCalls[s])
                BY <1>0, <2>2, <3>2 DEF CreatedCode, Succeeds
            <4> QED BY <3>2, <4>1 DEF ScanInv, NewCodes
        <3>3. CASE scans[after[s].answer.body] = "unused"
            BY <2>1, <3>1, <3>3, ScanAssumption
        <3> QED BY <2>2, <3>2, <3>3 DEF GivesUnused
    <2> QED BY <2>2 DEF NewCodes
<1>6. (unsettled \subseteq Scans /\ \A q \in unsettled : scans[q] # "unused")'
    BY DEF ScanInv, Later
<1>7. AddFits(after, adding)
    BY <1>0 DEF ScanInv, AddFits
<1>8. /\ SessionRows(scans, bound)'
      /\ ScanCallsFit(scanCalls, scans, bound)'
      /\ FlowFits(flow, scanCalls, scans, bound, unsettled)'
      /\ NewCodes(scanCalls, CodeOf(flow), unsettled)'
      /\ AddFits(scanCalls, adding)'
    BY <1>2, <1>3, <1>4, <1>5, <1>7
<1> QED BY <1>6, <1>8 DEF ScanInv

\* A flow whose operation goes on.
LEMMA FlowKept ==
    ASSUME ScanInv, NEW after, flow # None /\ flow.operation # None => after[flow.operation] = scanCalls[flow.operation]
    PROVE  FlowFits(flow, after, scans, bound, unsettled)
<1>1. FlowFits(flow, scanCalls, scans, bound, unsettled)
    BY DEF ScanInv
<1> QED BY <1>1 DEF FlowFits

\* A flow that is mounted anew, before it asks for a code.
LEMMA FlowFresh ==
    ASSUME NEW calls, NEW value, NEW owned, NEW unsure, unsure \subseteq Scans, NEW f, f = FreshFlow \/ f = None
    PROVE  FlowFits(f, calls, value, owned, unsure) /\ CodeOf(f) = None
<1>1. CASE f = None
    BY <1>1 DEF FlowFits, CodeOf
<1>2. CASE f = FreshFlow
    <2>1. /\ DOMAIN f = FlowFields /\ f.qr = None /\ f.result = None /\ ~f.loading /\ ~f.busy /\ f.operation = None
        BY <1>2 DEF FreshFlow, FlowFields
    <2> QED BY <2>1, ScanAssumption DEF FlowFits, CodeOf
<1> QED BY <1>1, <1>2

\* The lock of an addition.
LEMMA AddEnded ==
    ASSUME NEW calls, DOMAIN calls = Slots, NEW lock, AddFits(calls, lock), NEW s \in Slots, NEW after,
           after = End(calls, s), NEW freed, IF calls[s].op = "add" THEN freed = None ELSE freed = lock
    PROVE  AddFits(after, freed)
<1>1. \A t \in Slots : after[t] = IF t = s THEN NoCall ELSE calls[t]
    BY EndedCalls
<1>2. after[s].op = "idle"
    BY <1>1 DEF NoCall
<1> QED BY <1>1, <1>2, ScanAssumption DEF AddFits

\* An addition that stays keeps its lock.
LEMMA AddKept ==
    ASSUME NEW calls, NEW lock, AddFits(calls, lock), NEW after, \A s \in Slots : after[s].op = "add" <=> calls[s].op = "add"
    PROVE  AddFits(after, lock)
BY DEF AddFits

\* A request ends.
LEMMA EndFades ==
    ASSUME NEW calls, DOMAIN calls = Slots, NEW s \in Slots, NEW after, after = End(calls, s)
    PROVE  CallsFade(calls, after)
<1>1. DOMAIN after = Slots /\ \A t \in Slots : after[t] = IF t = s THEN NoCall ELSE calls[t]
    BY EndedCalls
<1> QED BY <1>1 DEF CallsFade, Fades

\* Requests that stay.
LEMMA StayFades ==
    ASSUME NEW calls, DOMAIN calls = Slots
    PROVE  CallsFade(calls, calls)
BY DEF CallsFade, Fades

\* What the invariant says of the requests and of the sessions.
LEMMA ScanLater ==
    ASSUME ScanInv
    PROVE  /\ Later(scans, scans, bound, bound) /\ DOMAIN scanCalls = Slots
           /\ ScanCallsFit(scanCalls, scans, bound) /\ SessionRows(scans, bound)
BY DEF ScanInv, Later, SessionRows, ScanCallsFit

\* The requests of the page: the flow takes those of its code as its operation.
LEMMA ScanSent ==
    ASSUME ScanInv, NEW own, SendScan(own), "op" \in DOMAIN own, "answer" \notin DOMAIN own, own.op # "idle",
           UNCHANGED <<scans, bound, unsettled>>, NEW slot, slot = NextSlot(scanCalls),
           IF own.op = "add" THEN adding = None /\ adding' = slot ELSE adding' = adding,
           \/ own.op \notin {"check", "confirm"} /\ flow' = flow
           \/ /\ own.op \in {"check", "confirm"} /\ "scan" \in DOMAIN own /\ flow # None /\ own.scan = flow.qr
              /\ flow.qr # None /\ flow.operation = None /\ flow.result = None
              /\ DOMAIN flow' = FlowFields
              /\ flow'.qr = flow.qr /\ flow'.result = None /\ (flow'.error <=> flow.error)
              /\ ~flow'.loading /\ flow'.busy /\ flow'.operation = slot
              /\ own.op = "confirm" => flow'.status = "confirming" /\ ~flow.error
    PROVE  ScanInv'
<1>1. PICK call : call = With([answer |-> Unanswered], own)
    OBVIOUS
<1>2. /\ DOMAIN call = {"answer"} \cup DOMAIN own /\ call.answer = Unanswered
      /\ \A f \in DOMAIN own : call[f] = own[f]
    BY <1>1 DEF With
<1>3. PICK after : after = scanCalls'
    OBVIOUS
<1>4. after = Begin(scanCalls, call) /\ Free(scanCalls) # {}
    BY <1>1, <1>3 DEF SendScan
<1>5. DOMAIN scanCalls = Slots /\ CallsFade(scanCalls, scanCalls)
    BY ScanLater, StayFades
<1>6. /\ DOMAIN after = Slots /\ slot \in Slots /\ scanCalls[slot].op = "idle"
      /\ \A t \in Slots : after[t] = IF t = slot THEN call ELSE scanCalls[t]
    BY <1>4, <1>5, BegunCalls
<1>7. call.op = own.op /\ ~Succeeds(call)
    BY <1>2 DEF Succeeds, Unanswered
<1>8. call # NoCall /\ ~CreatedCode(call)
    BY <1>7 DEF NoCall, CreatedCode
<1>9. ScanCall(call, scans, bound)
    <2>1. own.op \in {"check", "confirm"} => flow.qr \in Scans /\ scans[flow.qr] # "unused"
        BY DEF ScanInv, FlowFits
    <2> QED BY <1>2, <1>7, <1>8, <2>1 DEF ScanCall
<1>10. AddFits(after, adding')
    <2>1. AddFits(scanCalls, adding)
        BY DEF ScanInv
    <2>2. CASE own.op = "add"
        BY <1>6, <1>7, <2>1, <2>2, ScanAssumption DEF AddFits
    <2>3. CASE own.op # "add"
        BY <1>6, <1>7, <2>1, <2>3 DEF AddFits
    <2> QED BY <2>2, <2>3
<1>11. PICK f : f = flow'
    OBVIOUS
<1>12. FlowFits(f, after, scans, bound, unsettled) /\ CodeOf(f) \in {CodeOf(flow), None}
    <2>1. CASE own.op \notin {"check", "confirm"} /\ flow' = flow
        <3>1. flow # None /\ flow.operation # None => flow.operation \in Slots /\ scanCalls[flow.operation].op # "idle"
            BY DEF ScanInv, FlowFits, OperationFits
        <3>2. flow # None /\ flow.operation # None => after[flow.operation] = scanCalls[flow.operation]
            BY <1>6, <3>1
        <3> QED BY <1>11, <2>1, <3>2, FlowKept
    <2>2. CASE own.op \in {"check", "confirm"}
        <3>1. OperationFits(f, call)
            BY <1>2, <1>7, <1>11, <2>2 DEF OperationFits
        <3>2. f.qr \in Scans /\ scans[f.qr] # "unused" /\ (f.qr \in unsettled => f.error)
            BY <1>11, <2>2 DEF ScanInv, FlowFits
        <3>3. slot # None
            BY <1>6, ScanAssumption
        <3>4. FlowFits(f, after, scans, bound, unsettled)
            BY <1>6, <1>11, <2>2, <3>1, <3>2, <3>3 DEF FlowFits
        <3>5. CodeOf(f) \in {CodeOf(flow), None}
            BY <1>11, <2>2 DEF CodeOf
        <3> QED BY <3>4, <3>5
    <2> QED BY <2>1, <2>2
<1>13. CodeOf(flow') \in {CodeOf(flow), None} /\ FlowFits(flow', after, scans, bound, unsettled)
    BY <1>11, <1>12
<1> QED BY <1>3, <1>4, <1>5, <1>8, <1>9, <1>10, <1>13, ScanPosted

\* The page asks how far a code is, confirms it, asks for the state or adds a pile.
LEMMA ScanAsks ==
    ASSUME ScanInv, CheckQR \/ ConfirmQR \/ OpenScanDialog \/ SubmitAdd
    PROVE  ScanInv'
<1>1. PICK slot : slot = NextSlot(scanCalls)
    OBVIOUS
<1>2. CASE CheckQR
    <2>1. PICK own : own = [op |-> "check", scan |-> flow.qr]
        OBVIOUS
    <2>2. own.op = "check" /\ own.scan = flow.qr /\ DOMAIN own = {"op", "scan"}
        BY <2>1
    <2>3. /\ SendScan(own) /\ flow # None /\ flow.qr # None /\ flow.operation = None /\ flow.result = None
          /\ flow' = [flow EXCEPT !.busy = TRUE, !.operation = slot]
          /\ UNCHANGED <<scans, bound, unsettled, adding>>
        BY <1>1, <1>2, <2>1 DEF CheckQR, MayCheck, account, hostVars
    <2>4. DOMAIN flow = FlowFields /\ ~flow.loading
        BY <2>3 DEF ScanInv, FlowFits
    <2>5. PICK f : f = flow'
        OBVIOUS
    <2>6. /\ DOMAIN f = FlowFields /\ f.qr = flow.qr /\ f.result = None /\ f.error = flow.error
          /\ ~f.loading /\ f.busy /\ f.operation = slot
        BY <2>3, <2>4, <2>5 DEF FlowFields
    <2> QED BY <1>1, <2>2, <2>3, <2>5, <2>6, ScanSent
<1>3. CASE ConfirmQR
    <2>1. PICK own : own = [op |-> "confirm", scan |-> flow.qr, arrived |-> FALSE]
        OBVIOUS
    <2>2. own.op = "confirm" /\ own.scan = flow.qr /\ DOMAIN own = {"op", "scan", "arrived"}
        BY <2>1
    <2>3. /\ SendScan(own) /\ flow # None /\ flow.qr # None /\ flow.operation = None /\ flow.result = None
          /\ flow' = [flow EXCEPT !.busy = TRUE, !.status = "confirming", !.operation = slot]
          /\ ~flow.error /\ UNCHANGED <<scans, bound, unsettled, adding>>
        BY <1>1, <1>3, <2>1 DEF ConfirmQR, CanConfirm, account, hostVars
    <2>4. DOMAIN flow = FlowFields /\ ~flow.loading
        BY <2>3 DEF ScanInv, FlowFits
    <2>5. PICK f : f = flow'
        OBVIOUS
    <2>6. /\ DOMAIN f = FlowFields /\ f.qr = flow.qr /\ f.result = None /\ f.error = flow.error
          /\ ~f.loading /\ f.busy /\ f.operation = slot /\ f.status = "confirming"
        BY <2>3, <2>4, <2>5 DEF FlowFields
    <2> QED BY <1>1, <2>2, <2>3, <2>5, <2>6, ScanSent
<1>4. CASE OpenScanDialog
    <2>1. PICK own : own = [op |-> "status"]
        OBVIOUS
    <2>2. own.op = "status" /\ DOMAIN own = {"op"}
        BY <2>1
    <2>3. SendScan(own) /\ UNCHANGED <<scans, bound, unsettled, adding, flow>>
        BY <1>4, <2>1 DEF OpenScanDialog, account
    <2> QED BY <1>1, <2>2, <2>3, ScanSent
<1>5. CASE SubmitAdd
    <2>1. PICK own : own = [op |-> "add"]
        OBVIOUS
    <2>2. own.op = "add" /\ DOMAIN own = {"op"}
        BY <2>1
    <2>3. SendScan(own) /\ UNCHANGED <<scans, bound, unsettled, flow>> /\ adding = None /\ adding' = slot
        BY <1>1, <1>5, <2>1 DEF SubmitAdd, Unlocked, account
    <2> QED BY <1>1, <2>2, <2>3, ScanSent
<1> QED BY <1>2, <1>3, <1>4, <1>5

\* A code is asked for, and the present operation given up.
LEMMA ScanCreates ==
    ASSUME ScanInv, CreateQR
    PROVE  ScanInv'
<1>1. PICK dropped : dropped = Abort(scanCalls, flow.operation)
    OBVIOUS
<1>2. PICK slot : slot = NextSlot(dropped)
    OBVIOUS
<1>3. PICK call : call = [op |-> "create", answer |-> Unanswered]
    OBVIOUS
<1>4. PICK after : after = scanCalls'
    OBVIOUS
<1>5. /\ flow # None /\ Free(dropped) # {} /\ after = Begin(dropped, call)
      /\ flow' = [FreshFlow EXCEPT !.loading = TRUE, !.operation = slot]
      /\ UNCHANGED <<scans, bound, unsettled, adding>>
    BY <1>1, <1>2, <1>3, <1>4 DEF CreateQR, account, hostVars
<1>6. flow.operation = None \/ flow.operation \in Slots
    BY <1>5 DEF ScanInv, FlowFits
<1>7. CallsFade(scanCalls, dropped) /\ \A t \in Slots : dropped[t].op = scanCalls[t].op
    BY <1>1, <1>6, AbortedCalls, ScanLater
<1>8. call.op = "create" /\ call.answer = Unanswered /\ DOMAIN call = {"op", "answer"}
    BY <1>3
<1>9. ~Succeeds(call) /\ call # NoCall
    BY <1>8 DEF Succeeds, Unanswered, NoCall
<1>10. DOMAIN dropped = Slots
    BY <1>7 DEF CallsFade
<1>11. /\ slot \in Slots /\ dropped[slot].op = "idle"
       /\ \A t \in Slots : after[t] = IF t = slot THEN call ELSE dropped[t]
    BY <1>2, <1>5, <1>10, BegunCalls
<1>12. \A t \in Slots : after[t].op = "add" <=> scanCalls[t].op = "add"
    BY <1>7, <1>8, <1>11
<1>13. AddFits(after, adding')
    BY <1>5, <1>12, AddKept DEF ScanInv
<1>14. PICK f : f = flow'
    OBVIOUS
<1>15. /\ DOMAIN f = FlowFields /\ f.qr = None /\ f.result = None /\ f.loading /\ ~f.busy /\ f.operation = slot
    BY <1>5, <1>14 DEF FreshFlow, FlowFields
<1>16. FlowFits(f, after, scans, bound, unsettled) /\ CodeOf(f) = None
    <2>1. OperationFits(f, call)
        BY <1>8, <1>15 DEF OperationFits
    <2>2. None \notin unsettled /\ slot # None
        BY <1>11, ScanAssumption DEF ScanInv
    <2> QED BY <1>11, <1>15, <2>1, <2>2 DEF FlowFits, CodeOf
<1>17. CodeOf(flow') \in {CodeOf(flow), None} /\ FlowFits(flow', after, scans, bound, unsettled)
    BY <1>14, <1>16
<1>18. ScanCall(call, scans, bound) /\ ~CreatedCode(call)
    BY <1>8, <1>9 DEF ScanCall, CreatedCode
<1> QED BY <1>4, <1>5, <1>7, <1>9, <1>13, <1>17, <1>18, ScanPosted

\* The flow is left or mounted anew, and what it still asked is given up.
LEMMA ScanLeaves ==
    ASSUME ScanInv, flow' = FreshFlow \/ flow' = None, UNCHANGED <<scans, bound>>, unsettled' = unsettled \/ unsettled' = Unheard,
           NEW after, after = scanCalls', CallsFade(scanCalls, after), AddFits(after, adding')
    PROVE  ScanInv'
<1>1. Later(scans, scans', bound, bound') /\ SessionRows(scans', bound')
    BY DEF ScanInv, Later, SessionRows
<1>2. unsettled' \subseteq unsettled \cup ({CodeOf(flow)} \ {None}) /\ unsettled' \subseteq Scans
    BY Unheards DEF ScanInv
<1>3. PICK f : f = flow'
    OBVIOUS
<1>4. PICK unsure : unsure = unsettled'
    OBVIOUS
<1>5. FlowFits(f, after, scans', bound', unsure) /\ CodeOf(f) = None
    BY <1>2, <1>3, <1>4, FlowFresh
<1>6. CodeOf(flow') \in {CodeOf(flow), None} /\ FlowFits(flow', after, scans', bound', unsettled')
    BY <1>3, <1>4, <1>5
<1> QED BY <1>1, <1>2, <1>6, ScanMoved

\* What is aborted with the flow.
LEMMA FlowAborts ==
    ASSUME ScanInv, NEW kept, kept = IF flow = None THEN scanCalls ELSE Abort(scanCalls, flow.operation)
    PROVE  CallsFade(scanCalls, kept) /\ \A t \in Slots : kept[t].op = scanCalls[t].op
<1>1. CASE flow = None
    BY <1>1, StayFades, ScanLater
<1>2. CASE flow # None
    <2>1. flow.operation = None \/ flow.operation \in Slots
        BY <1>2 DEF ScanInv, FlowFits
    <2>2. kept = Abort(scanCalls, flow.operation)
        BY <1>2
    <2> QED BY <2>1, <2>2, AbortedCalls, ScanLater
<1> QED BY <1>1, <1>2

\* What ends with a dialog.
LEMMA ClosedCalls ==
    ASSUME NEW calls, NEW kept, CallsFade(calls, kept), NEW asked, NEW after,
           after = [s \in Slots |-> IF s \in asked THEN NoCall ELSE kept[s]]
    PROVE  CallsFade(calls, after)
BY DEF CallsFade, Fades

\* The dialogs.
LEMMA ScanDialogs ==
    ASSUME ScanInv, CloseScanDialog \/ StartBinding \/ BackToForm \/ ContinueBound
    PROVE  ScanInv'
<1>0. AddFits(scanCalls, adding)
    BY DEF ScanInv
<1>1. PICK after : after = scanCalls'
    OBVIOUS
<1>2. CASE CloseScanDialog
    <2>1. PICK kept : kept = IF flow = None THEN scanCalls ELSE Abort(scanCalls, flow.operation)
        OBVIOUS
    <2>2. PICK asked : asked = Waiting(scanCalls, {"status"})
        OBVIOUS
    <2>3. after = [s \in Slots |-> IF s \in asked THEN NoCall ELSE kept[s]]
        BY <1>1, <1>2, <2>1, <2>2 DEF CloseScanDialog
    <2>4. CallsFade(scanCalls, kept) /\ \A t \in Slots : kept[t].op = scanCalls[t].op
        BY <2>1, FlowAborts
    <2>5. CallsFade(scanCalls, after)
        BY <2>3, <2>4, ClosedCalls
    <2>6. \A s \in Slots : after[s].op = "add" <=> scanCalls[s].op = "add"
        BY <2>2, <2>3, <2>4 DEF Waiting, NoCall
    <2>7. flow' = None /\ unsettled' = Unheard /\ UNCHANGED <<scans, bound, adding>>
        BY <1>2 DEF CloseScanDialog, account
    <2>8. AddFits(after, adding')
        BY <1>0, <2>6, <2>7, AddKept
    <2> QED BY <1>1, <2>5, <2>7, <2>8, ScanLeaves
<1>3. CASE StartBinding
    <2>1. flow' = FreshFlow /\ UNCHANGED <<scans, bound, adding, unsettled, scanCalls>>
        BY <1>3 DEF StartBinding, account
    <2>2. CallsFade(scanCalls, after)
        BY <1>1, <2>1, StayFades, ScanLater
    <2>3. AddFits(after, adding')
        BY <1>0, <1>1, <2>1
    <2> QED BY <1>1, <2>1, <2>2, <2>3, ScanLeaves
<1>4. CASE BackToForm \/ ContinueBound
    <2>1. /\ flow' = None /\ unsettled' = Unheard /\ UNCHANGED <<scans, bound, adding>>
          /\ after = IF flow = None THEN scanCalls ELSE Abort(scanCalls, flow.operation)
        BY <1>1, <1>4 DEF BackToForm, ContinueBound, Unmount, account
    <2>2. CallsFade(scanCalls, after) /\ \A t \in Slots : after[t].op = scanCalls[t].op
        BY <2>1, FlowAborts
    <2>3. AddFits(after, adding')
        BY <1>0, <2>1, <2>2, AddKept
    <2> QED BY <1>1, <2>1, <2>2, <2>3, ScanLeaves
<1> QED BY <1>2, <1>3, <1>4

\* The browser goes offline and online.
LEMMA ScanConnects ==
    ASSUME ScanInv, GoOffline \/ GoOnline
    PROVE  ScanInv'
<1>0. AddFits(scanCalls, adding) /\ DOMAIN scanCalls = Slots
    BY ScanLater DEF ScanInv
<1>1. CASE UNCHANGED <<flow, scanCalls, unsettled, scans, bound, adding>>
    BY <1>1 DEF ScanInv, ScanCallsFit, NewCodes, AddFits, SessionRows
<1>2. CASE GoOffline /\ flow # None
    <2>1. PICK after : after = scanCalls'
        OBVIOUS
    <2>2. /\ after = Abort(scanCalls, flow.operation) /\ unsettled' = Unheard /\ flow' = Disconnected
          /\ UNCHANGED <<scans, bound, adding>>
        BY <1>2, <2>1 DEF GoOffline, account, hostVars
    <2>3. CallsFade(scanCalls, after) /\ \A t \in Slots : after[t].op = scanCalls[t].op
        BY <1>2, <2>2, FlowAborts
    <2>4. AddFits(after, adding')
        BY <1>0, <2>2, <2>3, AddKept
    <2>5. PICK f : f = flow'
        OBVIOUS
    <2>6. FlowFits(flow, scanCalls, scans, bound, unsettled)
        BY DEF ScanInv
    <2>7. /\ DOMAIN f = FlowFields /\ f.qr = flow.qr /\ f.result = flow.result /\ f.error
          /\ ~f.loading /\ ~f.busy /\ f.operation = None
        BY <1>2, <2>2, <2>5, <2>6 DEF Disconnected, FlowFits, FlowFields
    <2>8. FlowFits(f, after, scans, bound, Unheard)
        BY <1>2, <2>6, <2>7 DEF FlowFits
    <2>9. CodeOf(f) \in {CodeOf(flow), None}
        BY <1>2, <2>7 DEF CodeOf
    <2>10. Later(scans, scans', bound, bound') /\ SessionRows(scans', bound')
        BY <2>2 DEF ScanInv, Later, SessionRows
    <2>11. unsettled' \subseteq unsettled \cup ({CodeOf(flow)} \ {None})
        BY <2>2, Unheards
    <2>12. CodeOf(flow') \in {CodeOf(flow), None} /\ FlowFits(flow', after, scans', bound', unsettled')
        BY <2>2, <2>5, <2>8, <2>9
    <2> QED BY <2>1, <2>3, <2>4, <2>10, <2>11, <2>12, ScanMoved
<1> QED BY <1>1, <1>2 DEF GoOffline, GoOnline, account, hostVars

\* A request of the flow ends.
LEMMA ScanEnds ==
    ASSUME ScanInv, NEW s \in Slots, scanCalls[s].op # "add", NEW after, after = scanCalls', after = End(scanCalls, s),
           UNCHANGED <<scans, bound, adding>>, unsettled' \subseteq unsettled \cup ({CodeOf(flow)} \ {None}),
           CodeOf(flow') \in {CodeOf(flow), None}, FlowFits(flow', after, scans, bound, unsettled')
    PROVE  ScanInv'
<1>1. CallsFade(scanCalls, after)
    BY EndFades, ScanLater
<1>2. Later(scans, scans', bound, bound') /\ SessionRows(scans', bound')
    BY DEF ScanInv, Later, SessionRows
<1>3. AddFits(scanCalls, adding) /\ DOMAIN scanCalls = Slots
    BY ScanLater DEF ScanInv
<1>4. AddFits(after, adding')
    BY <1>3, AddEnded
<1>5. FlowFits(flow', after, scans', bound', unsettled')
    BY DEF ScanInv
<1> QED BY <1>1, <1>2, <1>4, <1>5, ScanMoved

\* One that is no operation any more leaves the flow alone.
LEMMA ScanIgnores ==
    ASSUME ScanInv, NEW s \in Slots, scanCalls[s].op # "add", scanCalls' = End(scanCalls, s),
           ~SameVersion(s), UNCHANGED <<scans, bound, adding, flow, unsettled>>
    PROVE  ScanInv'
<1>1. PICK after : after = scanCalls'
    OBVIOUS
<1>2. \A t \in Slots : after[t] = IF t = s THEN NoCall ELSE scanCalls[t]
    BY <1>1, EndedCalls, ScanLater
<1>3. flow # None /\ flow.operation # None => after[flow.operation] = scanCalls[flow.operation]
    BY <1>2 DEF SameVersion, ScanInv, FlowFits
<1>4. FlowFits(flow, after, scans, bound, unsettled)
    BY <1>3, FlowKept
<1> QED BY <1>1, <1>4, ScanEnds

\* What the flow knows as its operation ends.
LEMMA OwnOperation ==
    ASSUME ScanInv, NEW s \in Slots, SameVersion(s)
    PROVE  /\ flow # None /\ flow.operation = s /\ OperationFits(flow, scanCalls[s]) /\ DOMAIN flow = FlowFields
           /\ flow.qr # None => flow.qr \in Scans /\ scans[flow.qr] # "unused"
           /\ flow.qr \in unsettled => flow.error
           /\ CodeOf(flow) = flow.qr
           /\ ScanCall(scanCalls[s], scans, bound)
           /\ scanCalls[s].op \in {"check", "confirm"} => ~flow.loading /\ scanCalls[s].scan = flow.qr /\ flow.qr \in Scans
           /\ scanCalls[s].op = "create" => flow.loading /\ ~flow.busy
<1>1. flow # None /\ flow.operation = s /\ flow.operation # None
    BY ScanAssumption DEF SameVersion
<1>2. /\ OperationFits(flow, scanCalls[s]) /\ DOMAIN flow = FlowFields
      /\ flow.qr # None => flow.qr \in Scans /\ scans[flow.qr] # "unused"
      /\ flow.qr \in unsettled => flow.error
      /\ ~(flow.loading /\ flow.busy)
    BY <1>1 DEF ScanInv, FlowFits
<1>3. ScanCall(scanCalls[s], scans, bound)
    BY DEF ScanInv, ScanCallsFit
<1>4. scanCalls[s].op \in {"check", "confirm"} => ~flow.loading /\ scanCalls[s].scan = flow.qr /\ flow.qr \in Scans
    BY <1>2, <1>3 DEF OperationFits, ScanCall
<1>5. scanCalls[s].op = "create" => flow.loading /\ ~flow.busy
    BY <1>2 DEF OperationFits
<1> QED BY <1>1, <1>2, <1>3, <1>4, <1>5 DEF CodeOf

\* The answers of the flow and of the addition, each in turn.
LEMMA ScanLandCreate ==
    ASSUME ScanInv, NEW s \in Slots, LandCreate(s)
    PROVE  ScanInv'
<1>1. PICK call : call = scanCalls[s]
    OBVIOUS
<1>2. PICK after : after = scanCalls'
    OBVIOUS
<1>3. /\ call.op = "create" /\ after = End(scanCalls, s) /\ UNCHANGED <<scans, bound, adding, unsettled>>
    BY <1>1, <1>2 DEF LandCreate, account, hostVars
<1>4. CASE ~SameVersion(s)
    <2>1. flow' = flow
        BY <1>4 DEF LandCreate
    <2> QED BY <1>1, <1>2, <1>3, <1>4, <2>1, ScanIgnores
<1>5. CASE SameVersion(s)
    <2>1. /\ flow # None /\ flow.operation = s /\ OperationFits(flow, call) /\ DOMAIN flow = FlowFields
          /\ flow.qr # None => flow.qr \in Scans /\ scans[flow.qr] # "unused"
          /\ flow.qr \in unsettled => flow.error
          /\ CodeOf(flow) = flow.qr /\ ScanCall(call, scans, bound) /\ flow.loading /\ ~flow.busy
        BY <1>1, <1>3, <1>5, OwnOperation
    <2>2. PICK failed : failed = (call.answer.kind # "ok")
        OBVIOUS
    <2>3. PICK code : code = IF call.answer.kind = "ok" THEN call.answer.body ELSE flow.qr
        OBVIOUS
    <2>4. PICK f : f = flow'
        OBVIOUS
    <2>5. f = [flow EXCEPT !.operation = None, !.loading = FALSE, !.qr = code, !.error = failed]
        BY <1>1, <1>5, <2>2, <2>3, <2>4 DEF LandCreate
    <2>6. /\ DOMAIN f = FlowFields /\ f.qr = code /\ f.operation = None /\ ~f.loading /\ ~f.busy
          /\ f.result = flow.result /\ f.error = failed
        BY <2>1, <2>5 DEF FlowFields
    <2>7. f.result = None
        BY <2>1, <2>6 DEF OperationFits
    <2>8. CASE call.answer.kind # "ok"
        <3>1. code = flow.qr /\ failed
            BY <2>2, <2>3, <2>8
        <3>2. FlowFits(f, after, scans, bound, unsettled)
            BY <2>1, <2>6, <2>7, <3>1 DEF FlowFits
        <3>3. CodeOf(f) \in {CodeOf(flow), None}
            BY <2>1, <2>6, <3>1 DEF CodeOf
        <3>4. CodeOf(flow') \in {CodeOf(flow), None} /\ FlowFits(flow', after, scans, bound, unsettled')
            BY <1>3, <2>4, <3>2, <3>3
        <3> QED BY <1>1, <1>2, <1>3, <3>4, ScanEnds
    <2>9. CASE call.answer.kind = "ok"
        <3>1. CreatedCode(call) /\ code = call.answer.body
            BY <1>3, <2>3, <2>9 DEF CreatedCode, Succeeds
        <3>2. code \in Scans /\ scans[code] # "unused"
            BY <2>1, <3>1 DEF ScanCall
        <3>3. code \notin unsettled
            BY <1>1, <3>1 DEF ScanInv, NewCodes
        <3>4. FlowFits(f, after, scans, bound, unsettled) /\ (CodeOf(f) = code \/ CodeOf(f) = None)
            BY <2>6, <2>7, <3>2, <3>3 DEF FlowFits, CodeOf
        <3>5. \A t \in Slots : after[t] = IF t = s THEN NoCall ELSE scanCalls[t]
            BY <1>3, EndedCalls, ScanLater
        <3>6. ScanCallsFit(after, scans, bound)
            <4>1. CallsFade(scanCalls, after)
                BY <1>3, EndFades, ScanLater
            <4> QED BY <4>1, FadedCalls, ScanLater
        <3>7. NewCodes(after, CodeOf(f), unsettled)
            <4>1. ASSUME NEW t \in Slots, CreatedCode(after[t])
                  PROVE  after[t].answer.body \notin unsettled /\ after[t].answer.body # CodeOf(f)
                <5>1. t # s /\ after[t] = scanCalls[t]
                    BY <3>5, <4>1 DEF NoCall, CreatedCode
                <5>2. after[t].answer.body \notin unsettled
                    BY <4>1, <5>1 DEF ScanInv, NewCodes
                <5>3. after[t].answer.body # code
                    BY <1>1, <3>1, <4>1, <5>1 DEF ScanInv, ScanCallsFit
                <5>4. after[t].answer.body \in Scans
                    BY <3>6, <4>1 DEF ScanCallsFit, ScanCall
                <5> QED BY <3>4, <5>2, <5>3, <5>4, ScanAssumption
            <4> QED BY <4>1 DEF NewCodes
        <3>8. AddFits(after, adding)
            <4>1. AddFits(scanCalls, adding) /\ DOMAIN scanCalls = Slots
                BY ScanLater DEF ScanInv
            <4> QED BY <1>1, <1>3, <4>1, AddEnded
        <3>9. /\ ScanCallsFit(scanCalls, scans, bound)'
              /\ FlowFits(flow, scanCalls, scans, bound, unsettled)'
              /\ NewCodes(scanCalls, CodeOf(flow), unsettled)'
              /\ AddFits(scanCalls, adding)'
            BY <1>2, <1>3, <2>4, <3>4, <3>6, <3>7, <3>8
        <3>10. SessionRows(scans, bound)' /\ (unsettled \subseteq Scans /\ \A q \in unsettled : scans[q] # "unused")'
            BY <1>3 DEF ScanInv
        <3> QED BY <3>9, <3>10 DEF ScanInv
    <2> QED BY <2>8, <2>9
<1> QED BY <1>4, <1>5

LEMMA ScanLandCheck ==
    ASSUME ScanInv, NEW s \in Slots, LandCheck(s)
    PROVE  ScanInv'
<1>1. PICK call : call = scanCalls[s]
    OBVIOUS
<1>2. PICK after : after = scanCalls'
    OBVIOUS
<1>3. call.op = "check" /\ after = End(scanCalls, s) /\ UNCHANGED <<scans, bound, adding>>
    BY <1>1, <1>2 DEF LandCheck, account, hostVars
<1>4. CASE ~SameVersion(s)
    <2>1. flow' = flow /\ unsettled' = unsettled
        BY <1>4 DEF LandCheck
    <2> QED BY <1>1, <1>2, <1>3, <1>4, <2>1, ScanIgnores
<1>5. CASE SameVersion(s)
    <2>1. /\ flow # None /\ flow.operation = s /\ OperationFits(flow, call) /\ DOMAIN flow = FlowFields
          /\ flow.qr # None => flow.qr \in Scans /\ scans[flow.qr] # "unused"
          /\ flow.qr \in unsettled => flow.error
          /\ CodeOf(flow) = flow.qr /\ ScanCall(call, scans, bound) /\ ~flow.loading /\ call.scan = flow.qr
          /\ flow.qr \in Scans
        BY <1>1, <1>3, <1>5, OwnOperation
    <2>2. flow.result = None
        BY <2>1 DEF OperationFits
    <2>3. PICK f : f = flow'
        OBVIOUS
    <2>4. PICK unsure : unsure = unsettled'
        OBVIOUS
    <2>5. CASE ~Succeeds(call)
        <3>1. unsure = unsettled
            BY <1>1, <2>4, <2>5 DEF LandCheck, Succeeds
        <3>2. PICK count : f = [flow EXCEPT !.operation = None, !.busy = FALSE, !.error = TRUE, !.failures = count]
            BY <1>1, <1>5, <2>3, <2>5 DEF LandCheck, Succeeds
        <3>3. /\ DOMAIN f = FlowFields /\ f.qr = flow.qr /\ f.operation = None /\ ~f.loading /\ ~f.busy
              /\ f.result = None /\ f.error
            BY <2>1, <2>2, <3>2 DEF FlowFields
        <3>4. FlowFits(f, after, scans, bound, unsure) /\ CodeOf(f) \in {CodeOf(flow), None}
            BY <2>1, <3>3 DEF FlowFits, CodeOf
        <3>5. /\ CodeOf(flow') \in {CodeOf(flow), None} /\ FlowFits(flow', after, scans, bound, unsettled')
              /\ unsettled' = unsettled
            BY <2>3, <2>4, <3>1, <3>4
        <3> QED BY <1>1, <1>2, <1>3, <3>5, ScanEnds
    <2>6. CASE Succeeds(call)
        <3>1. unsure = unsettled \ {flow.qr}
            BY <1>1, <1>5, <2>1, <2>4, <2>6 DEF LandCheck, Succeeds
        <3>2. PICK told : told = [flow EXCEPT !.operation = None, !.busy = FALSE, !.failures = 0, !.error = FALSE]
            OBVIOUS
        <3>3. f = IF call.answer.body = "saved" THEN [told EXCEPT !.result = flow.qr]
                  ELSE [told EXCEPT !.status = call.answer.body]
            BY <1>1, <1>5, <2>1, <2>3, <2>6, <3>2 DEF LandCheck, Succeeds
        <3>4. /\ DOMAIN told = FlowFields /\ told.qr = flow.qr /\ told.operation = None /\ ~told.loading /\ ~told.busy
              /\ told.result = None
            BY <2>1, <2>2, <3>2 DEF FlowFields
        <3>5. FlowFits(f, after, scans, bound, unsure) /\ CodeOf(f) \in {CodeOf(flow), None}
            <4>1. CASE call.answer.body = "saved"
                <5>1. scans[flow.qr] \in SavedOnce /\ bound
                    BY <1>3, <2>1, <2>6, <4>1 DEF ScanCall
                <5>2. f = [told EXCEPT !.result = flow.qr]
                    BY <3>3, <4>1
                <5>3. /\ DOMAIN f = FlowFields /\ f.qr = flow.qr /\ f.operation = None /\ ~f.loading /\ ~f.busy
                      /\ f.result = flow.qr
                    BY <3>4, <5>2 DEF FlowFields
                <5> QED BY <2>1, <3>1, <5>1, <5>3 DEF FlowFits, CodeOf
            <4>2. CASE call.answer.body # "saved"
                <5>1. f = [told EXCEPT !.status = call.answer.body]
                    BY <3>3, <4>2
                <5>2. /\ DOMAIN f = FlowFields /\ f.qr = flow.qr /\ f.operation = None /\ ~f.loading /\ ~f.busy
                      /\ f.result = None
                    BY <3>4, <5>1 DEF FlowFields
                <5> QED BY <2>1, <3>1, <5>2 DEF FlowFits, CodeOf
            <4> QED BY <4>1, <4>2
        <3>6. /\ CodeOf(flow') \in {CodeOf(flow), None} /\ FlowFits(flow', after, scans, bound, unsettled')
              /\ unsettled' \subseteq unsettled
            BY <2>3, <2>4, <3>1, <3>5
        <3> QED BY <1>1, <1>2, <1>3, <3>6, ScanEnds
    <2> QED BY <2>5, <2>6
<1> QED BY <1>4, <1>5

LEMMA ScanLandConfirm ==
    ASSUME ScanInv, NEW s \in Slots, LandConfirm(s)
    PROVE  ScanInv'
<1>1. PICK call : call = scanCalls[s]
    OBVIOUS
<1>2. PICK after : after = scanCalls'
    OBVIOUS
<1>3. call.op = "confirm" /\ after = End(scanCalls, s) /\ UNCHANGED <<scans, bound, adding>>
    BY <1>1, <1>2 DEF LandConfirm, account, hostVars
<1>4. CASE ~SameVersion(s)
    <2>1. flow' = flow /\ unsettled' = unsettled
        BY <1>4 DEF LandConfirm
    <2> QED BY <1>1, <1>2, <1>3, <1>4, <2>1, ScanIgnores
<1>5. CASE SameVersion(s)
    <2>1. /\ flow # None /\ flow.operation = s /\ OperationFits(flow, call) /\ DOMAIN flow = FlowFields
          /\ flow.qr # None => flow.qr \in Scans /\ scans[flow.qr] # "unused"
          /\ flow.qr \in unsettled => flow.error
          /\ CodeOf(flow) = flow.qr /\ ScanCall(call, scans, bound) /\ ~flow.loading /\ call.scan = flow.qr
          /\ flow.qr \in Scans
        BY <1>1, <1>3, <1>5, OwnOperation
    <2>2. flow.result = None /\ ~flow.error
        BY <1>3, <2>1 DEF OperationFits
    <2>3. PICK f : f = flow'
        OBVIOUS
    <2>4. PICK unsure : unsure = unsettled'
        OBVIOUS
    <2>5. CASE call.answer.kind = "ok"
        <3>1. unsure = unsettled
            BY <1>1, <1>5, <2>4, <2>5 DEF LandConfirm
        <3>2. f = [flow EXCEPT !.operation = None, !.busy = FALSE, !.error = FALSE, !.result = flow.qr]
            BY <1>1, <1>5, <2>1, <2>3, <2>5 DEF LandConfirm
        <3>3. /\ DOMAIN f = FlowFields /\ f.qr = flow.qr /\ f.operation = None /\ ~f.loading /\ ~f.busy
              /\ f.result = flow.qr
            BY <2>1, <3>2 DEF FlowFields
        <3>4. scans[flow.qr] \in SavedOnce /\ bound
            BY <1>3, <2>1, <2>5 DEF ScanCall, Succeeds
        <3>5. FlowFits(f, after, scans, bound, unsure) /\ CodeOf(f) \in {CodeOf(flow), None}
            BY <2>1, <2>2, <3>1, <3>3, <3>4 DEF FlowFits, CodeOf
        <3>6. /\ CodeOf(flow') \in {CodeOf(flow), None} /\ FlowFits(flow', after, scans, bound, unsettled')
              /\ unsettled' = unsettled
            BY <2>3, <2>4, <3>1, <3>5
        <3> QED BY <1>1, <1>2, <1>3, <3>6, ScanEnds
    <2>6. CASE call.answer.kind # "ok"
        <3>1. unsure = unsettled \cup {flow.qr}
            BY <1>1, <1>5, <2>1, <2>4, <2>6 DEF LandConfirm
        <3>2. f = [AfterFailure EXCEPT !.operation = None, !.busy = FALSE]
            BY <1>1, <1>5, <2>3, <2>6 DEF LandConfirm
        <3>3. PICK told : told = AfterFailure
            OBVIOUS
        <3>4. DOMAIN told = FlowFields /\ told.qr = flow.qr /\ ~told.loading /\ told.error /\ told.result = None
            BY <2>1, <2>2, <3>3 DEF AfterFailure, FlowFields
        <3>5. /\ DOMAIN f = FlowFields /\ f.qr = flow.qr /\ f.operation = None /\ ~f.loading /\ ~f.busy
              /\ f.result = None /\ f.error
            BY <3>2, <3>3, <3>4 DEF FlowFields
        <3>6. FlowFits(f, after, scans, bound, unsure) /\ CodeOf(f) \in {CodeOf(flow), None}
            BY <2>1, <3>5 DEF FlowFits, CodeOf
        <3>7. flow.qr # None
            BY <2>1, ScanAssumption
        <3>8. /\ CodeOf(flow') \in {CodeOf(flow), None} /\ FlowFits(flow', after, scans, bound, unsettled')
              /\ unsettled' \subseteq unsettled \cup ({CodeOf(flow)} \ {None})
            BY <2>1, <2>3, <2>4, <3>1, <3>6, <3>7
        <3> QED BY <1>1, <1>2, <1>3, <3>8, ScanEnds
    <2> QED BY <2>5, <2>6
<1> QED BY <1>4, <1>5

\* The answers that are not of the flow.
LEMMA ScanLandStatus ==
    ASSUME ScanInv, NEW s \in Slots, LandStatus(s)
    PROVE  ScanInv'
<1>1. PICK after : after = scanCalls'
    OBVIOUS
<1>2. /\ scanCalls[s].op = "status" /\ after = End(scanCalls, s) /\ UNCHANGED <<scans, bound, adding, unsettled>>
      /\ flow' = FreshFlow \/ flow' = None
    BY <1>1 DEF LandStatus, account
<1>3. CallsFade(scanCalls, after)
    BY <1>2, EndFades, ScanLater
<1>4. AddFits(scanCalls, adding) /\ DOMAIN scanCalls = Slots
    BY ScanLater DEF ScanInv
<1>5. AddFits(after, adding')
    BY <1>2, <1>4, AddEnded
<1> QED BY <1>1, <1>2, <1>3, <1>5, ScanLeaves

\* The addition ends.
LEMMA ScanLandAdd ==
    ASSUME ScanInv, NEW s \in Slots, LandAdd(s)
    PROVE  ScanInv'
<1>1. PICK after : after = scanCalls'
    OBVIOUS
<1>2. scanCalls[s].op = "add" /\ adding' = None /\ UNCHANGED <<scans, bound>>
    BY DEF LandAdd, account
<1>3. AddFits(scanCalls, adding) /\ DOMAIN scanCalls = Slots
    BY ScanLater DEF ScanInv
<1>4. CASE flow' = None /\ unsettled' = Unheard
           /\ scanCalls' = LET asked == Waiting(scanCalls, {"status"}) \cup {s}
                               kept == IF flow = None THEN scanCalls ELSE Abort(scanCalls, flow.operation)
                           IN  [z \in Slots |-> IF z \in asked THEN NoCall ELSE kept[z]]
    <2>1. PICK kept : kept = IF flow = None THEN scanCalls ELSE Abort(scanCalls, flow.operation)
        OBVIOUS
    <2>2. PICK asked : asked = Waiting(scanCalls, {"status"}) \cup {s}
        OBVIOUS
    <2>3. after = [z \in Slots |-> IF z \in asked THEN NoCall ELSE kept[z]]
        BY <1>1, <1>4, <2>1, <2>2
    <2>4. CallsFade(scanCalls, kept) /\ \A t \in Slots : kept[t].op = scanCalls[t].op
        BY <2>1, FlowAborts
    <2>5. CallsFade(scanCalls, after)
        BY <2>3, <2>4, ClosedCalls
    <2>6. \A t \in Slots : after[t].op # "add"
        <3>1. \A t \in Slots : scanCalls[t].op = "add" => t \in asked
            BY <1>2, <1>3, <2>2 DEF AddFits
        <3> QED BY <2>3, <2>4, <3>1 DEF NoCall
    <2>7. AddFits(after, adding')
        BY <1>2, <2>6, ScanAssumption DEF AddFits
    <2> QED BY <1>1, <1>2, <1>4, <2>5, <2>7, ScanLeaves
<1>5. CASE scanCalls' = End(scanCalls, s) /\ UNCHANGED <<dialogStep, flow, unsettled>>
    <2>1. CallsFade(scanCalls, after)
        BY <1>1, <1>5, EndFades, ScanLater
    <2>2. AddFits(after, adding')
        BY <1>1, <1>2, <1>3, <1>5, AddEnded
    <2>3. \A t \in Slots : after[t] = IF t = s THEN NoCall ELSE scanCalls[t]
        BY <1>1, <1>3, <1>5, EndedCalls
    <2>4. flow # None /\ flow.operation # None => after[flow.operation] = scanCalls[flow.operation]
        BY <1>2, <2>3 DEF ScanInv, FlowFits, OperationFits
    <2>5. FlowFits(flow, after, scans, bound, unsettled)
        BY <2>4, FlowKept
    <2>6. Later(scans, scans', bound, bound') /\ SessionRows(scans', bound')
        BY <1>2 DEF ScanInv, Later, SessionRows
    <2>7. CodeOf(flow') \in {CodeOf(flow), None} /\ FlowFits(flow', after, scans', bound', unsettled')
        BY <1>2, <1>5, <2>5
    <2> QED BY <1>1, <1>5, <2>1, <2>2, <2>6, <2>7, ScanMoved
<1> QED BY <1>4, <1>5 DEF LandAdd

\* What an answer says of a code or of a session is so at the backend.
AnswerFits(call, answer, before, value, owned) ==
    /\ call.op # "idle"
    /\ call.op = "create" /\ answer.kind = "ok" =>
          answer.body \in Scans /\ before[answer.body] = "unused" /\ value[answer.body] # "unused"
    /\ call.op = "check" /\ answer.kind = "ok" /\ answer.body = "saved" =>
          value[call.scan] \in SavedOnce /\ owned
    /\ call.op = "confirm" /\ answer.kind = "ok" => value[call.scan] \in SavedOnce /\ owned

\* An answer of the backend.
LEMMA ScanAnswered ==
    ASSUME ScanInv, NEW s \in Slots, NEW answer,
           scanCalls' = [scanCalls EXCEPT ![s].answer = answer], UNCHANGED <<flow, unsettled, adding>>,
           Later(scans, scans', bound, bound'), SessionRows(scans', bound'),
           AnswerFits(scanCalls[s], answer, scans, scans', bound')
    PROVE  ScanInv'
<1>0. /\ scanCalls[s].op # "idle"
      /\ scanCalls[s].op = "create" /\ answer.kind = "ok" =>
            answer.body \in Scans /\ scans[answer.body] = "unused" /\ scans'[answer.body] # "unused"
      /\ scanCalls[s].op = "check" /\ answer.kind = "ok" /\ answer.body = "saved" =>
            scans'[scanCalls[s].scan] \in SavedOnce /\ bound'
      /\ scanCalls[s].op = "confirm" /\ answer.kind = "ok" => scans'[scanCalls[s].scan] \in SavedOnce /\ bound'
    BY DEF AnswerFits
<1>1. PICK after : after = scanCalls'
    OBVIOUS
<1>2. ScanCallsFit(scanCalls, scans, bound) /\ DOMAIN scanCalls = Slots
    BY ScanLater
<1>3. /\ DOMAIN after = Slots
      /\ \A t \in Slots \ {s} : after[t] = scanCalls[t]
      /\ DOMAIN after[s] = DOMAIN scanCalls[s]
      /\ \A f \in DOMAIN scanCalls[s] \ {"answer"} : after[s][f] = scanCalls[s][f]
      /\ "answer" \in DOMAIN scanCalls[s] => after[s].answer = answer
    BY <1>1, <1>2, ToldCalls
<1>4. ScanCall(scanCalls[s], scans, bound)
    BY <1>2 DEF ScanCallsFit
<1>5. /\ after[s].op = scanCalls[s].op /\ after[s].answer = answer
      /\ scanCalls[s].op \in {"check", "confirm"} => after[s].scan = scanCalls[s].scan
    BY <1>0, <1>3, <1>4 DEF ScanCall
<1>6. SameRequests(scanCalls, after)
    BY <1>3, <1>5 DEF SameRequests
<1>7. Succeeds(after[s]) <=> answer.kind = "ok"
    BY <1>5 DEF Succeeds
<1>8. PICK value : value = scans'
    OBVIOUS
<1>9. PICK owned : owned = bound'
    OBVIOUS
<1>10. Later(scans, value, bound, owned)
    BY <1>8, <1>9
<1>11. \A t \in Slots : ScanCall(after[t], value, owned)
    <2>1. ASSUME NEW t \in Slots, t # s
          PROVE  ScanCall(after[t], value, owned)
        <3>1. after[t] = scanCalls[t] /\ ScanCall(scanCalls[t], scans, bound)
            BY <1>2, <1>3, <2>1 DEF ScanCallsFit
        <3>2. Fades(scanCalls[t], after[t])
            BY <3>1 DEF Fades
        <3> QED BY <1>10, <3>1, <3>2, FadedCall
    <2>2. ScanCall(after[s], value, owned)
        BY <1>0, <1>3, <1>4, <1>5, <1>7, <1>8, <1>9, <1>10 DEF ScanCall, CreatedCode, Later
    <2> QED BY <2>1, <2>2
<1>13. CreatedCode(after[s]) => scans[answer.body] = "unused"
    BY <1>0, <1>5, <1>7 DEF CreatedCode
<1>14. GivesUnused(scanCalls, after, scans)
    BY <1>3, <1>5, <1>13 DEF GivesUnused
<1>15. ASSUME NEW t \in Slots, NEW u \in Slots, CreatedCode(after[t]), CreatedCode(after[u]),
              after[t].answer.body = after[u].answer.body
       PROVE  t = u
    <2>1. ASSUME NEW v \in Slots, v # s, CreatedCode(after[v])
          PROVE  CreatedCode(scanCalls[v]) /\ scans[after[v].answer.body] # "unused" /\ after[v] = scanCalls[v]
        BY <1>2, <1>3, <2>1 DEF ScanCallsFit, ScanCall
    <2> QED BY <1>2, <1>5, <1>13, <1>15, <2>1 DEF ScanCallsFit
<1>16. ScanCallsFit(after, value, owned)
    BY <1>3, <1>11, <1>15 DEF ScanCallsFit
<1>17. ScanCallsFit(after, scans', bound')
    BY <1>8, <1>9, <1>16
<1> QED BY <1>1, <1>6, <1>14, <1>17, ScanTold

\* Sessions that stay, and one that moves on.
LEMMA SessionsStay ==
    ASSUME ScanInv, UNCHANGED <<scans, bound>>
    PROVE  Later(scans, scans', bound, bound') /\ SessionRows(scans', bound')
BY DEF ScanInv, Later, SessionRows

LEMMA SessionMoves ==
    ASSUME ScanInv, NEW q \in Scans, NEW state, state \notin SavedOnce \cup {"unused"}, scans[q] \notin SavedOnce,
           scans' = [scans EXCEPT ![q] = state], UNCHANGED bound
    PROVE  Later(scans, scans', bound, bound') /\ SessionRows(scans', bound')
<1>1. DOMAIN scans = Scans /\ \A r \in Scans : scans[r] \in SavedOnce => bound
    BY DEF ScanInv, SessionRows
<1>2. DOMAIN scans' = Scans /\ \A r \in Scans : scans'[r] = IF r = q THEN state ELSE scans[r]
    BY <1>1
<1> QED BY <1>1, <1>2 DEF Later, SessionRows

\* The requests the backend answers at once, and an answer that is lost.
LEMMA ScanServes ==
    ASSUME ScanInv, NEW s \in Slots, ServeStatus(s) \/ ServePoll(s) \/ ServeAdd(s) \/ LoseScanAnswer(s)
    PROVE  ScanInv'
<1>1. UNCHANGED <<scans, bound, flow, unsettled, adding>>
    BY DEF ServeStatus, ServePoll, ServeAdd, LoseScanAnswer, AnswerScan, account, hostVars
<1>2. Later(scans, scans', bound, bound') /\ SessionRows(scans', bound')
    BY <1>1, SessionsStay
<1>3. CASE ServeStatus(s)
    <2>1. PICK answer : answer = Ok(bound)
        OBVIOUS
    <2>2. scanCalls[s].op = "status" /\ scanCalls' = [scanCalls EXCEPT ![s].answer = answer]
        BY <1>3, <2>1 DEF ServeStatus, AnswerScan
    <2>3. AnswerFits(scanCalls[s], answer, scans, scans', bound')
        BY <2>2 DEF AnswerFits
    <2> QED BY <1>1, <1>2, <2>2, <2>3, ScanAnswered
<1>4. CASE ServePoll(s)
    <2>1. PICK answer : answer = IF scans[scanCalls[s].scan] = "gone" THEN Refused("gone") ELSE Ok(scans[scanCalls[s].scan])
        OBVIOUS
    <2>2. scanCalls[s].op = "check" /\ scanCalls' = [scanCalls EXCEPT ![s].answer = answer]
        BY <1>4, <2>1 DEF ServePoll, AnswerScan
    <2>3. scanCalls[s].scan \in Scans
        BY <2>2, ScanLater DEF ScanCallsFit, ScanCall
    <2>4. answer.kind = "ok" => answer.body = scans[scanCalls[s].scan]
        BY <2>1 DEF Ok, Refused
    <2>5. AnswerFits(scanCalls[s], answer, scans, scans', bound')
        BY <1>1, <1>2, <2>2, <2>3, <2>4 DEF AnswerFits, SessionRows, SavedOnce
    <2> QED BY <1>1, <1>2, <2>2, <2>5, ScanAnswered
<1>5. CASE ServeAdd(s)
    <2>1. PICK answer : scanCalls[s].op = "add" /\ scanCalls' = [scanCalls EXCEPT ![s].answer = answer]
        BY <1>5 DEF ServeAdd, AnswerScan
    <2>2. AnswerFits(scanCalls[s], answer, scans, scans', bound')
        BY <2>1 DEF AnswerFits
    <2> QED BY <1>1, <1>2, <2>1, <2>2, ScanAnswered
<1>6. CASE LoseScanAnswer(s)
    <2>1. PICK answer : answer = Lost
        OBVIOUS
    <2>2. scanCalls[s].op # "idle" /\ scanCalls' = [scanCalls EXCEPT ![s].answer = answer]
        BY <1>6, <2>1 DEF LoseScanAnswer, LoseAnswer, Busy
    <2>3. answer.kind # "ok"
        BY <2>1 DEF Lost
    <2>4. AnswerFits(scanCalls[s], answer, scans, scans', bound')
        BY <2>2, <2>3 DEF AnswerFits
    <2> QED BY <1>1, <1>2, <2>2, <2>4, ScanAnswered
<1> QED BY <1>3, <1>4, <1>5, <1>6

\* A code is created.
LEMMA ScanGives ==
    ASSUME ScanInv, NEW s \in Slots, ServeCreateQR(s)
    PROVE  ScanInv'
<1>1. PICK q \in Scans : scans[q] = "unused" /\ scans' = [scans EXCEPT ![q] = "pending"] /\ AnswerScan(s, Ok(q))
    BY DEF ServeCreateQR
<1>2. PICK answer : answer = Ok(q)
    OBVIOUS
<1>3. scanCalls[s].op = "create" /\ scanCalls' = [scanCalls EXCEPT ![s].answer = answer]
      /\ UNCHANGED <<bound, flow, unsettled, adding>>
    BY <1>1, <1>2 DEF ServeCreateQR, AnswerScan, hostVars
<1>4. Later(scans, scans', bound, bound') /\ SessionRows(scans', bound')
    <2>1. PICK state : state = "pending"
        OBVIOUS
    <2> QED BY <1>1, <1>3, <2>1, SessionMoves DEF SavedOnce
<1>5. answer.body = q
    BY <1>2 DEF Ok
<1>6. scans'[q] = "pending"
    BY <1>1, ScanLater DEF SessionRows
<1>7. AnswerFits(scanCalls[s], answer, scans, scans', bound')
    BY <1>1, <1>3, <1>5, <1>6 DEF AnswerFits
<1> QED BY <1>3, <1>4, <1>7, ScanAnswered

\* The sessions move while the requests keep what was answered.
LEMMA ScanDrifts ==
    ASSUME ScanInv, UNCHANGED <<flow, unsettled, adding>>, Later(scans, scans', bound, bound'),
           SessionRows(scans', bound'), NEW after, after = scanCalls', SameRequests(scanCalls, after),
           CallsFade(scanCalls, after)
    PROVE  ScanInv'
<1>1. PICK value : value = scans'
    OBVIOUS
<1>2. PICK owned : owned = bound'
    OBVIOUS
<1>3. Later(scans, value, bound, owned) /\ ScanCallsFit(scanCalls, scans, bound)
    BY <1>1, <1>2, ScanLater
<1>4. ScanCallsFit(after, value, owned)
    BY <1>3, FadedCalls
<1>5. ScanCallsFit(after, scans', bound')
    BY <1>1, <1>2, <1>4
<1>6. GivesUnused(scanCalls, after, scans)
    <2>1. ASSUME NEW s \in Slots, CreatedCode(after[s])
          PROVE  after[s].answer = scanCalls[s].answer
        <3>1. Fades(scanCalls[s], after[s])
            BY DEF CallsFade
        <3>2. after[s].op = "create" /\ after[s].answer.kind = "ok"
            BY <2>1 DEF CreatedCode, Succeeds
        <3> QED BY <3>1, <3>2 DEF Fades, NoCall
    <2> QED BY <2>1 DEF GivesUnused
<1> QED BY <1>5, <1>6, ScanTold

\* A confirmation reaches the backend.
LEMMA ScanArrives ==
    ASSUME ScanInv, NEW s \in Slots, ArriveConfirm(s)
    PROVE  ScanInv'
<1>1. PICK call : call = scanCalls[s]
    OBVIOUS
<1>2. call.op = "confirm" /\ UNCHANGED <<bound>>
    BY <1>1 DEF ArriveConfirm
<1>3. ScanCall(call, scans, bound) /\ call.scan \in Scans
    BY <1>1, <1>2, ScanLater DEF ScanCallsFit, ScanCall
<1>4. CASE scans[call.scan] = "saved" /\ AnswerScan(s, Ok(call.scan)) /\ UNCHANGED scans
    <2>1. PICK answer : answer = Ok(call.scan)
        OBVIOUS
    <2>2. scanCalls' = [scanCalls EXCEPT ![s].answer = answer] /\ UNCHANGED <<scans, bound, flow, unsettled, adding>>
        BY <1>2, <1>4, <2>1 DEF AnswerScan, hostVars
    <2>3. Later(scans, scans', bound, bound') /\ SessionRows(scans', bound')
        BY <2>2, SessionsStay
    <2>4. AnswerFits(scanCalls[s], answer, scans, scans', bound')
        BY <1>1, <1>2, <1>3, <1>4, <2>2, <2>3 DEF AnswerFits, SessionRows, SavedOnce
    <2> QED BY <2>2, <2>3, <2>4, ScanAnswered
<1>5. CASE AnswerScan(s, Refused("busy")) /\ UNCHANGED scans
    <2>1. PICK answer : answer = Refused("busy")
        OBVIOUS
    <2>2. scanCalls' = [scanCalls EXCEPT ![s].answer = answer] /\ UNCHANGED <<scans, bound, flow, unsettled, adding>>
        BY <1>2, <1>5, <2>1 DEF AnswerScan, hostVars
    <2>3. Later(scans, scans', bound, bound') /\ SessionRows(scans', bound')
        BY <2>2, SessionsStay
    <2>4. answer.kind # "ok"
        BY <2>1 DEF Refused
    <2>5. AnswerFits(scanCalls[s], answer, scans, scans', bound')
        BY <1>1, <1>2, <2>4 DEF AnswerFits
    <2> QED BY <2>2, <2>3, <2>5, ScanAnswered
<1>6. CASE /\ scans[call.scan] = "authorized"
           /\ scans' = [scans EXCEPT ![call.scan] = "confirming"]
           /\ scanCalls' = [scanCalls EXCEPT ![s].arrived = TRUE]
           /\ UNCHANGED <<scanEnabled, hostVars, flow, online, scanCount, unsettled>>
    <2>1. PICK after : after = scanCalls'
        OBVIOUS
    <2>2. PICK state : state = "confirming"
        OBVIOUS
    <2>3. PICK q \in Scans : q = call.scan
        BY <1>3
    <2>4. scans' = [scans EXCEPT ![q] = state] /\ scans[q] = "authorized"
        BY <1>6, <2>2, <2>3
    <2>5. Later(scans, scans', bound, bound') /\ SessionRows(scans', bound')
        BY <1>2, <2>2, <2>4, SessionMoves DEF SavedOnce
    <2>6. /\ DOMAIN scanCalls = Slots /\ DOMAIN after = Slots
          /\ \A t \in Slots \ {s} : after[t] = scanCalls[t]
          /\ after[s] = [scanCalls[s] EXCEPT !.arrived = TRUE]
        BY <1>6, <2>1, ScanLater
    <2>7. after[s].op = "confirm" /\ after[s].scan = call.scan /\ after[s].answer = call.answer
          /\ DOMAIN after[s] = DOMAIN call
        BY <1>1, <1>2, <1>3, <2>6 DEF ScanCall
    <2>8. SameRequests(scanCalls, after)
        BY <1>1, <1>2, <2>6, <2>7 DEF SameRequests
    <2>9. CallsFade(scanCalls, after)
        <3>1. Fades(scanCalls[s], after[s])
            BY <1>1, <1>2, <2>7 DEF Fades
        <3>2. \A t \in Slots \ {s} : Fades(scanCalls[t], after[t])
            BY <2>6 DEF Fades
        <3> QED BY <2>6, <3>1, <3>2 DEF CallsFade
    <2>10. UNCHANGED <<flow, unsettled, adding>>
        BY <1>6 DEF hostVars
    <2> QED BY <2>1, <2>5, <2>8, <2>9, <2>10, ScanDrifts
<1> QED BY <1>1, <1>4, <1>5, <1>6 DEF ArriveConfirm

\* The phone authorizes a session, or it expires.
LEMMA ScanPhone ==
    ASSUME ScanInv, PhoneActs
    PROVE  ScanInv'
<1>1. PICK q \in Scans, state \in {"authorized", "expired"} :
          scans[q] \in {"pending", "authorized"} /\ scans' = [scans EXCEPT ![q] = state]
    BY DEF PhoneActs
<1>2. UNCHANGED <<bound, flow, unsettled, adding, scanCalls>>
    BY DEF PhoneActs, hostVars
<1>3. Later(scans, scans', bound, bound') /\ SessionRows(scans', bound')
    BY <1>1, <1>2, SessionMoves DEF SavedOnce
<1>4. PICK after : after = scanCalls'
    OBVIOUS
<1>5. CallsFade(scanCalls, after) /\ SameRequests(scanCalls, after)
    BY <1>2, <1>4, StayFades, ScanLater DEF SameRequests
<1> QED BY <1>2, <1>3, <1>4, <1>5, ScanDrifts

\* A confirmation that went well saved its session.
EndsWell(answer, value, q, owned) == answer.kind # "ok" \/ (value[q] \in SavedOnce /\ owned)

\* The requests that wait for a confirmation are told how it ended.
LEMMA ScanTells ==
    ASSUME ScanInv, UNCHANGED <<flow, unsettled, adding>>, Later(scans, scans', bound, bound'),
           SessionRows(scans', bound'), NEW q, NEW answer, NEW after, after = scanCalls',
           NEW waits, \A s \in waits : s \in Slots /\ scanCalls[s].op = "confirm" /\ scanCalls[s].scan = q,
           after = [s \in Slots |-> IF s \in waits THEN [scanCalls[s] EXCEPT !.answer = answer] ELSE scanCalls[s]],
           EndsWell(answer, scans', q, bound')
    PROVE  ScanInv'
<1>1. PICK value : value = scans'
    OBVIOUS
<1>2. PICK owned : owned = bound'
    OBVIOUS
<1>3. Later(scans, value, bound, owned) /\ ScanCallsFit(scanCalls, scans, bound)
    BY <1>1, <1>2, ScanLater
<1>4. DOMAIN after = Slots /\ \A s \in Slots \ waits : after[s] = scanCalls[s]
    OBVIOUS
<1>5. ASSUME NEW s \in waits
      PROVE  /\ s \in Slots /\ ScanCall(after[s], value, owned)
             /\ after[s].op = "confirm" /\ after[s].scan = scanCalls[s].scan /\ scanCalls[s].op = "confirm"
    <2>1. s \in Slots /\ scanCalls[s].op = "confirm" /\ scanCalls[s].scan = q /\ after[s] = [scanCalls[s] EXCEPT !.answer = answer]
        OBVIOUS
    <2>2. ScanCall(scanCalls[s], scans, bound)
        BY <1>3, <2>1 DEF ScanCallsFit
    <2>3. PICK call : call = scanCalls[s]
        OBVIOUS
    <2>4. PICK next : next = after[s]
        OBVIOUS
    <2>5. next = [call EXCEPT !.answer = answer] /\ {"op", "scan", "answer"} \subseteq DOMAIN call
        BY <2>1, <2>2, <2>3, <2>4 DEF ScanCall
    <2>6. DOMAIN next = DOMAIN call /\ next.op = call.op /\ next.scan = call.scan /\ next.answer = answer
        BY <2>5
    <2>7. Succeeds(next) => value[q] \in SavedOnce /\ owned
        BY <1>1, <1>2, <2>6 DEF Succeeds, EndsWell
    <2>8. ScanCall(next, value, owned)
        BY <1>3, <2>1, <2>2, <2>3, <2>6, <2>7 DEF ScanCall, CreatedCode, Later
    <2> QED BY <2>1, <2>3, <2>4, <2>6, <2>8
<1>6. ASSUME NEW s \in Slots \ waits
      PROVE  ScanCall(after[s], value, owned)
    <2>1. after[s] = scanCalls[s] /\ ScanCall(scanCalls[s], scans, bound)
        BY <1>3, <1>4 DEF ScanCallsFit
    <2>2. Fades(scanCalls[s], after[s])
        BY <2>1 DEF Fades
    <2> QED BY <1>3, <2>1, <2>2, FadedCall
<1>7. SameRequests(scanCalls, after)
    BY <1>4, <1>5 DEF SameRequests
<1>8. \A s \in Slots : CreatedCode(after[s]) => after[s] = scanCalls[s]
    BY <1>4, <1>5 DEF CreatedCode
<1>9. ScanCallsFit(after, value, owned)
    <2>1. \A s \in Slots : ScanCall(after[s], value, owned)
        BY <1>5, <1>6
    <2> QED BY <1>3, <1>4, <1>8, <2>1 DEF ScanCallsFit
<1>10. ScanCallsFit(after, scans', bound')
    BY <1>1, <1>2, <1>9
<1>11. GivesUnused(scanCalls, after, scans)
    BY <1>8 DEF GivesUnused
<1> QED BY <1>7, <1>10, <1>11, ScanTold

\* A confirmation ends at the backend, whether or not the page waits for it.
LEMMA ScanFinishes ==
    ASSUME ScanInv, NEW q \in Scans, FinishConfirm(q)
    PROVE  ScanInv'
<1>1. scans[q] = "confirming" /\ UNCHANGED <<flow, unsettled, adding>>
    BY DEF FinishConfirm, hostVars
<1>2. PICK after : after = scanCalls'
    OBVIOUS
<1>3. PICK waits : waits = {s \in Slots : /\ scanCalls[s].op = "confirm" /\ scanCalls[s].scan = q
                                /\ scanCalls[s].arrived /\ scanCalls[s].answer = Unanswered}
    OBVIOUS
<1>4. \A s \in waits : s \in Slots /\ scanCalls[s].op = "confirm" /\ scanCalls[s].scan = q
    BY <1>3
<1>5. DOMAIN scans = Scans /\ \A r \in Scans : scans[r] \in SavedOnce => bound
    BY ScanLater DEF SessionRows
<1>6. CASE /\ scans' = [r \in Scans |-> IF r = q THEN "saved"
                                       ELSE IF scans[r] = "unused" THEN "unused" ELSE "gone"]
           /\ bound' = TRUE
           /\ scanCalls' = [s \in Slots |-> IF s \in waits THEN [scanCalls[s] EXCEPT !.answer = Ok(q)] ELSE scanCalls[s]]
    <2>1. PICK answer : answer = Ok(q)
        OBVIOUS
    <2>2. after = [s \in Slots |-> IF s \in waits THEN [scanCalls[s] EXCEPT !.answer = answer] ELSE scanCalls[s]]
        BY <1>2, <1>6, <2>1
    <2>3. DOMAIN scans' = Scans /\ scans'[q] = "saved" /\ \A r \in Scans \ {q} : scans'[r] = IF scans[r] = "unused" THEN "unused" ELSE "gone"
        BY <1>6
    <2>4. Later(scans, scans', bound, bound') /\ SessionRows(scans', bound')
        BY <1>1, <1>5, <1>6, <2>3 DEF Later, SessionRows, SavedOnce
    <2>5. EndsWell(answer, scans', q, bound')
        BY <1>6, <2>3 DEF SavedOnce, EndsWell
    <2> QED BY <1>1, <1>2, <1>4, <2>2, <2>4, <2>5, ScanTells
<1>7. CASE /\ scans' = [scans EXCEPT ![q] = "authorized"] /\ UNCHANGED bound
           /\ scanCalls' = [s \in Slots |-> IF s \in waits THEN [scanCalls[s] EXCEPT !.answer = Refused("failed")] ELSE scanCalls[s]]
    <2>1. PICK answer : answer = Refused("failed")
        OBVIOUS
    <2>2. after = [s \in Slots |-> IF s \in waits THEN [scanCalls[s] EXCEPT !.answer = answer] ELSE scanCalls[s]]
        BY <1>2, <1>7, <2>1
    <2>3. PICK state : state = "authorized"
        OBVIOUS
    <2>4. Later(scans, scans', bound, bound') /\ SessionRows(scans', bound')
        BY <1>1, <1>7, <2>3, SessionMoves DEF SavedOnce
    <2>5. EndsWell(answer, scans', q, bound')
        BY <2>1 DEF Refused, EndsWell
    <2> QED BY <1>1, <1>2, <1>4, <2>2, <2>4, <2>5, ScanTells
<1> QED BY <1>3, <1>6, <1>7 DEF FinishConfirm

\* ScanInv holds of a page that was just opened, and every step keeps it.
LEMMA ScanStart ==
    ASSUME ScanInit
    PROVE  ScanInv
<1>1. DOMAIN scans = Scans /\ \A q \in Scans : scans[q] = "unused"
    BY DEF ScanInit
<1>2. DOMAIN scanCalls = Slots /\ \A s \in Slots : scanCalls[s] = NoCall
    BY DEF ScanInit, NoCalls
<1>3. flow = None /\ unsettled = {} /\ adding = None
    BY DEF ScanInit
<1>4. SessionRows(scans, bound)
    BY <1>1 DEF SessionRows, SavedOnce
<1>5. \A s \in Slots : ~CreatedCode(scanCalls[s]) /\ ScanCall(scanCalls[s], scans, bound)
    BY <1>2 DEF NoCall, ScanCall, CreatedCode
<1>6. ScanCallsFit(scanCalls, scans, bound)
    BY <1>2, <1>5 DEF ScanCallsFit
<1>7. NewCodes(scanCalls, CodeOf(flow), unsettled)
    BY <1>5 DEF NewCodes
<1>8. AddFits(scanCalls, adding)
    BY <1>2, <1>3, ScanAssumption DEF AddFits, NoCall
<1> QED BY <1>3, <1>4, <1>6, <1>7, <1>8 DEF ScanInv, FlowFits

\* Every step keeps ScanInv.
LEMMA ScanStep ==
    ASSUME ScanInv, [ScanNext]_scanVars
    PROVE  ScanInv'
<1>1. CASE CreateQR
    BY <1>1, ScanCreates
<1>2. CASE CheckQR \/ ConfirmQR \/ OpenScanDialog \/ SubmitAdd
    BY <1>2, ScanAsks
<1>3. CASE GoOffline \/ GoOnline
    BY <1>3, ScanConnects
<1>4. CASE CloseScanDialog \/ StartBinding \/ BackToForm \/ ContinueBound
    BY <1>4, ScanDialogs
<1>5. CASE PhoneActs
    BY <1>5, ScanPhone
<1>6. ASSUME NEW q \in Scans, FinishConfirm(q)
      PROVE  ScanInv'
    BY <1>6, ScanFinishes
<1>7. ASSUME NEW s \in Slots, LandCreate(s) \/ LandCheck(s) \/ LandConfirm(s) \/ LandStatus(s) \/ LandAdd(s)
      PROVE  ScanInv'
    BY <1>7, ScanLandCreate, ScanLandCheck, ScanLandConfirm, ScanLandStatus, ScanLandAdd
<1>8. ASSUME NEW s \in Slots, ServeStatus(s) \/ ServePoll(s) \/ ServeAdd(s) \/ LoseScanAnswer(s)
      PROVE  ScanInv'
    BY <1>8, ScanServes
<1>9. ASSUME NEW s \in Slots, ServeCreateQR(s) \/ ArriveConfirm(s)
      PROVE  ScanInv'
    BY <1>9, ScanGives, ScanArrives
<1>10. CASE UNCHANGED scanVars
    <2>1. UNCHANGED <<scans, bound, flow, unsettled, adding, scanCalls>>
        BY <1>10 DEF scanVars
    <2> QED BY <2>1 DEF ScanInv
<1> QED BY <1>1, <1>2, <1>3, <1>4, <1>5, <1>6, <1>7, <1>8, <1>9, <1>10 DEF ScanNext

\* What the invariant says of the locks, of what is shown and of what is sent again.
LEMMA ScanShow ==
    ASSUME ScanInv
    PROVE  FlowLocksAreLive /\ OneAddition /\ BoundIsSaved /\ ConfirmIsSettled
<1>1. FlowFits(flow, scanCalls, scans, bound, unsettled) /\ AddFits(scanCalls, adding)
    BY DEF ScanInv
<1>2. FlowLocksAreLive
    BY <1>1 DEF FlowLocksAreLive, FlowFits, OperationFits
<1>3. OneAddition
    <2>1. Waiting(scanCalls, {"add"}) = {s \in Slots : s = adding}
        BY <1>1 DEF AddFits, Waiting
    <2> QED BY <1>1, <2>1, ScanAssumption DEF OneAddition, AddFits
<1>4. BoundIsSaved
    BY <1>1 DEF BoundIsSaved, FlowFits, SavedOnce
<1>5. ConfirmIsSettled
    BY <1>1 DEF ConfirmIsSettled, FlowFits, CanConfirm
<1> QED BY <1>2, <1>3, <1>4, <1>5

-----------------------------------------------------------------------------
(* The inbox: its spinners *)

\* A request of the inbox, and one the header waits for.
InboxCall(call) ==
    /\ "op" \in DOMAIN call
    /\ call.op # "idle" => "answer" \in DOMAIN call
    /\ call.op = "load" => "then" \in DOMAIN call

OfHeader(call) == call.op \in {"readAll", "clear"} \/ (call.op = "load" /\ call.then = "clear")

HeaderCalls(calls) == {s \in Slots : OfHeader(calls[s])}

SpinnersFit(calls, latest, load, more, header) ==
    /\ DOMAIN calls = Slots /\ \A s \in Slots : InboxCall(calls[s])
    /\ latest = None \/ latest \in Slots
    /\ load <=> latest # None /\ calls[latest].op = "load"
    /\ Held(Waiting(calls, {"more"}), more)
    /\ Held(HeaderCalls(calls), header)

InboxInv == SpinnersFit(inboxCalls, newest, loading, loadingMore, clearing)

\* A request that goes on.
GoesOn(call, next) ==
    /\ InboxCall(next) /\ next.op = call.op
    /\ call.op = "load" => next.then = call.then

AllGoOn(calls, after) == DOMAIN after = Slots /\ \A s \in Slots : GoesOn(calls[s], after[s])

\* Requests that go on keep their spinners.
LEMMA SpinnersKept ==
    ASSUME NEW calls, NEW latest, NEW load, NEW more, NEW header, SpinnersFit(calls, latest, load, more, header),
           NEW after, AllGoOn(calls, after)
    PROVE  SpinnersFit(after, latest, load, more, header)
<1>1. DOMAIN after = Slots /\ \A s \in Slots : InboxCall(after[s]) /\ after[s].op = calls[s].op
                                              /\ (OfHeader(after[s]) <=> OfHeader(calls[s]))
    BY DEF AllGoOn, GoesOn, OfHeader
<1>2. Waiting(after, {"more"}) = Waiting(calls, {"more"})
    BY <1>1 DEF Waiting
<1>3. HeaderCalls(after) = HeaderCalls(calls)
    BY <1>1 DEF HeaderCalls
<1>4. Held(Waiting(after, {"more"}), more) /\ Held(HeaderCalls(after), header)
    BY <1>2, <1>3 DEF SpinnersFit
<1>5. load <=> latest # None /\ after[latest].op = "load"
    BY <1>1 DEF SpinnersFit
<1>6. latest = None \/ latest \in Slots
    BY DEF SpinnersFit
<1> QED BY <1>1, <1>4, <1>5, <1>6 DEF SpinnersFit

\* Another step crosses the requests.
LEMMA OverlappedGoOn ==
    ASSUME NEW calls, DOMAIN calls = Slots, \A s \in Slots : InboxCall(calls[s]), NEW after, after = Overlapped(calls)
    PROVE  AllGoOn(calls, after)
<1>1. DOMAIN after = Slots
    BY DEF Overlapped
<1>2. ASSUME NEW s \in Slots
      PROVE  GoesOn(calls[s], after[s])
    <2>1. InboxCall(calls[s])
        OBVIOUS
    <2>2. PICK call : call = calls[s]
        OBVIOUS
    <2>3. PICK next : next = after[s]
        OBVIOUS
    <2>4. CASE call.op = "idle"
        <3>1. next = NoCall
            BY <2>2, <2>3, <2>4 DEF Overlapped
        <3>2. InboxCall(next) /\ next.op = "idle"
            BY <3>1 DEF NoCall, InboxCall
        <3> QED BY <2>2, <2>3, <2>4, <3>2 DEF GoesOn
    <2>5. CASE call.op # "idle"
        <3>1. next = [call EXCEPT !.alone = FALSE]
            BY <2>2, <2>3, <2>5 DEF Overlapped
        <3>2. DOMAIN next = DOMAIN call /\ \A f \in DOMAIN call \ {"alone"} : next[f] = call[f]
            BY <3>1
        <3>3. next.op = call.op /\ (call.op = "load" => next.then = call.then)
            BY <2>1, <2>2, <3>2 DEF InboxCall
        <3>4. InboxCall(next)
            BY <2>1, <2>2, <3>2, <3>3 DEF InboxCall
        <3> QED BY <2>2, <2>3, <3>3, <3>4 DEF GoesOn
    <2> QED BY <2>4, <2>5
<1> QED BY <1>1, <1>2 DEF AllGoOn

\* A request is answered.
LEMMA AnsweredGoOn ==
    ASSUME NEW calls, DOMAIN calls = Slots, \A t \in Slots : InboxCall(calls[t]), NEW s \in Slots, NEW answer, NEW after,
           after = [calls EXCEPT ![s].answer = answer]
    PROVE  AllGoOn(calls, after)
<1>1. /\ DOMAIN after = Slots
      /\ \A t \in Slots \ {s} : after[t] = calls[t]
      /\ DOMAIN after[s] = DOMAIN calls[s]
      /\ \A f \in DOMAIN calls[s] \ {"answer"} : after[s][f] = calls[s][f]
    BY ToldCalls
<1>2. InboxCall(calls[s])
    OBVIOUS
<1>3. after[s].op = calls[s].op /\ (calls[s].op = "load" => after[s].then = calls[s].then)
    BY <1>1, <1>2 DEF InboxCall
<1>4. GoesOn(calls[s], after[s])
    BY <1>1, <1>2, <1>3 DEF GoesOn, InboxCall
<1>5. \A t \in Slots \ {s} : GoesOn(calls[t], after[t])
    BY <1>1 DEF GoesOn
<1> QED BY <1>1, <1>4, <1>5 DEF AllGoOn

\* The spinner a request takes, and the one it leaves as it ends.
TakesSpinner(call, slot, latest, load, more, header, last, spins, mores, headers) ==
    /\ IF call.op = "load" THEN last = slot /\ spins ELSE last = latest /\ (spins <=> load)
    /\ IF call.op = "more" THEN ~more /\ mores ELSE (mores <=> more)
    /\ IF OfHeader(call) THEN ~header /\ headers ELSE (headers <=> header)

LeavesSpinner(call, slot, latest, load, more, header, spins, mores, headers) ==
    /\ IF call.op = "load" /\ slot = latest THEN ~spins ELSE (spins <=> load)
    /\ IF call.op = "more" THEN ~mores ELSE (mores <=> more)
    /\ IF OfHeader(call) THEN ~headers ELSE (headers <=> header)

\* The spinners as a request begins, and as one ends.
LEMMA SpinnersBegin ==
    ASSUME NEW calls, NEW latest, NEW load, NEW more, NEW header, SpinnersFit(calls, latest, load, more, header),
           Free(calls) # {}, NEW call, InboxCall(call), call.op # "idle", NEW after, after = Begin(calls, call),
           NEW last, NEW spins, NEW mores, NEW headers, NEW slot, slot = NextSlot(calls),
           TakesSpinner(call, slot, latest, load, more, header, last, spins, mores, headers)
    PROVE  SpinnersFit(after, last, spins, mores, headers)
<1>1. DOMAIN after = Slots /\ slot \in Slots /\ calls[slot].op = "idle"
      /\ \A t \in Slots : after[t] = IF t = slot THEN call ELSE calls[t]
    BY BegunCalls DEF SpinnersFit
<1>2. \A t \in Slots : InboxCall(after[t])
    BY <1>1 DEF SpinnersFit
<1>3. last = None \/ last \in Slots
    BY <1>1 DEF SpinnersFit, TakesSpinner
<1>4. spins <=> last # None /\ after[last].op = "load"
    <2>1. CASE call.op = "load"
        BY <1>1, <2>1, InboxAssumption DEF TakesSpinner
    <2>2. CASE call.op # "load"
        BY <1>1, <2>2 DEF TakesSpinner, SpinnersFit
    <2> QED BY <2>1, <2>2
<1>5. Held(Waiting(after, {"more"}), mores)
    <2>0. Held(Waiting(calls, {"more"}), more)
        BY DEF SpinnersFit
    <2>1. CASE call.op = "more"
        <3>1. Waiting(after, {"more"}) = Waiting(calls, {"more"}) \cup {slot}
            BY <1>1, <2>1 DEF Waiting
        <3>2. PICK S : S = Waiting(calls, {"more"})
            OBVIOUS
        <3>3. PICK T : T = Waiting(after, {"more"})
            OBVIOUS
        <3>4. Held(S, more) /\ ~more /\ mores /\ T = S \cup {slot}
            BY <2>0, <2>1, <3>1, <3>2, <3>3 DEF TakesSpinner
        <3>5. Held(T, mores)
            BY <3>4 DEF Held
        <3> QED BY <3>3, <3>5
    <2>2. CASE call.op # "more"
        <3>1. Waiting(after, {"more"}) = Waiting(calls, {"more"})
            BY <1>1, <2>2 DEF Waiting
        <3> QED BY <2>0, <2>2, <3>1 DEF TakesSpinner, Held
    <2> QED BY <2>1, <2>2
<1>6. Held(HeaderCalls(after), headers)
    <2>0. Held(HeaderCalls(calls), header) /\ ~OfHeader(calls[slot])
        BY <1>1 DEF SpinnersFit, OfHeader
    <2>1. CASE OfHeader(call)
        <3>1. HeaderCalls(after) = HeaderCalls(calls) \cup {slot}
            BY <1>1, <2>1 DEF HeaderCalls
        <3>2. PICK S : S = HeaderCalls(calls)
            OBVIOUS
        <3>3. PICK T : T = HeaderCalls(after)
            OBVIOUS
        <3>4. Held(S, header) /\ ~header /\ headers /\ T = S \cup {slot}
            BY <2>0, <2>1, <3>1, <3>2, <3>3 DEF TakesSpinner
        <3>5. Held(T, headers)
            BY <3>4 DEF Held
        <3> QED BY <3>3, <3>5
    <2>2. CASE ~OfHeader(call)
        <3>1. HeaderCalls(after) = HeaderCalls(calls)
            BY <1>1, <2>0, <2>2 DEF HeaderCalls
        <3> QED BY <2>0, <2>2, <3>1 DEF TakesSpinner, Held
    <2> QED BY <2>1, <2>2
<1> QED BY <1>1, <1>2, <1>3, <1>4, <1>5, <1>6 DEF SpinnersFit

LEMMA SpinnersEnd ==
    ASSUME NEW calls, NEW latest, NEW load, NEW more, NEW header, SpinnersFit(calls, latest, load, more, header),
           NEW s \in Slots, NEW after, after = End(calls, s),
           NEW spins, NEW mores, NEW headers, LeavesSpinner(calls[s], s, latest, load, more, header, spins, mores, headers)
    PROVE  SpinnersFit(after, latest, spins, mores, headers)
<1>1. DOMAIN after = Slots /\ \A t \in Slots : after[t] = IF t = s THEN NoCall ELSE calls[t]
    BY EndedCalls DEF SpinnersFit
<1>2. /\ after[s].op = "idle" /\ InboxCall(after[s]) /\ ~OfHeader(after[s])
      /\ \A t \in Slots \ {s} : after[t] = calls[t]
    BY <1>1 DEF NoCall, InboxCall, OfHeader
<1>3. \A t \in Slots : InboxCall(after[t])
    BY <1>2 DEF SpinnersFit
<1>4. latest = None \/ latest \in Slots
    BY DEF SpinnersFit
<1>5. spins <=> latest # None /\ after[latest].op = "load"
    BY <1>2, <1>4 DEF SpinnersFit, LeavesSpinner
<1>6. Held(Waiting(after, {"more"}), mores)
    <2>0. Held(Waiting(calls, {"more"}), more)
        BY DEF SpinnersFit
    <2>1. Waiting(after, {"more"}) = Waiting(calls, {"more"}) \ {s}
        BY <1>2 DEF Waiting
    <2>2. PICK S : S = Waiting(calls, {"more"})
        OBVIOUS
    <2>3. PICK T : T = Waiting(after, {"more"})
        OBVIOUS
    <2>4. s \in S <=> calls[s].op = "more"
        BY <2>2 DEF Waiting
    <2>5. Held(S, more) /\ T = S \ {s} /\ (IF s \in S THEN ~mores ELSE (mores <=> more))
        BY <2>0, <2>1, <2>2, <2>3, <2>4 DEF LeavesSpinner
    <2>6. Held(T, mores)
        BY <2>5 DEF Held
    <2> QED BY <2>3, <2>6
<1>7. Held(HeaderCalls(after), headers)
    <2>0. Held(HeaderCalls(calls), header)
        BY DEF SpinnersFit
    <2>1. HeaderCalls(after) = HeaderCalls(calls) \ {s}
        BY <1>2 DEF HeaderCalls
    <2>2. PICK S : S = HeaderCalls(calls)
        OBVIOUS
    <2>3. PICK T : T = HeaderCalls(after)
        OBVIOUS
    <2>4. s \in S <=> OfHeader(calls[s])
        BY <2>2 DEF HeaderCalls
    <2>5. Held(S, header) /\ T = S \ {s} /\ (IF s \in S THEN ~headers ELSE (headers <=> header))
        BY <2>0, <2>1, <2>2, <2>3, <2>4 DEF LeavesSpinner
    <2>6. Held(T, headers)
        BY <2>5 DEF Held
    <2> QED BY <2>3, <2>6
<1> QED BY <1>1, <1>3, <1>4, <1>5, <1>6, <1>7 DEF SpinnersFit

\* Steps that send nothing and end nothing.
LEMMA InboxGoesOn ==
    ASSUME InboxInv, NEW after, after = inboxCalls', AllGoOn(inboxCalls, after),
           UNCHANGED <<newest, loading, loadingMore, clearing>>
    PROVE  InboxInv'
<1>1. SpinnersFit(after, newest, loading, loadingMore, clearing)
    BY SpinnersKept DEF InboxInv
<1> QED BY <1>1 DEF InboxInv

LEMMA InboxStays ==
    ASSUME InboxInv, UNCHANGED <<inboxCalls, newest, loading, loadingMore, clearing>>
    PROVE  InboxInv'
BY DEF InboxInv

\* The page or the stream spins, or the reload of a clear follows it.
LEMMA InboxLoads ==
    ASSUME NEW calls, NEW header, SpinnersFit(calls, newest, loading, loadingMore, header), NEW f, NEW then,
           StartLoad(f, then, calls), UNCHANGED loadingMore,
           IF then = "clear" THEN ~header /\ clearing' ELSE (clearing' <=> header)
    PROVE  InboxInv'
<1>1. PICK call : call = [op |-> "load", status |-> f, after |-> None, then |-> then,
                          answer |-> Unanswered, alone |-> Undisturbed(calls)]
    OBVIOUS
<1>2. Free(calls) # {} /\ inboxCalls' = Begin(calls, call) /\ newest' = NextSlot(calls) /\ loading'
    BY <1>1 DEF StartLoad, Send
<1>3. InboxCall(call) /\ call.op = "load" /\ call.then = then
    BY <1>1 DEF InboxCall
<1>4. PICK slot : slot = NextSlot(calls)
    OBVIOUS
<1>5. PICK after : after = inboxCalls'
    OBVIOUS
<1>6. PICK last : last = newest'
    OBVIOUS
<1>7. PICK spins : spins = loading'
    OBVIOUS
<1>8. PICK mores : mores = loadingMore'
    OBVIOUS
<1>9. PICK headers : headers = clearing'
    OBVIOUS
<1>10. TakesSpinner(call, slot, newest, loading, loadingMore, header, last, spins, mores, headers)
    <2>1. last = slot /\ spins
        BY <1>2, <1>4, <1>6, <1>7
    <2>2. mores <=> loadingMore
        BY <1>8
    <2>3. IF OfHeader(call) THEN ~header /\ headers ELSE (headers <=> header)
        BY <1>3, <1>9 DEF OfHeader
    <2> QED BY <1>3, <2>1, <2>2, <2>3 DEF TakesSpinner
<1>11. SpinnersFit(after, last, spins, mores, headers)
    BY <1>2, <1>3, <1>4, <1>5, <1>10, SpinnersBegin
<1> QED BY <1>5, <1>6, <1>7, <1>8, <1>9, <1>11 DEF InboxInv

\* The page asks for more, or a request of a row or of the header.
LEMMA InboxAsks ==
    ASSUME InboxInv, NEW call, Send(Overlapped(inboxCalls), call), InboxCall(call), call.op \in {"more", "read", "readAll", "clear"},
           UNCHANGED <<newest, loading>>,
           IF call.op = "more" THEN ~loadingMore /\ loadingMore' ELSE loadingMore' = loadingMore,
           IF call.op \in {"readAll", "clear"} THEN ~clearing /\ clearing' ELSE clearing' = clearing
    PROVE  InboxInv'
<1>1. PICK mid : mid = Overlapped(inboxCalls)
    OBVIOUS
<1>2. DOMAIN inboxCalls = Slots /\ \A s \in Slots : InboxCall(inboxCalls[s])
    BY DEF InboxInv, SpinnersFit
<1>3. AllGoOn(inboxCalls, mid)
    BY <1>1, <1>2, OverlappedGoOn
<1>4. SpinnersFit(mid, newest, loading, loadingMore, clearing)
    BY <1>3, SpinnersKept DEF InboxInv
<1>5. Free(mid) # {} /\ inboxCalls' = Begin(mid, call)
    BY <1>1 DEF Send
<1>6. PICK slot : slot = NextSlot(mid)
    OBVIOUS
<1>7. PICK after : after = inboxCalls'
    OBVIOUS
<1>8. PICK mores : mores = loadingMore'
    OBVIOUS
<1>9. PICK headers : headers = clearing'
    OBVIOUS
<1>10. TakesSpinner(call, slot, newest, loading, loadingMore, clearing, newest, loading, mores, headers)
    <2>1. OfHeader(call) <=> call.op \in {"readAll", "clear"}
        BY DEF OfHeader
    <2>2. IF call.op = "more" THEN ~loadingMore /\ mores ELSE (mores <=> loadingMore)
        BY <1>8
    <2>3. IF OfHeader(call) THEN ~clearing /\ headers ELSE (headers <=> clearing)
        BY <1>9, <2>1
    <2> QED BY <2>2, <2>3 DEF TakesSpinner
<1>11. SpinnersFit(after, newest, loading, mores, headers)
    BY <1>4, <1>5, <1>6, <1>7, <1>10, SpinnersBegin
<1> QED BY <1>7, <1>8, <1>9, <1>11 DEF InboxInv

\* A request ends.
LEMMA InboxEnds ==
    ASSUME InboxInv, NEW s \in Slots, inboxCalls' = End(inboxCalls, s), UNCHANGED newest,
           IF inboxCalls[s].op = "load" /\ s = newest THEN ~loading' ELSE loading' <=> loading,
           IF inboxCalls[s].op = "more" THEN ~loadingMore' ELSE loadingMore' <=> loadingMore,
           IF OfHeader(inboxCalls[s]) THEN ~clearing' ELSE clearing' <=> clearing
    PROVE  InboxInv'
<1>1. PICK after : after = inboxCalls'
    OBVIOUS
<1>2. PICK spins : spins = loading'
    OBVIOUS
<1>3. PICK mores : mores = loadingMore'
    OBVIOUS
<1>4. PICK headers : headers = clearing'
    OBVIOUS
<1>5. LeavesSpinner(inboxCalls[s], s, newest, loading, loadingMore, clearing, spins, mores, headers)
    <2>1. IF inboxCalls[s].op = "load" /\ s = newest THEN ~spins ELSE spins <=> loading
        BY <1>2
    <2>2. IF inboxCalls[s].op = "more" THEN ~mores ELSE mores <=> loadingMore
        BY <1>3
    <2>3. IF OfHeader(inboxCalls[s]) THEN ~headers ELSE headers <=> clearing
        BY <1>4
    <2> QED BY <2>1, <2>2, <2>3 DEF LeavesSpinner
<1>6. SpinnersFit(after, newest, spins, mores, headers)
    BY <1>1, <1>5, SpinnersEnd DEF InboxInv
<1> QED BY <1>1, <1>2, <1>3, <1>4, <1>6 DEF InboxInv

\* The answers.
LEMMA InboxLands ==
    ASSUME InboxInv, NEW s \in Slots,
           LandLoad(s) \/ LandMore(s) \/ LandRead(s) \/ LandReadAll(s) \/ LandClear(s)
    PROVE  InboxInv'
<1>1. CASE LandLoad(s)
    <2>1. inboxCalls[s].op = "load" /\ inboxCalls' = End(inboxCalls, s) /\ UNCHANGED <<newest, loadingMore>>
        BY <1>1 DEF LandLoad, FinishRead
    <2>2. loading' = (loading /\ ~Current(s)) /\ clearing' = (clearing /\ inboxCalls[s].then # "clear")
        BY <1>1 DEF LandLoad
    <2>3. IF s = newest THEN ~loading' ELSE loading' <=> loading
        BY <2>2 DEF Current
    <2>4. IF OfHeader(inboxCalls[s]) THEN ~clearing' ELSE clearing' <=> clearing
        BY <2>1, <2>2 DEF OfHeader
    <2> QED BY <2>1, <2>3, <2>4, InboxEnds
<1>2. CASE LandMore(s)
    <2>1. inboxCalls[s].op = "more" /\ inboxCalls' = End(inboxCalls, s) /\ UNCHANGED <<newest, loading, clearing>>
          /\ ~loadingMore'
        BY <1>2 DEF LandMore, FinishRead, page
    <2>2. ~OfHeader(inboxCalls[s])
        BY <2>1 DEF OfHeader
    <2> QED BY <2>1, <2>2, InboxEnds
<1>3. CASE LandRead(s)
    <2>1. inboxCalls[s].op = "read" /\ inboxCalls' = End(inboxCalls, s) /\ UNCHANGED <<newest, loading, loadingMore, clearing>>
        BY <1>3 DEF LandRead, FinishRead, view, page
    <2>2. ~OfHeader(inboxCalls[s])
        BY <2>1 DEF OfHeader
    <2> QED BY <2>1, <2>2, InboxEnds
<1>4. CASE LandReadAll(s)
    <2>1. inboxCalls[s].op = "readAll" /\ inboxCalls' = End(inboxCalls, s) /\ UNCHANGED <<newest, loading, loadingMore>>
          /\ ~clearing'
        BY <1>4 DEF LandReadAll, FinishRead, view
    <2>2. OfHeader(inboxCalls[s])
        BY <2>1 DEF OfHeader
    <2> QED BY <2>1, <2>2, InboxEnds
<1>5. CASE LandClear(s)
    <2>0. inboxCalls[s].op = "clear" /\ UNCHANGED loadingMore
        BY <1>5 DEF LandClear
    <2>1. CASE StartLoad(filter, "clear", End(inboxCalls, s)) /\ UNCHANGED clearing
        <3>1. PICK mid : mid = End(inboxCalls, s)
            OBVIOUS
        <3>2. OfHeader(inboxCalls[s])
            BY <2>0 DEF OfHeader
        <3>3. LeavesSpinner(inboxCalls[s], s, newest, loading, loadingMore, clearing, loading, loadingMore, FALSE)
            BY <2>0, <3>2 DEF LeavesSpinner
        <3>4. SpinnersFit(mid, newest, loading, loadingMore, FALSE)
            BY <3>1, <3>3, SpinnersEnd DEF InboxInv
        <3>5. PICK header : header = FALSE
            OBVIOUS
        <3>6. SpinnersFit(mid, newest, loading, loadingMore, header)
            BY <3>4, <3>5
        <3>7. clearing
            BY <3>2 DEF InboxInv, SpinnersFit, Held, HeaderCalls
        <3>8. PICK then : then = "clear"
            OBVIOUS
        <3>9. StartLoad(filter, then, mid) /\ clearing'
            BY <2>1, <3>1, <3>7, <3>8
        <3>10. IF then = "clear" THEN ~header /\ clearing' ELSE (clearing' <=> header)
            BY <3>5, <3>8, <3>9
        <3> QED BY <2>0, <3>6, <3>9, <3>10, InboxLoads
    <2>2. CASE FinishRead(s) /\ ~clearing' /\ UNCHANGED <<newest, loading>>
        <3>1. OfHeader(inboxCalls[s])
            BY <2>0 DEF OfHeader
        <3> QED BY <2>0, <2>2, <3>1, InboxEnds DEF FinishRead
    <2> QED BY <1>5, <2>1, <2>2 DEF LandClear
<1> QED BY <1>1, <1>2, <1>3, <1>4, <1>5

\* What the user asks for.
LEMMA InboxUser ==
    ASSUME InboxInv, \/ LoadMore \/ ReadAll \/ ClearResolved \/ BackToList
                     \/ \E n \in Notices : OpenNotice(n)
                     \/ \E f \in Filters : VisitInbox(f)
    PROVE  InboxInv'
<1>1. CASE LoadMore
    <2>1. PICK call : call = [op |-> "more", status |-> filter, after |-> cursor, answer |-> Unanswered, alone |-> FALSE]
        OBVIOUS
    <2>2. Send(Overlapped(inboxCalls), call) /\ UNCHANGED <<newest, loading, clearing>> /\ ~loadingMore /\ loadingMore'
        BY <1>1, <2>1 DEF LoadMore, page
    <2>3. InboxCall(call) /\ call.op = "more"
        BY <2>1 DEF InboxCall
    <2> QED BY <2>2, <2>3, InboxAsks
<1>2. CASE ReadAll \/ ClearResolved
    <2>1. PICK op \in {"readAll", "clear"} : HeaderCall(op)
        BY <1>2 DEF ReadAll, ClearResolved
    <2>2. PICK call : call = [op |-> op, answer |-> Unanswered, alone |-> FALSE]
        OBVIOUS
    <2>3. Send(Overlapped(inboxCalls), call) /\ UNCHANGED <<newest, loading, loadingMore>> /\ ~clearing /\ clearing'
        BY <2>1, <2>2 DEF HeaderCall, view
    <2>4. InboxCall(call) /\ call.op \in {"readAll", "clear"}
        BY <2>2 DEF InboxCall
    <2> QED BY <2>3, <2>4, InboxAsks
<1>3. CASE BackToList
    BY <1>3, InboxStays DEF BackToList, view, Stay
<1>4. ASSUME NEW n \in Notices, OpenNotice(n)
      PROVE  InboxInv'
    <2>0. UNCHANGED <<newest, loading, loadingMore, clearing>>
        BY <1>4 DEF OpenNotice, view
    <2>1. CASE Stay
        BY <2>0, <2>1, InboxStays DEF Stay
    <2>2. CASE Send(Overlapped(inboxCalls), [op |-> "read", id |-> n, alone |-> FALSE, answer |-> Unanswered])
        <3>1. PICK call : call = [op |-> "read", id |-> n, alone |-> FALSE, answer |-> Unanswered]
            OBVIOUS
        <3>2. Send(Overlapped(inboxCalls), call)
            BY <2>2, <3>1
        <3>3. InboxCall(call) /\ call.op = "read"
            BY <3>1 DEF InboxCall
        <3> QED BY <2>0, <3>2, <3>3, InboxAsks
    <2> QED BY <1>4, <2>1, <2>2 DEF OpenNotice
<1>5. ASSUME NEW f \in Filters, VisitInbox(f)
      PROVE  InboxInv'
    <2>1. PICK then : then = "nothing"
        OBVIOUS
    <2>2. PICK calls : calls = inboxCalls
        OBVIOUS
    <2>3. PICK header : header = clearing
        OBVIOUS
    <2>4. StartLoad(f, then, calls) /\ UNCHANGED <<loadingMore, clearing>>
        BY <1>5, <2>1, <2>2 DEF VisitInbox
    <2>5. SpinnersFit(calls, newest, loading, loadingMore, header)
        BY <2>2, <2>3 DEF InboxInv
    <2>6. IF then = "clear" THEN ~header /\ clearing' ELSE (clearing' <=> header)
        BY <2>1, <2>3, <2>4
    <2> QED BY <2>4, <2>5, <2>6, InboxLoads
<1> QED BY <1>1, <1>2, <1>3, <1>4, <1>5

\* The stream, the backend and its answers.
LEMMA InboxHears ==
    ASSUME InboxInv, \/ BreakStream \/ ReopenStream \/ ReceiveNotice
                     \/ \E n \in Notices : NewNotice(n) \/ RepeatNotice(n) \/ ResolveNotice(n)
                     \/ \E s \in Slots : ServeInbox(s) \/ LoseInboxAnswer(s)
    PROVE  InboxInv'
<1>0. DOMAIN inboxCalls = Slots /\ \A s \in Slots : InboxCall(inboxCalls[s])
    BY DEF InboxInv, SpinnersFit
<1>1. PICK after : after = inboxCalls'
    OBVIOUS
<1>2. CASE BreakStream
    BY <1>2, InboxStays DEF BreakStream, view, page
<1>3. CASE ReopenStream
    <2>0. UNCHANGED <<loadingMore, clearing>>
        BY <1>3 DEF ReopenStream, page
    <2>1. CASE StartLoad(filter, "nothing", inboxCalls)
        <3>1. PICK then : then = "nothing"
            OBVIOUS
        <3>2. PICK calls : calls = inboxCalls
            OBVIOUS
        <3>3. PICK header : header = clearing
            OBVIOUS
        <3>4. StartLoad(filter, then, calls)
            BY <2>1, <3>1, <3>2
        <3>5. SpinnersFit(calls, newest, loading, loadingMore, header)
            BY <3>2, <3>3 DEF InboxInv
        <3>6. IF then = "clear" THEN ~header /\ clearing' ELSE (clearing' <=> header)
            BY <2>0, <3>1, <3>3
        <3> QED BY <2>0, <3>4, <3>5, <3>6, InboxLoads
    <2>2. CASE Stay /\ UNCHANGED <<newest, loading>>
        BY <2>0, <2>2, InboxStays DEF Stay
    <2> QED BY <1>3, <2>1, <2>2 DEF ReopenStream
<1>4. CASE ReceiveNotice
    <2>1. inboxCalls' = Overlapped(inboxCalls) /\ UNCHANGED <<newest, loading, loadingMore, clearing>>
        BY <1>4 DEF ReceiveNotice, view, page
    <2>2. AllGoOn(inboxCalls, after)
        BY <1>0, <1>1, <2>1, OverlappedGoOn
    <2> QED BY <1>1, <2>1, <2>2, InboxGoesOn
<1>5. ASSUME NEW n \in Notices, NewNotice(n) \/ RepeatNotice(n) \/ ResolveNotice(n)
      PROVE  InboxInv'
    <2>1. inboxCalls' = Overlapped(inboxCalls) /\ UNCHANGED <<newest, loading, loadingMore, clearing>>
        BY <1>5 DEF NewNotice, RepeatNotice, ResolveNotice, Publish, view, page
    <2>2. AllGoOn(inboxCalls, after)
        BY <1>0, <1>1, <2>1, OverlappedGoOn
    <2> QED BY <1>1, <2>1, <2>2, InboxGoesOn
<1>6. ASSUME NEW s \in Slots, ServeInbox(s) \/ LoseInboxAnswer(s)
      PROVE  InboxInv'
    <2>1. UNCHANGED <<newest, loading, loadingMore, clearing>>
        BY <1>6 DEF ServeInbox, LoseInboxAnswer, view, page
    <2>2. PICK answer : inboxCalls' = [inboxCalls EXCEPT ![s].answer = answer]
        BY <1>6 DEF ServeInbox, Answer, LoseInboxAnswer, LoseAnswer
    <2>3. AllGoOn(inboxCalls, after)
        BY <1>0, <1>1, <2>2, AnsweredGoOn
    <2> QED BY <1>1, <2>1, <2>3, InboxGoesOn
<1> QED BY <1>2, <1>3, <1>4, <1>5, <1>6

\* InboxInv holds of a page that was just opened, and every step keeps it.
LEMMA InboxStart ==
    ASSUME InboxInit
    PROVE  InboxInv
<1>1. DOMAIN inboxCalls = Slots /\ \A s \in Slots : inboxCalls[s] = NoCall
    BY DEF InboxInit, NoCalls
<1>2. \A s \in Slots : InboxCall(inboxCalls[s]) /\ inboxCalls[s].op = "idle"
    BY <1>1 DEF NoCall, InboxCall
<1>3. newest = None /\ ~loading /\ ~loadingMore /\ ~clearing
    BY DEF InboxInit
<1>4. Waiting(inboxCalls, {"more"}) = {} /\ HeaderCalls(inboxCalls) = {}
    BY <1>2 DEF Waiting, HeaderCalls, OfHeader
<1>5. Held(Waiting(inboxCalls, {"more"}), loadingMore) /\ Held(HeaderCalls(inboxCalls), clearing)
    BY <1>3, <1>4 DEF Held
<1> QED BY <1>1, <1>2, <1>3, <1>5 DEF InboxInv, SpinnersFit

\* And every step keeps it.
LEMMA InboxStep ==
    ASSUME InboxInv, [InboxNext]_inboxVars
    PROVE  InboxInv'
<1>1. CASE \/ LoadMore \/ ReadAll \/ ClearResolved \/ BackToList
           \/ \E n \in Notices : OpenNotice(n)
           \/ \E f \in Filters : VisitInbox(f)
    BY <1>1, InboxUser
<1>2. CASE \/ BreakStream \/ ReopenStream \/ ReceiveNotice
           \/ \E n \in Notices : NewNotice(n) \/ RepeatNotice(n) \/ ResolveNotice(n)
           \/ \E s \in Slots : ServeInbox(s) \/ LoseInboxAnswer(s)
    BY <1>2, InboxHears
<1>3. ASSUME NEW s \in Slots, LandLoad(s) \/ LandMore(s) \/ LandRead(s) \/ LandReadAll(s) \/ LandClear(s)
      PROVE  InboxInv'
    BY <1>3, InboxLands
<1>4. CASE UNCHANGED inboxVars
    BY <1>4, InboxStays DEF inboxVars
<1> QED BY <1>1, <1>2, <1>3, <1>4 DEF InboxNext

\* What the invariant says of the spinners.
LEMMA InboxShow ==
    ASSUME InboxInv
    PROVE  InboxSpinnersAreLive
<1>1. /\ loading <=> newest # None /\ inboxCalls[newest].op = "load"
      /\ loadingMore <=> Waiting(inboxCalls, {"more"}) # {}
      /\ clearing <=> HeaderCalls(inboxCalls) # {}
    BY DEF InboxInv, SpinnersFit, Held
<1>2. HeaderCalls(inboxCalls) # {} <=> \E s \in Busy(inboxCalls) :
                       \/ inboxCalls[s].op \in {"readAll", "clear"}
                       \/ inboxCalls[s].op = "load" /\ inboxCalls[s].then = "clear"
    BY DEF HeaderCalls, OfHeader, Busy
<1> QED BY <1>1, <1>2 DEF InboxSpinnersAreLive

-----------------------------------------------------------------------------
(* The account's pages together *)

\* What holds of the part a behaviour is about; the others stay as they were opened.
AccountInv ==
    /\ part = "card" => CardInv
    /\ part = "scan" => ScanInv
    /\ part = "settings" => SettingsInv
    /\ part = "watch" => WatchInv
    /\ part = "inbox" => InboxInv

\* AccountInv holds of pages that were just opened, and every step keeps it.
LEMMA AccountStart == MCInit => AccountInv
BY CardStart, ScanStart, SettingsStart, WatchInitially, InboxStart DEF MCInit, AccountInv

LEMMA AccountStep ==
    ASSUME AccountInv, [MCNext]_accountVars
    PROVE  AccountInv'
<1>1. CASE part = "binding" /\ part' = part
    BY <1>1 DEF AccountInv
<1>2. CASE part = "card" /\ part' = part /\ [CardNext]_cardVars
    BY <1>2, CardStep DEF AccountInv
<1>3. CASE part = "scan" /\ part' = part /\ [ScanNext]_scanVars
    BY <1>3, ScanStep DEF AccountInv
<1>4. CASE part = "settings" /\ part' = part /\ [SettingsNext]_settingsVars
    BY <1>4, SettingsStep DEF AccountInv
<1>5. CASE part = "watch" /\ part' = part /\ [WatchNext]_watchVars
    BY <1>5, WatchInductive DEF AccountInv
<1>6. CASE part = "inbox" /\ part' = part /\ [InboxNext]_inboxVars
    BY <1>6, InboxStep DEF AccountInv
<1>7. CASE UNCHANGED accountVars
    <2>1. UNCHANGED <<part, cardVars, scanVars, settingsVars, watchVars, inboxVars>>
        BY <1>7 DEF accountVars
    <2>2. /\ CardInv => CardInv' 
          /\ ScanInv => ScanInv'
          /\ SettingsInv => SettingsInv'
          /\ WatchInv => WatchInv'
          /\ InboxInv => InboxInv'
        BY <2>1, CardStep, ScanStep, SettingsStep, WatchInductive, InboxStep
    <2> QED BY <2>1, <2>2 DEF AccountInv
<1> QED BY <1>1, <1>2, <1>3, <1>4, <1>5, <1>6, <1>7 DEF MCNext

\* The invariants of the pages hold in every behaviour of the account's pages.
THEOREM AccountInvariance == MCSpec => []AccountInv
<1>1. AccountInv /\ [MCNext]_accountVars => AccountInv'
    BY AccountStep
<1> QED BY <1>1, AccountStart, PTL DEF MCSpec

\* Every spinner, lock and poll of the account's pages belongs to a request that is on its
\* way, for every number of handlers that wait (wxpusher-channel-card.tsx:188-200,
\* yyb-binding-flow.tsx:89-123, add-pile-dialog.tsx:120-162, account-workbench.tsx:235-297,
\* account-security-panel.tsx:54-75, watch-context.tsx:85-113,
\* notification-context.tsx:127-155).
THEOREM AccountLocksAreLive == MCSpec => []PagesLocksAreLive
<1>1. AccountInv => PagesLocksAreLive
    <2>1. CardInv => OnePoll /\ CardLocksAreLive
        BY CardShow
    <2>2. ScanInv => FlowLocksAreLive /\ OneAddition
        BY ScanShow
    <2>3. SettingsInv => SettingsLocksAreLive
        BY SettingsShow
    <2>4. WatchInv => OneWatchLoad /\ LocksAreLive
        BY OneLoadWaits DEF WatchInv
    <2>5. InboxInv => InboxSpinnersAreLive
        BY InboxShow
    <2> QED BY <2>1, <2>2, <2>3, <2>4, <2>5 DEF AccountInv, PagesLocksAreLive
<1> QED BY <1>1, AccountInvariance, PTL

\* What the card, the account's workbench and the list of its devices show is what the
\* backend has once nothing is on its way and nothing crossed, was lost or came from
\* elsewhere; what a scan calls bound was saved for its code, a confirmation whose end was
\* not heard is asked about before it is sent again, and the guide is read once
\* (wxpusher-channel-card.tsx:352-432, account-workbench.tsx:207-336,
\* account-security-panel.tsx:54-84, yyb-binding-flow.tsx:140-214,
\* usage-guide-dialog.tsx:125-189).
THEOREM AccountStaysCurrent == MCSpec => []AccountIsCurrent
<1>1. AccountInv => AccountIsCurrent
    <2>1. CardInv => SettingsAreCurrent
        BY CardShow
    <2>2. ScanInv => BoundIsSaved /\ ConfirmIsSettled
        BY ScanShow
    <2>3. SettingsInv => BindingIsCurrent /\ SessionsAreCurrent /\ GuideIsRead
        BY SettingsShow
    <2> QED BY <2>1, <2>2, <2>3 DEF AccountInv, AccountIsCurrent
<1> QED BY <1>1, AccountInvariance, PTL
=============================================================================
