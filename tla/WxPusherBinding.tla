----------------------------- MODULE WxPusherBinding -----------------------------
(***************************************************************************)
(* How users bind a WeChat receiver (a WxPusher UID): QR-code sessions are  *)
(* created, shown, scanned and polled; a scan becomes the user's binding;   *)
(* the binding is switched or deleted.                                      *)
(*                                                                         *)
(* Every HTTP handler is a request of its own.  wxPusherMu is held between *)
(* a load and the save that follows it, but neither across a call of the   *)
(* provider nor by DeleteWxPusherChannel.                                   *)
(***************************************************************************)
EXTENDS Integers, FiniteSets

CONSTANTS
    Users,
    Uids,           \* WeChat receivers
    Sessions,       \* bound: the QR codes that may be created
    Requests,       \* bound: handlers that run at once
    MaxFaults,      \* bound: provider errors
    NoUid, NoUser, NoSession

ASSUME BindingAssumption ==
    /\ NoUid \notin Uids /\ NoUser \notin Users /\ NoSession \notin Sessions
    /\ MaxFaults \in Nat

VARIABLES
    binding,        \* wxpusher_bindings: the UID of each user, or NoUid
    session,        \* wxpusher_bind_sessions
    scanned,        \* provider: who scanned the QR code of a session
    request,        \* the HTTP handlers
    wxPusherMu,     \* whether it is held
    faults

vars == <<binding, session, scanned, request, wxPusherMu, faults>>

-----------------------------------------------------------------------------

\* A row is open until it has completed_at, also after its expiry.
NoRow == [user |-> NoUser, open |-> FALSE, expired |-> FALSE]
Rows == [user: Users \cup {NoUser}, open: BOOLEAN, expired: BOOLEAN]

Idle == [pc |-> "idle", user |-> NoUser, session |-> NoSession, uid |-> NoUid]
Pcs == {"idle", "qrcode", "store", "update", "delay", "query", "bind", "fail"}
Saving == {"delay", "update"}
Goto(r, pc) == request' = [request EXCEPT ![r] = [@ EXCEPT !.pc = pc]]
Finish(r) == request' = [request EXCEPT ![r] = Idle]
ReleaseNever == UNCHANGED wxPusherMu        \* faulty: an early return without the unlock
Release == wxPusherMu' = FALSE

SetOpen(s, open) == session' = [session EXCEPT ![s] = [@ EXCEPT !.open = open]]

OwnsAny(u, s) == TRUE                       \* faulty: a session is found by its id alone
Owns(u, s) == session[s].user = u

\* The unique indexes of the two tables: one owner of a UID, one open session of
\* a user.
Unchecked(u, uid) == TRUE                   \* faulty: the UID is not unique
Unowned(u, uid) == \A v \in Users \ {u} : binding[v] # uid
NotChecked(u, s) == TRUE                    \* faulty: only the first check counts
NoOther(u, s) == \A o \in Sessions \ {s} : ~(session[o].user = u /\ session[o].open)

-----------------------------------------------------------------------------
(* CreateWxPusherBindSession *)

\* Under the mutex, expired sessions are completed and a binding or an open
\* session refuses the request; so may the rate limits.
CheckCreate(r, u) ==
    /\ request[r] = Idle /\ ~wxPusherMu
    /\ session' = [s \in Sessions |-> IF session[s].user = u /\ session[s].expired
                                      THEN [session[s] EXCEPT !.open = FALSE] ELSE session[s]]
    /\ \/ UNCHANGED request
       \/ /\ binding[u] = NoUid
          /\ \A s \in Sessions : session'[s].user = u => ~session'[s].open
          /\ \E s \in Sessions :
                /\ session[s] = NoRow /\ \A q \in Requests : request[q].session # s
                /\ request' = [request EXCEPT ![r] =
                      [Idle EXCEPT !.pc = "qrcode", !.user = u, !.session = s]]
    /\ UNCHANGED <<binding, scanned, wxPusherMu, faults>>

\* The provider makes a QR code, or fails and the request with it.
CreateQRCode(r) ==
    /\ request[r].pc = "qrcode"
    /\ \/ Goto(r, "store") /\ UNCHANGED faults
       \/ faults < MaxFaults /\ faults' = faults + 1 /\ Finish(r)
    /\ UNCHANGED <<binding, session, scanned, wxPusherMu>>

\* The insert fails when another request of the user has opened a session.
StoreSession(r) ==
    LET s == request[r].session
        u == request[r].user
    IN /\ request[r].pc = "store"
       /\ IF NoOther(u, s)
          THEN session' = [session EXCEPT ![s] = [user |-> u, open |-> TRUE, expired |-> FALSE]]
          ELSE UNCHANGED session
       /\ Finish(r)
       /\ UNCHANGED <<binding, scanned, wxPusherMu, faults>>

-----------------------------------------------------------------------------
(* PollWxPusherBindSession *)

\* The session is loaded under the mutex.  A closed one ends the request, and so
\* does one that was polled a moment ago; an expired one is completed.
LoadSession(r, u, s) ==
    /\ request[r] = Idle /\ ~wxPusherMu
    /\ session[s] # NoRow /\ Owns(u, s) /\ session[s].open
    /\ IF session[s].expired
       THEN SetOpen(s, FALSE) /\ UNCHANGED <<request, wxPusherMu>>
       ELSE /\ request' = [request EXCEPT ![r] =
                 [Idle EXCEPT !.pc = "delay", !.user = u, !.session = s]]
            /\ wxPusherMu' = TRUE /\ UNCHANGED session
    /\ UNCHANGED <<binding, scanned, faults>>

\* SaveWxPusherBindSession writes the whole row it loaded: a session that was
\* completed since is open again.  It fails when another one is open by now.
SaveDelay(r) ==
    LET s == request[r].session IN
    /\ request[r].pc = "delay"
    /\ IF NoOther(session[s].user, s) THEN SetOpen(s, TRUE) /\ Goto(r, "query")
       ELSE UNCHANGED session /\ Finish(r)
    /\ Release /\ UNCHANGED <<binding, scanned, faults>>

\* QueryScanUID: nothing yet, a passing error, an error that ends the session, or
\* the UID of who scanned.
QueryScanUID(r) ==
    LET s == request[r].session IN
    /\ request[r].pc = "query"
    /\ \/ scanned[s] = NoUid /\ Finish(r) /\ UNCHANGED faults
       \/ faults < MaxFaults /\ faults' = faults + 1 /\ (Finish(r) \/ Goto(r, "fail"))
       \/ /\ scanned[s] # NoUid /\ UNCHANGED faults
          /\ request' = [request EXCEPT ![r] = [@ EXCEPT !.pc = "bind", !.uid = scanned[s]]]
    /\ UNCHANGED <<binding, session, scanned, wxPusherMu>>

\* BindWxPusherUID in one transaction, with the time at which the poll began.
BindWxPusherUID(r) ==
    LET u == request[r].user
        s == request[r].session
        uid == request[r].uid
    IN /\ request[r].pc = "bind"
       /\ IF session[s].open /\ Owns(u, s) /\ binding[u] = NoUid
          THEN IF Unowned(u, uid)
               THEN binding' = [binding EXCEPT ![u] = uid] /\ SetOpen(s, FALSE) /\ Finish(r)
               ELSE Goto(r, "fail") /\ UNCHANGED <<binding, session>>
          ELSE Finish(r) /\ UNCHANGED <<binding, session>>
       /\ UNCHANGED <<scanned, wxPusherMu, faults>>

\* The session of a failed attempt is completed.
FailSession(r) ==
    /\ request[r].pc = "fail"
    /\ SetOpen(request[r].session, FALSE) /\ Finish(r)
    /\ UNCHANGED <<binding, scanned, wxPusherMu, faults>>

-----------------------------------------------------------------------------
(* UpdateWxPusherChannel, DeleteWxPusherChannel *)

LoadBinding(r, u) ==
    /\ request[r] = Idle /\ ~wxPusherMu /\ binding[u] # NoUid
    /\ wxPusherMu' = TRUE
    /\ request' = [request EXCEPT ![r] =
            [Idle EXCEPT !.pc = "update", !.user = u, !.uid = binding[u]]]
    /\ UNCHANGED <<binding, session, scanned, faults>>

Accepts(u, uid) == Unowned(u, uid)

\* SaveWxPusherBinding inserts or replaces the row it loaded, UID included.
SaveBinding(r) ==
    LET u == request[r].user IN
    /\ request[r].pc = "update"
    /\ binding' = IF Accepts(u, request[r].uid) THEN [binding EXCEPT ![u] = request[r].uid]
                  ELSE binding
    /\ Release /\ Finish(r)
    /\ UNCHANGED <<session, scanned, faults>>

\* The binding goes, open sessions are completed.
DeleteWxPusherChannel(u) ==
    /\ binding' = [binding EXCEPT ![u] = NoUid]
    /\ session' = [s \in Sessions |-> IF session[s].user = u
                                      THEN [session[s] EXCEPT !.open = FALSE] ELSE session[s]]
    /\ UNCHANGED <<scanned, request, wxPusherMu, faults>>

-----------------------------------------------------------------------------
(* WeChat users, time, crashes *)

Scan(s, uid) ==
    /\ session[s] # NoRow /\ scanned[s] = NoUid
    /\ scanned' = [scanned EXCEPT ![s] = uid]
    /\ UNCHANGED <<binding, session, request, wxPusherMu, faults>>

Expire(s) ==
    /\ session[s] # NoRow /\ ~session[s].expired
    /\ session' = [session EXCEPT ![s] = [@ EXCEPT !.expired = TRUE]]
    /\ UNCHANGED <<binding, scanned, request, wxPusherMu, faults>>

Restart ==
    /\ \E r \in Requests : request[r] # Idle
    /\ faults < MaxFaults /\ faults' = faults + 1
    /\ request' = [r \in Requests |-> Idle] /\ Release
    /\ UNCHANGED <<binding, session, scanned>>

-----------------------------------------------------------------------------

Init ==
    /\ binding = [u \in Users |-> NoUid]
    /\ session = [s \in Sessions |-> NoRow]
    /\ scanned = [s \in Sessions |-> NoUid]
    /\ request = [r \in Requests |-> Idle]
    /\ wxPusherMu = FALSE /\ faults = 0

Continue(r) ==
    \/ CreateQRCode(r) \/ StoreSession(r)
    \/ SaveDelay(r) \/ QueryScanUID(r) \/ BindWxPusherUID(r) \/ FailSession(r)
    \/ SaveBinding(r)

Next ==
    \/ \E r \in Requests, u \in Users :
          CheckCreate(r, u) \/ LoadBinding(r, u) \/ \E s \in Sessions : LoadSession(r, u, s)
    \/ \E r \in Requests : Continue(r)
    \/ \E u \in Users : DeleteWxPusherChannel(u)
    \/ \E s \in Sessions, uid \in Uids : Scan(s, uid)
    \/ \E s \in Sessions : Expire(s)
    \/ Restart

Spec == Init /\ [][Next]_vars

-----------------------------------------------------------------------------
(* Properties *)

\* Every variable stays in its range, and wxPusherMu is held exactly while one
\* request is between a load and the save that follows it.
TypeOK ==
    /\ binding \in [Users -> Uids \cup {NoUid}]
    /\ session \in [Sessions -> Rows]
    /\ scanned \in [Sessions -> Uids \cup {NoUid}]
    /\ request \in [Requests -> [pc: Pcs, user: Users \cup {NoUser},
                                 session: Sessions \cup {NoSession}, uid: Uids \cup {NoUid}]]
    /\ wxPusherMu \in BOOLEAN /\ faults \in 0..MaxFaults
    /\ wxPusherMu <=> \E r \in Requests : request[r].pc \in Saving
    /\ \A q, r \in Requests : request[q].pc \in Saving /\ request[r].pc \in Saving => q = r

\* A WeChat receiver belongs to one user, whatever scans, deletions and saves of
\* stale rows overlap: nobody receives somebody else's notifications.
UidIsUnique ==
    \A u, v \in Users : binding[u] = binding[v] /\ binding[u] # NoUid => u = v

\* A user has at most one open session: neither two requests that both found none
\* nor the save of a stale row opens a second one.
OneOpenSession ==
    \A s, o \in Sessions :
        session[s].open /\ session[o].open /\ session[s].user = session[o].user => s = o

\* A user is bound only to a receiver that scanned one of the user's own QR codes.
BoundByOwnScan ==
    \A u \in Users : binding[u] # NoUid =>
        \E s \in Sessions : session[s].user = u /\ scanned[s] = binding[u]
=============================================================================
