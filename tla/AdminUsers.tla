----------------------------- MODULE AdminUsers -----------------------------
(***************************************************************************)
(* The user directory of the administration: the list, which the address   *)
(* of the page filters and pages, the page of one user with its switches,  *)
(* its form and its dialogs, and the dialog that creates a user.  The      *)
(* tabs of the page of a user keep all its state: what they offer can be   *)
(* reached at any time.                                                    *)
(***************************************************************************)
EXTENDS HttpCalls

CONSTANTS
    UserCount,   \* bound: users 1..UserCount, in the order of the directory
    UsersSteps   \* bound: requests of the administrator and visits

ASSUME UsersAssumption ==
    UserCount \in Nat \ {0, 1} /\ UsersSteps \in Nat /\ None \notin {"password", "delete", "role"}

Users == 1..UserCount
Self == 1  \* the administrator himself

VARIABLES
    accounts,    \* the backend: [there, role, enabled, refresh, limit, password] of each user
    place,       \* the address: [page, filter, user], user None on the list
    listing,     \* the list that is shown: None or [users, page, pages]
    listFailed,  \* error of the list
    record,      \* page of a user: [shown, failed, limit, role]; the last two are its form
    pending,     \* the page of the user waits for a change
    userModal,   \* its dialog
    temporary,   \* the password it shows, None or [word, alone]; alone is a ghost: no other
                 \* change or load of the page overlapped the request for it
    creating,    \* the dialog for a new user: closed, open or waiting
    signedIn,    \* the browser still has the cookie of the session
    userCalls, userSteps,
    listSure, recordSure  \* ghosts: loaded since the last change, and nothing overlapped

usersVars == <<accounts, place, listing, listFailed, record, pending, userModal, temporary, creating,
               signedIn, userCalls, userSteps, listSure, recordSure>>

shownList == <<listing, listFailed>>
card == <<record, pending, userModal, temporary>>

NewAccount(role) == [there |-> TRUE, role |-> role, enabled |-> TRUE, refresh |-> TRUE,
                     limit |-> 1, password |-> 0]

FreshRecord == [shown |-> None, failed |-> FALSE, limit |-> 1, role |-> "user"]

\* Changes of the backend, and the loads whose answers they make old.
Changes == {"patch", "reset", "delete", "create"}
RecordWriters == {"detail", "patch", "reset", "refresh", "delete"}

UsersInit ==
    /\ accounts = [u \in Users |->
           [NewAccount(IF u = Self THEN "admin" ELSE "user") EXCEPT !.there = u # UserCount]]
    /\ place = [page |-> 1, filter |-> "all", user |-> None]
    /\ listing = None /\ listFailed = FALSE
    /\ record = FreshRecord /\ pending = FALSE /\ userModal = None /\ temporary = None
    /\ creating = "closed" /\ signedIn = TRUE
    /\ userCalls = Begin(NoCalls, [op |-> "list", page |-> 1, filter |-> "all", left |-> FALSE,
                                   answer |-> Unanswered, alone |-> TRUE])
    /\ userSteps = 0 /\ listSure = TRUE /\ recordSure = FALSE

UsersStep == userSteps < UsersSteps /\ userSteps' = userSteps + 1

-----------------------------------------------------------------------------
(* The address decides what is mounted, and what is mounted loads its data. *)

\* The effects that are replaced listen no more; the dialog for a new user is of the
\* page around them.
Dropped(calls) == [s \in Slots |-> IF calls[s].op \in {"idle", "create"} THEN calls[s]
                                   ELSE [calls[s] EXCEPT !.left = TRUE]]

Visit(next, calls) ==
    /\ Free(calls) # {}
    /\ place' = next
    /\ record' = FreshRecord /\ pending' = FALSE /\ userModal' = None /\ temporary' = None
    /\ userCalls' =
           IF next.user = None
           THEN Post(Dropped(calls), [op |-> "list", page |-> next.page, filter |-> next.filter,
                                      left |-> FALSE], {})
           ELSE Post(Dropped(calls), [op |-> "detail", user |-> next.user, first |-> TRUE,
                                      after |-> FALSE, left |-> FALSE], RecordWriters)
    /\ listSure' = TRUE /\ recordSure' = FALSE

\* Nothing but a visit: the backend and the other parts of the page stay.
Visiting(next) ==
    /\ UsersStep /\ Visit(next, userCalls)
    /\ UNCHANGED <<accounts, shownList, creating, signedIn>>

OnList == place.user = None /\ creating = "closed"

\* apply: the filters start at the first page, the buttons turn from the page that is shown.
ApplyFilter(filter) == OnList /\ Visiting([page |-> 1, filter |-> filter, user |-> None])

TurnPage(page) ==
    /\ OnList /\ listing # None
    /\ page \in {listing.page - 1, listing.page + 1} \cap 1..listing.pages
    /\ Visiting([place EXCEPT !.page = page])

OpenUser(u) ==
    /\ OnList /\ listing # None /\ ~listFailed /\ u \in listing.users
    /\ Visiting([place EXCEPT !.user = u])

\* By its button, and by the browser also while a dialog is open.
LeaveUser == place.user # None /\ Visiting([place EXCEPT !.user = None])

\* The button of the header mounts the page anew; so does the retry of the list.
MountAgain == userModal = None /\ creating = "closed" /\ Visiting(place)

\* faulty: the answer of an effect that was replaced is stored too
AnyAnswer(call) == TRUE

\* active
StillAsked(call) == ~call.left

LandList(s) ==
    LET call == userCalls[s] IN
    /\ call.op = "list" /\ call.answer # Unanswered
    /\ userCalls' = End(userCalls, s)
    /\ IF StillAsked(call)
       THEN /\ listing' = IF Succeeds(call) THEN call.answer.body ELSE listing
            /\ listFailed' = ~Succeeds(call)
       ELSE UNCHANGED shownList
    /\ UNCHANGED <<accounts, place, card, creating, signedIn, userSteps, listSure, recordSure>>

-----------------------------------------------------------------------------
(* The page of a user *)

ListAround == <<place, shownList, creating, listSure>>

\* The effect and load: both put the stored values into the form, and only load takes
\* an error away.
LandDetail(s) ==
    LET call == userCalls[s]
        told == call.answer.body
    IN
    /\ call.op = "detail" /\ call.answer # Unanswered
    /\ userCalls' = End(userCalls, s)
    /\ IF call.left THEN UNCHANGED <<card, recordSure>>
       ELSE /\ record' = IF Succeeds(call)
                         THEN [shown |-> told, failed |-> record.failed /\ call.first,
                               limit |-> told.limit, role |-> told.role]
                         ELSE [record EXCEPT !.failed = TRUE]
            /\ pending' = (pending /\ ~call.after)
            /\ userModal' = IF call.after /\ userModal = "role" THEN None ELSE userModal
            /\ recordSure' = SureAfter(call, recordSure, {"detail"})
            /\ UNCHANGED temporary
    /\ UNCHANGED <<accounts, ListAround, signedIn, userSteps>>

\* The retry of a page that shows nothing yet.
LoadDetail ==
    /\ place.user # None /\ record.shown = None /\ record.failed
    /\ UsersStep /\ Free(userCalls) # {}
    /\ userCalls' = Post(userCalls, [op |-> "detail", user |-> place.user, first |-> FALSE,
                                     after |-> FALSE, left |-> FALSE], RecordWriters)
    /\ UNCHANGED <<accounts, ListAround, card, signedIn, recordSure>>

Shows == place.user # None /\ record.shown # None /\ creating = "closed"

\* faulty: only the current place in the list decides
NeverSelf == place.user = None

IsSelf == place.user = Self

\* The form and the dialogs, which change nothing at the backend.
EditForm(limit, role) ==
    /\ Shows /\ userModal = None /\ ~pending /\ (IsSelf => role = record.role)
    /\ <<limit, role>> # <<record.limit, record.role>>
    /\ record' = [record EXCEPT !.limit = limit, !.role = role]
    /\ UNCHANGED <<accounts, ListAround, pending, userModal, temporary, signedIn, userCalls, userSteps,
                   recordSure>>

\* save asks before it changes a role.
OpenUserModal(dialog) ==
    /\ Shows /\ userModal = None /\ ~pending
    /\ dialog \in {"password", "delete"} => ~IsSelf
    /\ dialog = "role" => record.limit # 0 /\ record.role # record.shown.role
    /\ userModal' = dialog /\ temporary' = None
    /\ UNCHANGED <<accounts, ListAround, record, pending, signedIn, userCalls, userSteps, recordSure>>

\* faulty: the cross closes the dialog at any time
AtAnyTime == TRUE

MayClose == ~pending

CloseUserModal ==
    /\ userModal # None /\ MayClose
    /\ userModal' = None /\ temporary' = None
    /\ UNCHANGED <<accounts, ListAround, record, pending, signedIn, userCalls, userSteps, recordSure>>

\* faulty: a switch that waits does not keep the others from changing
SwitchesFree == userModal = None

Unpressed == ~pending

SendUserChange(call) ==
    /\ Shows /\ Unpressed /\ UsersStep /\ Free(userCalls) # {}
    /\ userCalls' = Post(userCalls, With([user |-> place.user, left |-> FALSE], call), RecordWriters)
    /\ pending' = TRUE
    /\ record' = [record EXCEPT !.failed = @ /\ call.op # "patch"]
    /\ UNCHANGED <<accounts, ListAround, userModal, temporary, signedIn, recordSure>>

\* mutate: by the switches, by the form, and by the dialog that confirms a role.
Mutate(values) == SendUserChange([op |-> "patch", values |-> values])

Switches ==
    /\ userModal = None
    /\ \/ ~IsSelf /\ Mutate([enabled |-> ~record.shown.enabled])
       \/ record.shown.role # "admin" /\ Mutate([refresh |-> ~record.shown.refresh])

\* A limit that is no number from 1 to 100 is 0 here.
SaveLimit ==
    /\ userModal = None /\ record.limit # 0 /\ record.role = record.shown.role
    /\ Mutate([limit |-> record.limit])

ConfirmRole == userModal = "role" /\ Mutate([role |-> record.role, limit |-> record.limit])

ResetPassword == userModal = "password" /\ temporary = None /\ SendUserChange([op |-> "reset"])

\* remove, once the name of the user is typed
RemoveUser == userModal = "delete" /\ SendUserChange([op |-> "delete"])

RefreshUser == userModal = None /\ record.shown.role # "admin" /\ SendUserChange([op |-> "refresh"])

\* faulty: the stored values are not read again
KeepsRecord(call) == call.op # "patch"

ReadsAgain(call) == TRUE

\* A change that succeeded is followed by load, and is over only when that has ended.
LandUserChange(s) ==
    LET call == userCalls[s]
        again == Succeeds(call) /\ ReadsAgain(call)
    IN
    /\ call.op \in {"patch", "reset", "refresh"} /\ call.answer # Unanswered
    /\ signedIn' = (signedIn /\ ~(Succeeds(call) /\ call.op = "patch" /\ call.user = Self))
    /\ userCalls' = IF again
           THEN Post(End(userCalls, s), [op |-> "detail", user |-> call.user, first |-> FALSE,
                                         after |-> TRUE, left |-> call.left], RecordWriters)
           ELSE End(userCalls, s)
    /\ IF call.left THEN UNCHANGED <<card, recordSure>>
       ELSE /\ temporary' = IF Succeeds(call) /\ call.op = "reset"
                            THEN [word |-> call.answer.body, alone |-> call.alone] ELSE temporary
            /\ pending' = again
            /\ record' = [record EXCEPT !.failed = @ \/ (call.op = "patch" /\ ~Succeeds(call))]
            /\ recordSure' = SureAfter(call, recordSure, {})
            /\ UNCHANGED userModal
    /\ UNCHANGED <<accounts, ListAround, userSteps>>

\* A removed user is left for the whole list, wherever the page is by then.
LandRemoval(s) ==
    LET call == userCalls[s]
        home == [page |-> 1, filter |-> "all", user |-> None]
    IN
    /\ call.op = "delete" /\ call.answer # Unanswered
    /\ IF Succeeds(call) /\ place # home
       THEN Visit(home, End(userCalls, s))
       ELSE /\ userCalls' = End(userCalls, s)
            /\ pending' = (pending /\ call.left)
            /\ recordSure' = (recordSure /\ call.left)
            /\ UNCHANGED <<place, record, userModal, temporary, listSure>>
    /\ UNCHANGED <<accounts, shownList, creating, signedIn, userSteps>>

-----------------------------------------------------------------------------
(* A new user *)

OpenNewUser ==
    /\ creating = "closed" /\ userModal = None /\ creating' = "open"
    /\ UNCHANGED <<accounts, place, shownList, card, signedIn, userCalls, userSteps, listSure, recordSure>>

CloseNewUser ==
    /\ creating = "open" /\ creating' = "closed"
    /\ UNCHANGED <<accounts, place, shownList, card, signedIn, userCalls, userSteps, listSure, recordSure>>

CreateUser ==
    /\ creating = "open" /\ UsersStep /\ Free(userCalls) # {}
    /\ creating' = "waiting"
    /\ \E role \in {"user", "admin"} :
          userCalls' = Post(userCalls, [op |-> "create", role |-> role, left |-> FALSE], {})
    /\ UNCHANGED <<accounts, place, shownList, card, signedIn, listSure, recordSure>>

\* The page of the new user is opened.
LandCreateUser(s) ==
    LET call == userCalls[s] IN
    /\ call.op = "create" /\ call.answer # Unanswered
    /\ IF Succeeds(call)
       THEN /\ creating' = "closed"
            /\ Visit([page |-> 1, filter |-> "all", user |-> call.answer.body], End(userCalls, s))
       ELSE /\ creating' = "open" /\ userCalls' = End(userCalls, s)
            /\ UNCHANGED <<place, card, listSure, recordSure>>
    /\ UNCHANGED <<accounts, shownList, signedIn, userSteps>>

-----------------------------------------------------------------------------
(* The backend *)

UserPages == <<place, shownList, card, creating, signedIn, userSteps, recordSure>>

Matching(filter) == {u \in Users : accounts[u].there /\ (filter = "disabled" => ~accounts[u].enabled)}

\* ListUsersPage, one user on a page; a page behind the last is the last.
UsersPage(page, filter) ==
    LET found == Matching(filter)
        pages == IF found = {} THEN 1 ELSE Cardinality(found)
        at == IF page > pages THEN pages ELSE page
    IN [users |-> {u \in found : Cardinality({v \in found : v <= u}) = at}, page |-> at, pages |-> pages]

AnswerUser(s, answer) ==
    /\ userCalls[s].answer = Unanswered
    /\ userCalls' = [userCalls EXCEPT ![s].answer = answer]
    /\ UNCHANGED UserPages

Store(s, u, values, body) ==
    /\ accounts' = [accounts EXCEPT ![u] = With(values, accounts[u])]
    /\ listSure' = FALSE /\ AnswerUser(s, Ok(body))

Told(s, body) == AnswerUser(s, Ok(body)) /\ UNCHANGED <<accounts, listSure>>

ServeUsers(s) ==
    LET call == userCalls[s]
        known == accounts[call.user].there
    IN
    /\ s \in Busy(userCalls) /\ signedIn
    /\ \/ call.op = "list" /\ Told(s, UsersPage(call.page, call.filter))
       \/ call.op = "detail" /\ known /\ Told(s, accounts[call.user])
       \/ call.op = "refresh" /\ known /\ Told(s, None)
       \/ call.op = "patch" /\ known /\ Store(s, call.user, call.values, None)
       \/ /\ call.op = "reset" /\ known
          /\ Store(s, call.user, [password |-> accounts[call.user].password + 1],
                   accounts[call.user].password + 1)
       \/ call.op = "delete" /\ known /\ Store(s, call.user, [there |-> FALSE], None)
       \/ /\ call.op = "create" /\ ~accounts[UserCount].there
          /\ Store(s, UserCount, NewAccount(call.role), UserCount)

RefuseUsers(s) ==
    /\ s \in Busy(userCalls)
    /\ AnswerUser(s, Refused("refused")) /\ UNCHANGED <<accounts, listSure>>

LoseUsersAnswer(s) ==
    /\ s \in Busy(userCalls) /\ userCalls[s].answer # Lost
    /\ userCalls' = LoseAnswer(userCalls, s)
    /\ UNCHANGED <<accounts, UserPages, listSure>>

-----------------------------------------------------------------------------
UsersNext ==
    \/ \E filter \in {"all", "disabled"} : ApplyFilter(filter)
    \/ \E page \in 1..UserCount : TurnPage(page)
    \/ \E u \in Users : OpenUser(u)
    \/ LeaveUser \/ MountAgain \/ LoadDetail \/ CloseUserModal
    \/ \E limit \in 0..2, role \in {"user", "admin"} : EditForm(limit, role)
    \/ \E dialog \in {"password", "delete", "role"} : OpenUserModal(dialog)
    \/ Shows /\ (Switches \/ SaveLimit \/ ConfirmRole \/ ResetPassword \/ RemoveUser \/ RefreshUser)
    \/ OpenNewUser \/ CloseNewUser \/ CreateUser
    \/ \E s \in Slots : \/ LandList(s) \/ LandDetail(s) \/ LandUserChange(s) \/ LandRemoval(s)
                        \/ LandCreateUser(s)
                        \/ ServeUsers(s) \/ RefuseUsers(s) \/ LoseUsersAnswer(s)

UsersSpec == UsersInit /\ [][UsersNext]_usersVars

-----------------------------------------------------------------------------
Listening(ops) == {s \in Waiting(userCalls, ops) : ~userCalls[s].left}

\* What the list shows is the page of the directory that its address names, however its
\* answers overtook each other (admin-users-page.tsx:92-124).
ListIsOfAddress ==
    place.user = None /\ listSure /\ ~listFailed /\ Listening({"list"}) = {} =>
        listing = UsersPage(place.page, place.filter)

\* The page of a user waits for one change at a time, to the end of the load that follows it
\* (admin-users-page.tsx:342-411, 465-566).
OneChangeOfUser ==
    Cardinality(Listening({"patch", "reset", "delete", "refresh"})
                \cup {s \in Listening({"detail"}) : userCalls[s].after}) = IF pending THEN 1 ELSE 0

\* What is shown of a user is stored, after the last change of this page too
\* (admin-users-page.tsx:306-318, 347-349, 377-380).
RecordIsCurrent ==
    recordSure /\ Listening(RecordWriters) = {} => record.shown = accounts[place.user]

\* A temporary password stays in its own dialog until it is put away, and is the one that
\* signs in the user, unless a request of an earlier visit to his page overlapped its own
\* (admin-users-page.tsx:375-387, 685-693, 745-755).
TemporaryIsValid ==
    temporary # None =>
        /\ userModal = "password"
        /\ temporary.alone => temporary.word = accounts[place.user].password

\* The administrator does not take away his own rights with this page, whatever else it
\* changes of him (admin-users-page.tsx:475, 505, 539, 556).
SelfIsKept == accounts[Self].there /\ accounts[Self].enabled /\ accounts[Self].role = "admin"
=============================================================================
