--------------------------- MODULE ConsoleSession ---------------------------
(***************************************************************************)
(* Signing in and out of the web console: AuthProvider keeps the user,     *)
(* AuthForm signs in or registers behind an image captcha, Home, the       *)
(* administrator's page and the account page ask who is signed in, and     *)
(* DashboardSession lets a user in and opens the event stream.  AppShell   *)
(* listens for a 401 and sends the visitor back to the login page.         *)
(***************************************************************************)
EXTENDS HttpCalls

CONSTANT ConsoleSteps   \* bound: requests of the console

\* The states of AuthForm and of DashboardSession.
FormStates == [config : {None} \cup [open : BOOLEAN], failed : BOOLEAN, need : BOOLEAN, shown : Nat,
               typed : Nat, loading : BOOLEAN, submitting : BOOLEAN, kept : BOOLEAN]
BoardStates == [started : BOOLEAN, loader : Slots \cup {None}, authorized : BOOLEAN, error : BOOLEAN]

ASSUME ConsoleAssumption ==
    ConsoleSteps \in Nat /\ None \notin Slots \cup {"user", "admin"} /\ None \notin FormStates \cup BoardStates

VARIABLES
    route,         \* the page that is shown
    asking,        \* its effect that authorizes has yet to run
    currentUser,   \* the role of the signed-in user, None when nobody is
    cookie,        \* the session the browser names, 0 for none
    sessions,      \* the sessions the backend made: [role, live]
    form,          \* the state of AuthForm, None where it is not mounted
    captchas,      \* the challenges the backend made: "open" or "spent"
    strict,        \* a login must solve a captcha (RequiresCaptcha)
    board,         \* the state of DashboardSession, None where it is not mounted
    boardStream,   \* an EventSource is open
    consoleCalls,
    consoleSteps,
    crossed        \* ghost: an answer "who am I" was overtaken, or one was lost

consoleVars == <<route, asking, currentUser, cookie, sessions, form, captchas, strict,
                 board, boardStream, consoleCalls, consoleSteps, crossed>>

mountedPage == <<route, asking, currentUser, board, boardStream, form>>
doors == <<sessions, captchas, strict>>

Roles == {"user", "admin"}
FormRoutes == {"login", "register"}

\* The pages that AppShell frames: only they listen for the expiry.
Framed == {"dashboard", "account", "admin"}

\* resolveHomeRoute.
HomeRoute(role) ==
    CASE role = "admin" -> "admin" [] role = "user" -> "dashboard" [] OTHER -> "login"

FreshForm == [config |-> None, failed |-> FALSE, need |-> FALSE, shown |-> 0, typed |-> 0,
              loading |-> FALSE, submitting |-> FALSE, kept |-> FALSE]

FreshBoard == [started |-> FALSE, loader |-> None, authorized |-> FALSE, error |-> FALSE]

\* faulty: the account page mounts it for an administrator too
BoardOnAny(r, user) == IF r \in {"dashboard", "account"} THEN FreshBoard ELSE None

\* The components a page mounts for a user; a page that stays keeps its own.
BoardOn(r, user) == IF r = "dashboard" \/ (r = "account" /\ user = "user")
                    THEN FreshBoard ELSE None

Alive(c) == c # 0 /\ sessions[c].live

\* What a page that is left leaves behind: handlers that wait for their answers.
Abandon(calls) ==
    [s \in Slots |-> IF calls[s].op # "idle" THEN [calls[s] EXCEPT !.here = FALSE] ELSE calls[s]]

\* The router shows page r; the one that is left closes its stream.
Enter(r, user) ==
    IF r = route
    THEN /\ UNCHANGED <<route, asking, form>>
         /\ board' = IF board = None THEN BoardOn(r, user)
                     ELSE IF BoardOn(r, user) = None THEN None ELSE board
         /\ boardStream' = (boardStream /\ board' # None)
    ELSE /\ route' = r
         /\ asking' = (r \in {"home", "admin", "account"})
         /\ form' = IF r \in FormRoutes THEN FreshForm ELSE None
         /\ board' = BoardOn(r, user)
         /\ boardStream' = FALSE

\* Whose state an answer still changes.
Here(s) == consoleCalls[s].here

Left(calls) == IF route' = route THEN calls ELSE Abandon(calls)

ConsoleInit ==
    /\ route \in {"home", "login", "register", "dashboard", "admin", "account"}
    /\ asking = (route \in {"home", "admin", "account"})
    /\ currentUser = None
    /\ \E role \in Roles \cup {None} :
          /\ sessions = IF role = None THEN <<>> ELSE <<[role |-> role, live |-> TRUE]>>
          /\ cookie = Len(sessions)
    /\ form = IF route \in FormRoutes THEN FreshForm ELSE None
    /\ captchas = <<>> /\ strict \in BOOLEAN
    /\ board = BoardOn(route, None) /\ boardStream = FALSE
    /\ consoleCalls = NoCalls /\ consoleSteps = 0 /\ crossed = FALSE

SendConsole(call) ==
    /\ consoleSteps < ConsoleSteps /\ consoleSteps' = consoleSteps + 1
    /\ Free(consoleCalls) # {}
    /\ consoleCalls' = Begin(consoleCalls,
                             With([answer |-> Unanswered, here |-> TRUE, cookie |-> cookie], call))

-----------------------------------------------------------------------------
(* AuthForm *)

\* loadConfig: at the start, and by its button after it failed.
AskConfig ==
    /\ form # None /\ form.config = None
    /\ \A s \in Waiting(consoleCalls, {"config"}) : ~Here(s)
    /\ SendConsole([op |-> "config"])
    /\ UNCHANGED <<mountedPage, cookie, doors, crossed>>

\* captchaVisible: always to register, to sign in once the backend asked for it.
CaptchaVisible == form.config # None /\ (route = "register" \/ form.need)

CaptchaCall(submit) == [op |-> "captcha", submit |-> submit]

\* The button that shows another image.
AskCaptcha ==
    /\ form # None /\ CaptchaVisible /\ ~form.loading
    /\ SendConsole(CaptchaCall(FALSE))
    /\ form' = [form EXCEPT !.loading = TRUE, !.typed = 0]
    /\ UNCHANGED <<route, asking, currentUser, board, boardStream, cookie, doors, crossed>>

\* The handler s goes on with loadCaptcha.
ThenCaptcha(s, submit) ==
    consoleCalls' = [consoleCalls EXCEPT ![s] =
        With([answer |-> Unanswered, here |-> Here(s), cookie |-> cookie], CaptchaCall(submit))]

LandConfig(s) ==
    LET call == consoleCalls[s] IN
    /\ call.op = "config" /\ call.answer # Unanswered
    /\ IF ~call.here \/ call.answer.kind # "ok"
       THEN /\ form' = IF call.here THEN [form EXCEPT !.failed = TRUE] ELSE form
            /\ consoleCalls' = End(consoleCalls, s)
       ELSE IF route = "register"
       THEN /\ form' = [form EXCEPT !.config = call.answer.body, !.failed = FALSE,
                                    !.loading = TRUE, !.typed = 0]
            /\ ThenCaptcha(s, FALSE)
       ELSE /\ form' = [form EXCEPT !.config = call.answer.body, !.failed = FALSE]
            /\ consoleCalls' = End(consoleCalls, s)
    /\ UNCHANGED <<route, asking, currentUser, board, boardStream, cookie, doors,
                   consoleSteps, crossed>>

\* The image that was asked for last need not be the one that comes last.
LandCaptcha(s) ==
    LET call == consoleCalls[s] IN
    /\ call.op = "captcha" /\ call.answer # Unanswered
    /\ form' = IF ~call.here THEN form
               ELSE [form EXCEPT
                       !.shown = IF call.answer.kind = "ok" THEN call.answer.body ELSE 0,
                       !.kept = FALSE,
                       !.loading = FALSE,
                       !.submitting = IF call.submit THEN FALSE ELSE @]
    /\ consoleCalls' = End(consoleCalls, s)
    /\ UNCHANGED <<route, asking, currentUser, board, boardStream, cookie, doors,
                   consoleSteps, crossed>>

TypeCaptcha ==
    /\ form # None /\ CaptchaVisible /\ form.shown # form.typed
    /\ form' = [form EXCEPT !.typed = form.shown]
    /\ UNCHANGED <<route, asking, currentUser, board, boardStream, cookie, doors,
                   consoleCalls, consoleSteps, crossed>>

\* The button that submits.
SubmitEnabled ==
    /\ form.config # None /\ ~form.submitting /\ ~form.loading
    /\ route = "register" => form.config.open

SubmitForm ==
    /\ form # None /\ SubmitEnabled
    /\ CaptchaVisible => form.typed # 0
    /\ SendConsole([op |-> route, captcha |-> form.shown, typed |-> form.typed])
    /\ form' = [form EXCEPT !.submitting = TRUE]
    /\ UNCHANGED <<route, asking, currentUser, board, boardStream, cookie, doors, crossed>>

\* faulty: only the demand for a captcha brings a new one
OnlyRequired == {"LOGIN_CAPTCHA_REQUIRED"}

\* After which refusals of a login the form asks for another image.
NeedsCaptcha == {"LOGIN_CAPTCHA_REQUIRED", "LOGIN_CAPTCHA_INVALID"}

\* An answer "who am I" that waits will be older than the user it sets.
Overtakes == \E s \in Slots : consoleCalls[s].op = "me"

\* The answer's cookie, the user and the way home; or another image to solve.
LandSubmit(s) ==
    LET call == consoleCalls[s]
        again == call.op = "register"
                 \/ (call.answer.kind = "refused" /\ call.answer.code \in NeedsCaptcha)
    IN
    /\ call.op \in FormRoutes /\ call.answer # Unanswered
    /\ \/ /\ call.answer.kind = "ok"
          /\ cookie' = call.answer.body
          /\ currentUser' = sessions[cookie'].role
          /\ Enter(HomeRoute(currentUser'), currentUser')
          /\ consoleCalls' = Left(End(consoleCalls, s))
          /\ crossed' = (crossed \/ Overtakes)
       \/ /\ call.answer.kind # "ok" /\ again
          /\ form' = IF ~call.here THEN form
                     ELSE [form EXCEPT !.need = @ \/ call.op = "login", !.loading = TRUE,
                                       !.typed = 0]
          /\ ThenCaptcha(s, TRUE)
          /\ UNCHANGED <<route, asking, currentUser, board, boardStream, cookie, crossed>>
       \/ /\ call.answer.kind # "ok" /\ ~again
          /\ form' = IF ~call.here THEN form
                     ELSE [form EXCEPT !.submitting = FALSE,
                                       !.kept = @ \/ call.answer.kind = "lost"]
          /\ consoleCalls' = End(consoleCalls, s)
          /\ UNCHANGED <<route, asking, currentUser, board, boardStream, cookie, crossed>>
    /\ UNCHANGED <<doors, consoleSteps>>

\* The links between the two forms.
SwitchForm ==
    /\ form # None
    /\ Enter(CHOOSE r \in FormRoutes : r # route, currentUser)
    /\ consoleCalls' = Abandon(consoleCalls)
    /\ UNCHANGED <<currentUser, cookie, doors, consoleSteps, crossed>>

-----------------------------------------------------------------------------
(* Who is signed in *)

\* The effect of Home, AdminContent and AccountAccess: it asks when it does not know.
Authorize ==
    /\ asking /\ asking' = FALSE
    /\ IF currentUser = None \/ route = "home"
       THEN SendConsole([op |-> "me", who |-> route]) /\ UNCHANGED <<route, form, board, boardStream>>
       ELSE /\ UNCHANGED <<consoleCalls, consoleSteps>>
            /\ IF route = "admin" /\ currentUser # "admin"
               THEN /\ route' = "dashboard" /\ board' = FreshBoard
                    /\ UNCHANGED <<form, boardStream>>
               ELSE UNCHANGED <<route, form, board, boardStream>>
    /\ UNCHANGED <<currentUser, cookie, doors, crossed>>

\* Retrying after a failed check of the account.
RetryAuthorize ==
    /\ route \in {"admin", "account"} /\ currentUser = None /\ ~asking
    /\ \A s \in Waiting(consoleCalls, {"me"}) : ~Here(s) \/ consoleCalls[s].who = "board"
    /\ asking' = TRUE
    /\ UNCHANGED <<route, currentUser, form, board, boardStream, cookie, doors, consoleCalls,
                   consoleSteps, crossed>>

\* The error offers to try again, in place of the page or on it.
RetryIsOffered == board.started /\ board.error

\* load of DashboardSession, at the start or again after an error.
LoadBoard ==
    /\ board # None /\ board.loader = None /\ (~board.started \/ RetryIsOffered)
    /\ currentUser # "admin"
    /\ SendConsole([op |-> IF currentUser = None THEN "me" ELSE "snapshot", who |-> "board"])
    /\ board' = [board EXCEPT !.started = TRUE, !.loader = NextSlot(consoleCalls), !.error = FALSE,
                              !.authorized = @ \/ currentUser = "user"]
    /\ UNCHANGED <<route, asking, currentUser, form, boardStream, cookie, doors, crossed>>

\* DashboardSession for an administrator: she is sent to her page.
TurnAwayAdmin ==
    /\ board # None /\ ~board.started /\ currentUser = "admin"
    /\ Enter("admin", currentUser)
    /\ consoleCalls' = Abandon(consoleCalls)
    /\ UNCHANGED <<currentUser, cookie, doors, consoleSteps, crossed>>

\* current === version.current
IsCurrent(s) == Here(s) /\ board # None /\ board.loader = s

\* faulty: the version is not compared again after the snapshot
NeverStale(s) == TRUE

\* The second comparison, after the snapshot.
MayConnect(s) == IsCurrent(s)

\* The console forgets the user and shows the login page.  The page of the
\* administrator and of the account may ask once more before it is gone.
Expired(calls, jar) ==
    /\ currentUser' = None
    /\ Enter("login", None)
    /\ \/ consoleCalls' = Left(calls)
       \/ /\ route \in {"admin", "account"} /\ Free(calls) # {}
          /\ consoleCalls' = Begin(Left(calls), [op |-> "me", who |-> route, here |-> FALSE,
                                                 cookie |-> jar, answer |-> Unanswered])

\* fetchMe and what its caller does with the user.
LandMe(s) ==
    LET call == consoleCalls[s]
        ends == End(consoleCalls, s)
    IN
    /\ call.op = "me" /\ call.answer # Unanswered
    /\ \/ /\ call.answer.kind = "ok"
          /\ currentUser' = call.answer.body
          /\ CASE call.who = "board" /\ ~IsCurrent(s) ->
                    /\ Enter(route, currentUser') /\ consoleCalls' = ends
               [] call.who = "board" /\ IsCurrent(s) /\ currentUser' = "user" ->
                    /\ board' = [board EXCEPT !.authorized = TRUE]
                    /\ consoleCalls' = [consoleCalls EXCEPT ![s].op = "snapshot",
                                                            ![s].answer = Unanswered,
                                                            ![s].cookie = cookie]
                    /\ UNCHANGED <<route, asking, form, boardStream>>
               [] OTHER ->
                    /\ Enter(IF call.who = "account" THEN route
                             ELSE IF call.who = "admin" /\ currentUser' = "admin" THEN route
                             ELSE HomeRoute(currentUser'), currentUser')
                    /\ consoleCalls' = Left(ends)
          /\ UNCHANGED crossed
       \/ /\ call.answer.kind = "refused"
          /\ IF route \in Framed \/ call.who # "board" \/ IsCurrent(s)
             THEN Expired(ends, cookie)
             ELSE /\ currentUser' = None /\ consoleCalls' = ends
                  /\ UNCHANGED <<route, asking, form, board, boardStream>>
          /\ UNCHANGED crossed
       \/ /\ call.answer.kind = "lost" /\ consoleCalls' = ends
          /\ board' = IF call.who = "board" /\ IsCurrent(s)
                      THEN [board EXCEPT !.loader = None, !.error = TRUE] ELSE board
          /\ UNCHANGED <<route, asking, currentUser, form, boardStream, crossed>>
    /\ UNCHANGED <<cookie, doors, consoleSteps>>

\* The stream is opened whether the snapshot came or not.
LandSnapshot(s) ==
    LET call == consoleCalls[s] IN
    /\ call.op = "snapshot" /\ call.answer # Unanswered
    /\ IF call.answer.kind = "refused" /\ route \in Framed
       THEN Expired(End(consoleCalls, s), cookie)
       ELSE /\ consoleCalls' = End(consoleCalls, s)
            /\ IF MayConnect(s)
               THEN /\ boardStream' = TRUE
                    /\ board' = IF board = None THEN None
                                ELSE [board EXCEPT !.loader = None,
                                                   !.error = call.answer.kind # "ok"]
               ELSE UNCHANGED <<boardStream, board>>
            /\ UNCHANGED <<route, asking, currentUser, form>>
    /\ UNCHANGED <<cookie, doors, consoleSteps, crossed>>

\* The links of AppShell: which there are depends on the role.
Links == IF currentUser = "admin" THEN {"admin", "account"} ELSE {"dashboard", "account"}

\* What its search can find: the same pages, and objects on the first of them.
SearchResults == Links

Follow(r) ==
    /\ route \in Framed /\ r # route
    /\ Enter(r, currentUser)
    /\ consoleCalls' = Abandon(consoleCalls)
    /\ UNCHANGED <<currentUser, cookie, doors, consoleSteps, crossed>>

Navigate(r) == r \in Links /\ Follow(r)

ChooseResult(r) == r \in SearchResults /\ Follow(r)

-----------------------------------------------------------------------------
(* Signing out *)

Logout ==
    /\ route = "account" /\ currentUser # None
    /\ \A s \in Waiting(consoleCalls, {"logout"}) : ~Here(s)
    /\ SendConsole([op |-> "logout"])
    /\ UNCHANGED <<mountedPage, cookie, doors, crossed>>

\* faulty: the user is kept for the next page
LeaveOnly(calls) ==
    Enter("login", None) /\ consoleCalls' = Left(calls) /\ UNCHANGED currentUser

\* clearSession and the way to the login page.
SignOut(calls) == Expired(calls, 0)

LandLogout(s) ==
    LET call == consoleCalls[s] IN
    /\ call.op = "logout" /\ call.answer # Unanswered
    /\ IF call.answer.kind = "ok"
       THEN /\ cookie' = 0 /\ SignOut(End(consoleCalls, s))
            /\ crossed' = (crossed \/ Overtakes)
       ELSE /\ consoleCalls' = End(consoleCalls, s) /\ crossed' = TRUE
            /\ UNCHANGED <<mountedPage, cookie>>
    /\ UNCHANGED <<doors, consoleSteps>>

-----------------------------------------------------------------------------
(* The backend *)

AnswerConsole(s, answer) ==
    /\ consoleCalls[s].answer = Unanswered
    /\ consoleCalls' = [consoleCalls EXCEPT ![s].answer = answer]
    /\ UNCHANGED <<mountedPage, cookie, consoleSteps, crossed>>

ServeSettings(s) ==
    /\ consoleCalls[s].op = "config"
    /\ \E open \in BOOLEAN : AnswerConsole(s, Ok([open |-> open]))
    /\ UNCHANGED doors

ServeCaptcha(s) ==
    /\ consoleCalls[s].op = "captcha"
    /\ AnswerConsole(s, Ok(Len(captchas) + 1))
    /\ captchas' = Append(captchas, "open")
    /\ UNCHANGED <<sessions, strict>>

\* Verify: a challenge is gone once it was tried.
Solved(call) == call.captcha # 0 /\ captchas[call.captcha] = "open" /\ call.typed = call.captcha
Spend(call) == captchas' = IF call.captcha = 0 THEN captchas
                           ELSE [captchas EXCEPT ![call.captcha] = "spent"]

ServeSubmit(s) ==
    LET call == consoleCalls[s]
        checked == call.op = "register" \/ strict
    IN
    /\ call.op \in FormRoutes
    /\ IF checked THEN Spend(call) ELSE UNCHANGED captchas
    /\ \/ /\ checked /\ ~Solved(call)
          /\ AnswerConsole(s, Refused("LOGIN_CAPTCHA_INVALID"))
          /\ UNCHANGED <<sessions, strict>>
       \/ /\ checked => Solved(call)
          /\ strict' \in IF call.op = "login" THEN {strict, TRUE} ELSE {strict}
          /\ AnswerConsole(s, Refused(IF call.op = "login" /\ strict' THEN "LOGIN_CAPTCHA_REQUIRED"
                                      ELSE "AUTH_INVALID_CREDENTIALS"))
          /\ UNCHANGED sessions
       \/ /\ checked => Solved(call)
          /\ \E role \in IF call.op = "login" THEN Roles ELSE {"user"} :
                sessions' = Append(sessions, [role |-> role, live |-> TRUE])
          /\ strict' = FALSE
          /\ AnswerConsole(s, Ok(Len(sessions) + 1))

\* Who am I, the first snapshot and the end of a session; a 401 without one.
ServeSession(s) ==
    LET call == consoleCalls[s] IN
    /\ \/ /\ call.op \in {"me", "snapshot"}
          /\ AnswerConsole(s, IF Alive(call.cookie) THEN Ok(sessions[call.cookie].role)
                              ELSE Refused("UNAUTHORIZED"))
          /\ UNCHANGED sessions
       \/ /\ call.op = "logout"
          /\ sessions' = IF call.cookie = 0 THEN sessions
                         ELSE [sessions EXCEPT ![call.cookie].live = FALSE]
          /\ AnswerConsole(s, Ok(None))
    /\ UNCHANGED <<captchas, strict>>

\* A timeout, a broken connection or too many requests.
LoseConsoleAnswer(s) ==
    /\ s \in Busy(consoleCalls) /\ consoleCalls[s].answer # Lost
    /\ consoleCalls' = LoseAnswer(consoleCalls, s)
    /\ UNCHANGED <<mountedPage, cookie, doors, consoleSteps, crossed>>

\* The session ends elsewhere: its time is over, or it is revoked.
EndSession ==
    /\ Alive(cookie)
    /\ sessions' = [sessions EXCEPT ![cookie].live = FALSE]
    /\ crossed' = TRUE
    /\ UNCHANGED <<mountedPage, cookie, captchas, strict, consoleCalls, consoleSteps>>

-----------------------------------------------------------------------------
ConsoleNext ==
    \/ AskConfig \/ AskCaptcha \/ TypeCaptcha \/ SubmitForm \/ SwitchForm
    \/ Authorize \/ RetryAuthorize \/ LoadBoard \/ TurnAwayAdmin \/ Logout \/ EndSession
    \/ \E r \in Framed : (Navigate(r) \/ ChooseResult(r))
    \/ \E s \in Slots : \/ LandConfig(s) \/ LandCaptcha(s) \/ LandSubmit(s) \/ LandMe(s)
                        \/ LandSnapshot(s) \/ LandLogout(s)
                        \/ ServeSettings(s) \/ ServeCaptcha(s) \/ ServeSubmit(s)
                        \/ ServeSession(s) \/ LoseConsoleAnswer(s)

ConsoleSpec == ConsoleInit /\ [][ConsoleNext]_consoleVars

-----------------------------------------------------------------------------
\* Each page has the components it mounts and no others: the account page mounts
\* DashboardSession for a user and never for an administrator
\* (account-workbench.tsx:77-102, auth-portal.tsx, dashboard/layout.tsx).
ConsoleTypeOK ==
    /\ (form # None <=> route \in FormRoutes)
    /\ board # None => route = "dashboard" \/ (route = "account" /\ currentUser = "user")
    /\ currentUser \in Roles \cup {None} /\ cookie \in 0..Len(sessions)
    /\ form # None => form.shown \in 0..Len(captchas) /\ form.typed \in 0..Len(captchas)

\* An image that can be answered was never tried, through overlapping reloads and
\* refused submissions, unless an answer about it was lost or limited
\* (auth-form.tsx:66-84, 160-184).
FreshChallenge ==
    form # None /\ ~form.submitting /\ ~form.loading /\ form.shown # 0 /\ ~form.kept
        => captchas[form.shown] = "open"

\* The event stream is open only beside the page of a user who was let in: a load
\* that was left or overtaken never opens it (dashboard-session.tsx:44-105).
StreamIsOfMountedPage == boardStream => board # None /\ board.authorized

\* Whom the console shows as signed in is who the browser's cookie signs in, at any
\* moment before an answer "who am I" was overtaken, an answer about the session was
\* lost or the session ended elsewhere (auth-context.tsx:57-140).
ShownUserIsSignedIn ==
    currentUser # None /\ ~crossed /\ Waiting(consoleCalls, {"logout"}) = {}
        => Alive(cookie) /\ sessions[cookie].role = currentUser
=============================================================================
