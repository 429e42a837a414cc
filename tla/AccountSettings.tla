--------------------------- MODULE AccountSettings ---------------------------
(***************************************************************************)
(* The account page of the web console: the connection to the charging     *)
(* platform, the password and the sessions, the alerts of the browser and  *)
(* the quiet hours, and the usage guide that a new user reads first.       *)
(* Leaving a tab unmounts its panel: what it waited for finds nobody, but  *)
(* what its handlers store in the contexts is stored.                      *)
(***************************************************************************)
EXTENDS HttpCalls

CONSTANT SettingsSteps  \* bound: requests of the page and changes around it

ASSUME SettingsAssumption == SettingsSteps \in Nat

VARIABLES
    stored,         \* the backend: [bound, others, acked, browser, quiet]; others: the
                    \* user has sessions on other devices
    me,             \* the user as the console knows him: [acked]
    tab,            \* connection, notifications or security (appearance asks nothing)
    connection,     \* PlatformConnection: [binding, failed, loading, pending, dialog]
    security,       \* AccountSecurityPanel: [sessions, saving]
    preference,     \* of the watch context: [browser, quiet]
    permission,     \* of the browser for alerts: default, granted or denied
    alerting,       \* BrowserNotificationSetting waits
    quietSaving,    \* QuietHoursForm waits
    guide,          \* UsageGuideDialog: [open, required, reachedEnd, saving, prompted]
    prompts,        \* ghost: how often the guide opened by itself
    settingsCalls, settingsCount,
    bindingSure, sessionsSure  \* ghosts: loaded since the last change, and nothing overlapped

settingsVars == <<stored, me, tab, connection, security, preference, permission, alerting,
                  quietSaving, guide, prompts, settingsCalls, settingsCount, bindingSure,
                  sessionsSure>>

panels == <<connection, security, preference, permission, alerting, quietSaving>>
sure == <<bindingSure, sessionsSure>>
reading == <<guide, prompts>>

\* A panel that is mounted starts over.
FreshConnection == [binding |-> None, failed |-> FALSE, loading |-> TRUE, pending |-> FALSE,
                    dialog |-> None]

FreshSecurity == [sessions |-> None, saving |-> FALSE]

SettingsInit ==
    /\ \E new \in BOOLEAN :  \* a new user has bound nothing and read nothing
          stored = [bound |-> ~new, others |-> TRUE, acked |-> ~new, browser |-> FALSE, quiet |-> FALSE]
    /\ me = [acked |-> stored.acked]
    /\ tab = "connection" /\ connection = FreshConnection /\ security = FreshSecurity
    /\ preference = [browser |-> stored.browser, quiet |-> stored.quiet]
    /\ permission = "default" /\ alerting = FALSE /\ quietSaving = FALSE
    /\ guide = [open |-> FALSE, required |-> FALSE, reachedEnd |-> FALSE, saving |-> FALSE,
                prompted |-> FALSE]
    /\ prompts = 0
    /\ settingsCalls = NoCalls /\ settingsCount = 0
    /\ bindingSure = FALSE /\ sessionsSure = FALSE

SettingsHappens == settingsCount < SettingsSteps /\ settingsCount' = settingsCount + 1

BindingWriters == {"binding", "unlink"}
SessionWriters == {"sessions", "password", "others"}

SendSettings(call, writers) ==
    /\ SettingsHappens /\ Free(settingsCalls) # {}
    /\ settingsCalls' = Post(settingsCalls, With([left |-> FALSE, after |-> FALSE], call), writers)

\* The guide covers everything else while it is open, and its effect opens it before the
\* next event of the user is handled.
GuideAside == ~guide.open /\ (me.acked \/ guide.prompted)

Page(name) == tab = name /\ GuideAside

-----------------------------------------------------------------------------
(* The tabs *)

\* The answers of a panel that is left are for nobody.
LeavePanel == [s \in Slots |-> IF settingsCalls[s].op \in {"idle", "ack"} THEN settingsCalls[s]
                               ELSE [settingsCalls[s] EXCEPT !.left = TRUE]]

OpenTab(next) ==
    /\ GuideAside /\ tab # next /\ connection.dialog = None
    /\ tab' = next
    /\ settingsCalls' = LeavePanel
    /\ connection' = FreshConnection /\ security' = FreshSecurity
    /\ alerting' = FALSE /\ quietSaving' = FALSE
    /\ bindingSure' = FALSE /\ sessionsSure' = FALSE
    /\ UNCHANGED <<stored, me, preference, permission, reading, settingsCount>>

-----------------------------------------------------------------------------
(* The connection *)

ConnectionCalls == <<stored, me, tab, security, preference, permission, alerting, quietSaving,
                     reading, sessionsSure>>

\* load: as the panel mounts, by its retry, and as the scanning dialog closes.
AskBinding ==
    /\ Page("connection") /\ connection.dialog \in {None, "scan"}
    /\ connection.binding = None \/ connection.failed \/ connection.dialog = "scan"
    /\ SendSettings([op |-> "binding"], BindingWriters)
    /\ connection' = [connection EXCEPT !.loading = TRUE, !.failed = FALSE, !.dialog = None]
    /\ UNCHANGED <<ConnectionCalls, bindingSure>>

LandBindingState(s) ==
    LET call == settingsCalls[s] IN
    /\ call.op = "binding" /\ call.answer # Unanswered
    /\ settingsCalls' = End(settingsCalls, s)
    /\ IF call.left THEN UNCHANGED <<connection, bindingSure>>
       ELSE /\ connection' = [connection EXCEPT !.loading = FALSE, !.failed = ~Succeeds(call),
                  !.pending = @ /\ ~call.after,
                  !.binding = IF Succeeds(call) THEN call.answer.body ELSE @]
            /\ bindingSure' = SureAfter(call, bindingSure, {"binding"})
    /\ UNCHANGED <<ConnectionCalls, settingsCount>>

\* What the panel offers: its change buttons are busy while one of them waits.
ConnectionBody ==
    IF connection.loading /\ connection.binding = None THEN "loading"
    ELSE IF connection.failed THEN "unknown"
    ELSE IF connection.binding = TRUE THEN "bound" ELSE "unbound"

OpenConnectionDialog(which) ==
    /\ Page("connection") /\ connection.dialog = None
    /\ which = "unlink" => connection.binding = TRUE
    /\ which = "scan" => ConnectionBody # "loading"
    /\ connection' = [connection EXCEPT !.dialog = which]
    /\ UNCHANGED <<ConnectionCalls, settingsCalls, settingsCount, bindingSure>>

\* The dialogs of a change stay while it waits.
CloseConnectionDialog ==
    /\ connection.dialog \in {"cookie", "unlink"} /\ ~connection.pending
    /\ connection' = [connection EXCEPT !.dialog = None]
    /\ UNCHANGED <<ConnectionCalls, settingsCalls, settingsCount, bindingSure>>

\* faulty: each change has a lock of its own
OwnLock(op) == Waiting(settingsCalls, {op}) = {}

\* busy: no change of the credentials waits.
NotPending(op) == ~connection.pending

\* sync, saveCookie and unlink
ChangeConnection(op) ==
    /\ Page("connection") /\ NotPending(op)
    /\ CASE op = "sync" -> connection.dialog = None /\ connection.binding = TRUE
         [] op = "cookie" -> connection.dialog = "cookie"
         [] op = "unlink" -> connection.dialog = "unlink"
    /\ SendSettings([op |-> op], BindingWriters)
    /\ connection' = [connection EXCEPT !.pending = TRUE]
    /\ UNCHANGED <<ConnectionCalls, bindingSure>>

\* faulty: only what synchronises reads the binding again
AfterSync(op) == op = "sync"

ReadsBinding(op) == op # "cookie"

\* After a synchronisation and an unlinking the binding is loaded, and only then is the
\* change over; the piles are loaded in between by the former, and that may fail (read).
LandConnection(s, read) ==
    LET call == settingsCalls[s]
        reloads == Succeeds(call) /\ ReadsBinding(call.op) /\ (call.op = "sync" => read)
        closes == Succeeds(call) /\ call.op # "sync"
    IN
    /\ call.op \in {"sync", "cookie", "unlink"} /\ call.answer # Unanswered
    /\ IF call.left
       THEN settingsCalls' = End(settingsCalls, s) /\ UNCHANGED <<connection, bindingSure>>
       ELSE /\ settingsCalls' =
                  IF reloads
                  THEN Post(End(settingsCalls, s), [op |-> "binding", after |-> TRUE, left |-> FALSE],
                            BindingWriters)
                  ELSE End(settingsCalls, s)
            /\ connection' = [connection EXCEPT
                  !.dialog = IF closes THEN None ELSE @,
                  !.loading = @ \/ reloads, !.pending = reloads,
                  !.failed = @ /\ ~reloads]
            /\ bindingSure' = (bindingSure /\ (call.op = "unlink" => Succeeds(call) /\ call.alone))
    /\ UNCHANGED <<ConnectionCalls, settingsCount>>

\* The account is bound in the scanning dialog (ScanBinding).
ScanBinds ==
    /\ connection.dialog = "scan" /\ ~stored.bound /\ stored' = [stored EXCEPT !.bound = TRUE]
    /\ settingsCalls' = Crossed(settingsCalls, BindingWriters) /\ bindingSure' = FALSE
    /\ UNCHANGED <<me, tab, panels, reading, settingsCount, sessionsSure>>

-----------------------------------------------------------------------------
(* The password and the sessions *)

SecurityCalls == <<stored, tab, connection, preference, permission, alerting, quietSaving,
                   prompts, bindingSure>>

\* The list of sessions, as the panel mounts.
AskSessions ==
    /\ tab = "security" /\ security.sessions = None /\ Waiting(settingsCalls, {"sessions"}) = {}
    /\ SendSettings([op |-> "sessions"], SessionWriters)
    /\ UNCHANGED <<SecurityCalls, me, security, guide, sessionsSure>>

LandSessions(s) ==
    LET call == settingsCalls[s] IN
    /\ call.op = "sessions" /\ call.answer # Unanswered
    /\ settingsCalls' = End(settingsCalls, s)
    /\ IF call.left THEN UNCHANGED <<security, sessionsSure>>
       ELSE /\ security' = [security EXCEPT !.saving = @ /\ ~call.after,
                                            !.sessions = IF Succeeds(call) THEN call.answer.body ELSE @]
            /\ sessionsSure' = SureAfter(call, sessionsSure, {"sessions"})
    /\ UNCHANGED <<SecurityCalls, me, guide, settingsCount>>

\* submit, and logoutOthers, which nothing locks.
ChangeSessions(op) ==
    /\ Page("security") /\ (op = "password" => ~security.saving)
    /\ SendSettings([op |-> op], SessionWriters)
    /\ security' = [security EXCEPT !.saving = @ \/ op = "password"]
    /\ UNCHANGED <<SecurityCalls, me, guide, sessionsSure>>

\* faulty: the list that is shown is kept after a change
NoReload(op) == FALSE

\* Both load the sessions again.
Reloads(op) == TRUE

\* A new password answers with the user, who may not have read the guide by then.
LandSessionChange(s) ==
    LET call == settingsCalls[s]
        again == Succeeds(call) /\ ~call.left /\ Reloads(call.op)
    IN
    /\ call.op \in {"password", "others"} /\ call.answer # Unanswered
    /\ me' = IF call.op = "password" /\ Succeeds(call) THEN [acked |-> call.answer.body] ELSE me
    /\ settingsCalls' =
           IF again THEN Post(End(settingsCalls, s), [op |-> "sessions", left |-> FALSE,
                                                      after |-> call.op = "password"], SessionWriters)
           ELSE End(settingsCalls, s)
    /\ security' = IF call.left THEN security
                   ELSE [security EXCEPT !.saving = IF call.op = "password" THEN again ELSE @]
    /\ sessionsSure' = (sessionsSure /\ (call.left \/ (Succeeds(call) /\ call.alone)))
    /\ UNCHANGED <<SecurityCalls, guide, settingsCount>>

-----------------------------------------------------------------------------
(* Alerts and quiet hours *)

PreferenceCalls == <<stored, me, tab, connection, security, reading, sure>>

\* requestBrowserPermission and setBrowserEnabled: only what is granted is switched on.
SwitchesTo(permitted) == permitted = "granted" /\ (permission = "default" \/ ~preference.browser)

\* The browser may ask the user first.
ToggleAlerts(choice) ==
    /\ Page("notifications") /\ ~alerting /\ permission # "denied"
    /\ IF permission = "default" THEN permission' = choice
       ELSE choice = permission /\ UNCHANGED permission
    /\ IF permission' = "granted" \/ preference.browser
       THEN /\ SendSettings([op |-> "browser", value |-> SwitchesTo(permission')], {})
            /\ alerting' = TRUE
       ELSE UNCHANGED <<settingsCalls, settingsCount, alerting>>
    /\ UNCHANGED <<PreferenceCalls, preference, quietSaving>>

\* QuietHoursForm: it has kept what it showed first, so any value can be sent.
SaveQuietHours(value) ==
    /\ Page("notifications") /\ ~quietSaving
    /\ SendSettings([op |-> "quiet", value |-> value], {})
    /\ quietSaving' = TRUE
    /\ UNCHANGED <<PreferenceCalls, preference, permission, alerting>>

\* updatePreference: the answer replaces what is shown, also after the tab was left.
LandPreference(s) ==
    LET call == settingsCalls[s] IN
    /\ call.op \in {"browser", "quiet"} /\ call.answer # Unanswered
    /\ preference' = IF Succeeds(call) THEN call.answer.body ELSE preference
    /\ alerting' = (alerting /\ (call.left \/ call.op # "browser"))
    /\ quietSaving' = (quietSaving /\ (call.left \/ call.op # "quiet"))
    /\ settingsCalls' = End(settingsCalls, s)
    /\ UNCHANGED <<PreferenceCalls, permission, settingsCount>>

\* The user takes the permission back in the settings of the browser, which the page
\* notices as it is focused again.
RevokePermission ==
    /\ permission = "granted" /\ SettingsHappens /\ permission' = "denied"
    /\ UNCHANGED <<PreferenceCalls, preference, alerting, quietSaving, settingsCalls>>

\* The state of the switch that is shown.
AlertsOn == permission = "granted" /\ preference.browser

-----------------------------------------------------------------------------
(* The usage guide *)

GuideCalls == <<stored, tab, panels, sure>>

\* faulty: every user that has not read it is asked again
NotRead == ~me.acked /\ ~guide.open

\* promptedRef: a user is asked once.
NotPrompted == ~me.acked /\ ~guide.prompted

\* The effect of the dialog.
PromptGuide ==
    /\ NotPrompted
    /\ guide' = [guide EXCEPT !.open = TRUE, !.required = TRUE, !.reachedEnd = FALSE, !.prompted = TRUE]
    /\ prompts' = prompts + 1
    /\ UNCHANGED <<GuideCalls, me, settingsCalls, settingsCount>>

\* openReference
OpenReference ==
    /\ GuideAside /\ SettingsHappens
    /\ guide' = [guide EXCEPT !.open = TRUE, !.required = FALSE, !.reachedEnd = TRUE]
    /\ UNCHANGED <<GuideCalls, me, prompts, settingsCalls>>

\* checkEnd
ReachEnd ==
    /\ guide.open /\ ~guide.reachedEnd /\ guide' = [guide EXCEPT !.reachedEnd = TRUE]
    /\ UNCHANGED <<GuideCalls, me, prompts, settingsCalls, settingsCount>>

\* faulty: the guide can be left before its end
AnyPlace == guide.open

\* It stays until its end was seen.
MayLeaveGuide == guide.open /\ (guide.required => guide.reachedEnd)

\* handleOpen(false): by its cross or the escape key, which tells the backend nothing.
DismissGuide ==
    /\ MayLeaveGuide /\ guide' = [guide EXCEPT !.open = FALSE]  \* required stays
    /\ UNCHANGED <<GuideCalls, me, prompts, settingsCalls, settingsCount>>

\* close by its button: a required guide is acknowledged first.
AcknowledgeGuide ==
    /\ MayLeaveGuide /\ guide.required /\ ~guide.saving
    /\ SendSettings([op |-> "ack"], {})
    /\ guide' = [guide EXCEPT !.saving = TRUE]
    /\ UNCHANGED <<GuideCalls, me, prompts>>

LandAck(s) ==
    LET call == settingsCalls[s] IN
    /\ call.op = "ack" /\ call.answer # Unanswered
    /\ me' = IF Succeeds(call) THEN [acked |-> call.answer.body] ELSE me
    /\ guide' = [guide EXCEPT !.saving = FALSE, !.required = @ /\ ~Succeeds(call),
                              !.open = @ /\ ~Succeeds(call)]
    /\ settingsCalls' = End(settingsCalls, s)
    /\ UNCHANGED <<GuideCalls, prompts, settingsCount>>

-----------------------------------------------------------------------------
(* The backend *)

AnswerSettings(s, answer) ==
    /\ settingsCalls[s].answer = Unanswered
    /\ settingsCalls' = [settingsCalls EXCEPT ![s].answer = answer]
    /\ UNCHANGED <<me, tab, panels, reading, settingsCount, sure>>

Preferences(values) == [browser |-> values.browser, quiet |-> values.quiet]

ServeSettings(s) ==
    LET call == settingsCalls[s]
        Store(values, body) == stored' = With(values, stored) /\ AnswerSettings(s, Ok(body))
        Tell(body) == UNCHANGED stored /\ AnswerSettings(s, Ok(body))
    IN
    \/ call.op = "binding" /\ Tell(stored.bound)
    \/ call.op = "sessions" /\ Tell(IF stored.others THEN "several" ELSE "one")
    \/ call.op \in {"sync", "cookie"} /\ Tell(None)
    \/ call.op = "unlink" /\ Store([bound |-> FALSE], None)
    \/ call.op = "password" /\ Store([others |-> FALSE], stored.acked)
    \/ call.op = "others" /\ Store([others |-> FALSE], None)
    \/ call.op = "ack" /\ Store([acked |-> TRUE], TRUE)
    \/ call.op = "browser" /\ Store([browser |-> call.value], Preferences([stored EXCEPT !.browser = call.value]))
    \/ call.op = "quiet" /\ Store([quiet |-> call.value], Preferences([stored EXCEPT !.quiet = call.value]))

RefuseSettings(s) ==
    /\ s \in Busy(settingsCalls) /\ settingsCalls[s].op \notin {"binding", "sessions"}
    /\ AnswerSettings(s, Refused("refused")) /\ UNCHANGED stored

LoseSettingsAnswer(s) ==
    /\ s \in Busy(settingsCalls) /\ settingsCalls[s].answer # Lost
    /\ settingsCalls' = LoseAnswer(settingsCalls, s)
    /\ UNCHANGED <<stored, me, tab, panels, reading, settingsCount, sure>>

-----------------------------------------------------------------------------
SettingsNext ==
    \/ AskBinding \/ ScanBinds \/ CloseConnectionDialog \/ AskSessions \/ RevokePermission
    \/ PromptGuide \/ OpenReference \/ ReachEnd \/ DismissGuide \/ AcknowledgeGuide
    \/ \E value \in BOOLEAN : SaveQuietHours(value)
    \/ \E next \in {"connection", "notifications", "security"} : OpenTab(next)
    \/ \E which \in {"scan", "cookie", "unlink"} : OpenConnectionDialog(which)
    \/ \E op \in {"sync", "cookie", "unlink"} : ChangeConnection(op)
    \/ \E op \in {"password", "others"} : ChangeSessions(op)
    \/ \E choice \in {"granted", "denied"} : ToggleAlerts(choice)
    \/ \E s \in Slots : \/ LandBindingState(s) \/ LandSessions(s) \/ (\E read \in BOOLEAN : LandConnection(s, read))
                        \/ LandSessionChange(s) \/ LandPreference(s) \/ LandAck(s)
                        \/ ServeSettings(s) \/ RefuseSettings(s) \/ LoseSettingsAnswer(s)

SettingsSpec == SettingsInit /\ [][SettingsNext]_settingsVars

-----------------------------------------------------------------------------
Waits(ops) == {s \in Waiting(settingsCalls, ops) : ~settingsCalls[s].left}

\* A change of the connection holds its one lock until what follows it has ended, and so
\* do the password, the alerts and the quiet hours: the credentials are never changed by
\* two requests of the page at once (account-workbench.tsx:235-297, 371-376, 420-467,
\* account-security-panel.tsx:54-75).
SettingsLocksAreLive ==
    LET Awaits(op) == {s \in Waits({op}) : settingsCalls[s].after} IN
    /\ Cardinality(Waits({"sync", "cookie", "unlink"}) \cup Awaits("binding"))
          = IF connection.pending THEN 1 ELSE 0
    /\ Cardinality(Waits({"password"}) \cup Awaits("sessions")) = IF security.saving THEN 1 ELSE 0
    /\ Cardinality(Waits({"browser"})) = IF alerting THEN 1 ELSE 0
    /\ Cardinality(Waits({"quiet"})) = IF quietSaving THEN 1 ELSE 0
    /\ connection.dialog = None \/ tab = "connection"

\* After a load that nothing overlapped, the binding that is shown is the backend's, and
\* stays so through the changes of the page, which read it again
\* (account-workbench.tsx:207-225, 250-251, 289-290, 331-336).
BindingIsCurrent ==
    bindingSure /\ Waits(BindingWriters) = {} => connection.binding = stored.bound

\* A device that a new password or the button has signed out is not listed any more
\* (account-security-panel.tsx:54-84).
SessionsAreCurrent ==
    sessionsSure /\ Waits(SessionWriters) = {} =>
        security.sessions = IF stored.others THEN "several" ELSE "one"

\* A new user is asked to read the guide once, and it stays until its end was seen,
\* whatever answers bring his record again (usage-guide-dialog.tsx:125-138, 155-189).
GuideIsRead == prompts <= 1 /\ (guide.required /\ ~guide.reachedEnd => guide.open)
=============================================================================
