----------------------------- MODULE AdminSystem -----------------------------
(***************************************************************************)
(* The other tabs of the administration: overview, incidents, operations,  *)
(* settings, invites and the audit log.  One tab is mounted at a time and  *)
(* loads its data; a tab that is left, and a load that is replaced, listen *)
(* no more, but the handlers of a left tab still run to their end.         *)
(***************************************************************************)
EXTENDS HttpCalls

CONSTANTS
    Incidents,    \* set of incidents
    InviteCount,  \* bound: invites 1..InviteCount
    SystemSteps   \* bound: requests of the administrator, and changes of the backend

ASSUME SystemAssumption == InviteCount \in Nat /\ SystemSteps \in Nat

VARIABLES
    depot,       \* the backend: [retention, open, invites, incidents]
    mounted,     \* the address: [tab, part]; part is the page, or the range of the trends
    systemView,  \* the tab: [shown, failed, loading, saving, exporting, dialog, draft]
    checking,    \* AdminHealthStatus, which two of the tabs share, waits
    retryCheck,  \* the toast of a check that failed: of its own, of one that was left, or none
    systemCalls, systemSteps,
    viewSure     \* ghost: loaded since the last change, and nothing overlapped

systemVars == <<depot, mounted, systemView, checking, retryCheck, systemCalls, systemSteps, viewSure>>

Tabs == {"overview", "incidents", "operations", "settings", "invites", "audit"}
Parts == 1..2

\* The tabs that show the line with the health of the services.
HealthTabs == {"overview", "operations"}

\* Retention is counted in days; 0 stands for what the form refuses.
Policies == [retention : 0..3, open : BOOLEAN]

FreshView == [shown |-> None, failed |-> FALSE, loading |-> TRUE, saving |-> FALSE,
              exporting |-> FALSE, dialog |-> None, draft |-> None]

Load(tab, part) == [op |-> "load", tab |-> tab, part |-> part, left |-> FALSE]

\* The changes, the retry of the incidents, which nothing cancels, and the loads.
SystemChanges == {"create", "remove", "save", "incident"}
Disturbers == SystemChanges \cup {"again", "load"}

SystemInit ==
    /\ depot = [policy |-> [retention |-> 2, open |-> FALSE], invites |-> 1..(InviteCount - 1),
                incidents |-> [i \in Incidents |-> "open"]]
    /\ \E tab \in Tabs : mounted = [tab |-> tab, part |-> 1]
    /\ systemView = FreshView /\ checking = FALSE /\ retryCheck = "none"
    /\ systemCalls = Post(NoCalls, Load(mounted.tab, 1), Disturbers)
    /\ systemSteps = 0 /\ viewSure = FALSE

SystemStep == systemSteps < SystemSteps /\ systemSteps' = systemSteps + 1

\* A load that nobody waits for disturbs nothing.
SendSystem(calls, call) ==
    LET heard == {s \in Waiting(calls, Disturbers) : ~(calls[s].op = "load" /\ calls[s].left)} IN
    /\ Free(calls) # {}
    /\ systemCalls' = Begin(Crossed(calls, Disturbers),
           With([answer |-> Unanswered, alone |-> heard = {}], call))

-----------------------------------------------------------------------------
(* The tabs and useRemote *)

LeftAlone(ops, calls) ==
    [s \in Slots |-> IF calls[s].op \in ops THEN [calls[s] EXCEPT !.left = TRUE] ELSE calls[s]]

\* faulty: the line with the health takes its lock along to any tab
KeepsChecking(tab) == checking

\* AdminHealthStatus is mounted while one of its tabs is shown, and unmounted with its lock
\* by any other tab; its request and its toast stay.
StaysChecking(tab) == checking /\ tab \in HealthTabs

\* Another tab, and the button of the header, mount a tab anew.
MountTab(tab) ==
    /\ systemView.dialog = None /\ SystemStep
    /\ mounted' = [tab |-> tab, part |-> IF tab = mounted.tab THEN mounted.part ELSE 1]
    /\ systemView' = FreshView /\ viewSure' = FALSE
    /\ SendSystem(LeftAlone(Disturbers \cup {"csv"} \cup (IF tab \in HealthTabs THEN {} ELSE {"health"}),
                            systemCalls), Load(tab, mounted'.part))
    /\ checking' = StaysChecking(tab)
    /\ retryCheck' = IF retryCheck = "own" /\ tab \notin HealthTabs THEN "left" ELSE retryCheck
    /\ UNCHANGED depot

\* The fetcher or the revision changed: the load before is replaced.
LoadAgain(part, calls) ==
    /\ SendSystem(LeftAlone({"load"}, calls), Load(mounted.tab, part))
    /\ mounted' = [mounted EXCEPT !.part = part]

\* The audit log and the invites have pages, and turn none while one is loading.
TurnsPages == mounted.tab \in {"invites", "audit"} /\ systemView.shown # None /\ ~systemView.loading

\* The range of the trends can be changed at any time.
TurnsRange == mounted.tab = "overview"

TurnPart(part) ==
    /\ TurnsPages \/ TurnsRange
    /\ part # mounted.part /\ systemView.dialog = None
    /\ SystemStep /\ LoadAgain(part, systemCalls)
    /\ systemView' = [systemView EXCEPT !.loading = TRUE]
    /\ UNCHANGED <<depot, checking, retryCheck, viewSure>>

\* WorkbenchOperations shows the last check, and checks again.
ChecksAgain == mounted.tab = "operations" /\ systemView.shown # None /\ ~systemView.loading

\* reload: the retry of what failed, and the check of the operations.
Reload ==
    /\ mounted.tab # "incidents" /\ systemView.dialog = None
    /\ ChecksAgain \/ (systemView.failed /\ (mounted.tab = "settings" => systemView.shown = None))
    /\ SystemStep /\ LoadAgain(mounted.part, systemCalls)
    /\ systemView' = [systemView EXCEPT !.loading = TRUE]
    /\ UNCHANGED <<depot, checking, retryCheck, viewSure>>

\* active
Heard(call) == ~call.left

\* The form of the settings starts over from what was loaded.
Drafted(body) == IF mounted.tab = "settings" THEN body ELSE None

LandSystem(s) ==
    LET call == systemCalls[s] IN
    /\ call.op = "load" /\ call.answer # Unanswered
    /\ systemCalls' = End(systemCalls, s)
    /\ IF Heard(call)
       THEN /\ systemView' = IF Succeeds(call)
                       THEN [systemView EXCEPT !.loading = FALSE, !.failed = FALSE,
                                         !.shown = call.answer.body, !.draft = Drafted(call.answer.body)]
                       ELSE [systemView EXCEPT !.loading = FALSE, !.failed = TRUE]
            /\ viewSure' = SureAfter(call, viewSure, {"load"})
       ELSE UNCHANGED <<systemView, viewSure>>
    /\ UNCHANGED <<depot, mounted, checking, retryCheck, systemSteps>>

-----------------------------------------------------------------------------
(* What the tabs offer *)

Unchanged == <<depot, mounted, checking, retryCheck, viewSure>>

\* The button above them is there in any case.
CreateIsOffered == mounted.tab = "invites"

\* The rows of the invites are there unless they are loading or could not be loaded.
InvitesShown == mounted.tab = "invites" /\ systemView.shown # None /\ ~systemView.loading /\ ~systemView.failed

\* The buttons of the row of an incident.
Handles(i, to) ==
    /\ mounted.tab = "incidents" /\ systemView.shown # None /\ ~systemView.loading
    /\ systemView.shown[i] # "resolved"
    /\ to = "acknowledged" => systemView.shown[i] = "open"

OpenDialog(dialog) ==
    /\ systemView.dialog = None
    /\ \/ CreateIsOffered /\ dialog.name = "create"
       \/ InvitesShown /\ dialog.name = "remove" /\ dialog.of \in systemView.shown.invites
       \/ dialog.name = "incident" /\ Handles(dialog.of, dialog.to)
    /\ systemView' = [systemView EXCEPT !.dialog = dialog]
    /\ UNCHANGED <<Unchanged, systemCalls, systemSteps>>

\* An incident can be put aside while it is saved, nothing else can.
CloseDialog ==
    /\ systemView.dialog # None /\ (systemView.dialog.name = "incident" \/ ~systemView.saving)
    /\ systemView' = [systemView EXCEPT !.dialog = None]
    /\ UNCHANGED <<Unchanged, systemCalls, systemSteps>>

\* change, and the button that undoes the changes
EditPolicy(draft) ==
    /\ mounted.tab = "settings" /\ systemView.shown # None /\ systemView.dialog = None /\ draft # systemView.draft
    /\ draft.open # systemView.draft.open => ~systemView.saving
    /\ draft = systemView.shown \/ (draft.open = systemView.draft.open) # (draft.retention = systemView.draft.retention)
    /\ systemView' = [systemView EXCEPT !.draft = draft]
    /\ UNCHANGED <<Unchanged, systemCalls, systemSteps>>

\* faulty: a second click is sent too
AnyClick == TRUE

Pressable == ~systemView.saving

ChangeSystem(call) ==
    /\ Pressable /\ SystemStep
    /\ SendSystem(systemCalls, With([left |-> FALSE], call))
    /\ systemView' = [systemView EXCEPT !.saving = TRUE]
    /\ UNCHANGED Unchanged

CreateInvite == systemView.dialog # None /\ systemView.dialog.name = "create" /\ ChangeSystem([op |-> "create"])

DeleteInvite ==
    /\ systemView.dialog # None /\ systemView.dialog.name = "remove"
    /\ ChangeSystem([op |-> "remove", of |-> systemView.dialog.of])

SaveIncident ==
    /\ systemView.dialog # None /\ systemView.dialog.name = "incident"
    /\ ChangeSystem([op |-> "incident", of |-> systemView.dialog.of, to |-> systemView.dialog.to])

\* faulty: only an invalid period is asked about
OnlyInvalid == systemView.draft.retention = 0

\* confirmRetention, against what the page had loaded
Shortens == systemView.draft.retention < systemView.shown.retention

CanSubmit ==
    /\ mounted.tab = "settings" /\ systemView.shown # None /\ ~systemView.saving
    /\ systemView.draft # systemView.shown /\ systemView.draft.retention # 0

SavePolicy(confirmed) ==
    ChangeSystem([op |-> "save", policy |-> systemView.draft, confirmed |-> confirmed, sure |-> viewSure])

SubmitPolicy == CanSubmit /\ systemView.dialog = None /\ ~Shortens /\ SavePolicy(FALSE)

AskRetention ==
    /\ CanSubmit /\ systemView.dialog = None /\ Shortens
    /\ systemView' = [systemView EXCEPT !.dialog = [name |-> "retention"]]
    /\ UNCHANGED <<Unchanged, systemCalls, systemSteps>>

ConfirmRetention == systemView.dialog # None /\ systemView.dialog.name = "retention" /\ SavePolicy(TRUE)

\* The retry of the incidents has no lock and no effect that cancels it.
RetryIncidents ==
    /\ mounted.tab = "incidents" /\ systemView.failed /\ systemView.dialog = None /\ SystemStep
    /\ SendSystem(systemCalls, [op |-> "again", left |-> FALSE])
    /\ systemView' = [systemView EXCEPT !.loading = TRUE]
    /\ UNCHANGED Unchanged

LandRetry(s) ==
    LET call == systemCalls[s] IN
    /\ call.op = "again" /\ call.answer # Unanswered
    /\ systemCalls' = End(systemCalls, s)
    /\ IF call.left THEN UNCHANGED <<systemView, viewSure>>
       ELSE /\ systemView' = IF Succeeds(call)
                       THEN [systemView EXCEPT !.loading = FALSE, !.failed = FALSE, !.shown = call.answer.body]
                       ELSE [systemView EXCEPT !.loading = FALSE, !.failed = TRUE]
            /\ viewSure' = SureAfter(call, viewSure, {"again"})
    /\ UNCHANGED <<depot, mounted, checking, retryCheck, systemSteps>>

-----------------------------------------------------------------------------
(* What follows a change *)

\* faulty: the list of the invites is kept
KeepsInvites(call) == FALSE

RefreshesList(call) == Succeeds(call) /\ ~call.left

\* The list is loaded again; after a creation from its first page, which is the page of
\* whatever tab is shown by then.
LandInvite(s) ==
    LET call == systemCalls[s]
        first == Succeeds(call) /\ call.op = "create" /\ mounted.tab \in {"invites", "audit"}
        part == IF first THEN 1 ELSE mounted.part
        loads == RefreshesList(call) \/ (first /\ mounted.part # 1)
    IN
    /\ call.op \in {"create", "remove"} /\ call.answer # Unanswered
    /\ IF loads THEN LoadAgain(part, End(systemCalls, s))
       ELSE systemCalls' = End(systemCalls, s) /\ UNCHANGED mounted
    /\ systemView' = [systemView EXCEPT !.saving = @ /\ call.left,
                            !.dialog = IF Succeeds(call) /\ ~call.left THEN None ELSE @,
                            !.loading = @ \/ loads]
    /\ viewSure' = (viewSure /\ (call.left \/ (Succeeds(call) /\ call.alone)))
    /\ UNCHANGED <<depot, checking, retryCheck, systemSteps>>

\* The stored settings replace what was loaded, and with it the form and its edits.
LandSave(s) ==
    LET call == systemCalls[s] IN
    /\ call.op = "save" /\ call.answer # Unanswered
    /\ systemCalls' = End(systemCalls, s)
    /\ IF call.left THEN UNCHANGED <<systemView, viewSure>>
       ELSE /\ systemView' = IF Succeeds(call)
                       THEN [systemView EXCEPT !.saving = FALSE, !.dialog = None, !.shown = call.answer.body,
                                         !.draft = call.answer.body]
                       ELSE [systemView EXCEPT !.saving = FALSE, !.dialog = None]
            /\ viewSure' = SureAfter(call, viewSure, {})
    /\ UNCHANGED <<depot, mounted, checking, retryCheck, systemSteps>>

\* faulty: the row takes the status that was asked for when the dialog is still there
ByDialog(call) == IF systemView.dialog = None THEN systemView.shown ELSE [systemView.shown EXCEPT ![call.of] = call.to]

\* The row that was updated, also when its dialog was put aside.
Updated(call) == [systemView.shown EXCEPT ![call.of] = call.answer.body]

LandIncident(s) ==
    LET call == systemCalls[s] IN
    /\ call.op = "incident" /\ call.answer # Unanswered
    /\ systemCalls' = End(systemCalls, s)
    /\ IF call.left THEN UNCHANGED <<systemView, viewSure>>
       ELSE /\ systemView' = IF Succeeds(call)
                       THEN [systemView EXCEPT !.saving = FALSE, !.dialog = None, !.shown = Updated(call)]
                       ELSE [systemView EXCEPT !.saving = FALSE]
            /\ viewSure' = SureAfter(call, viewSure, {})
    /\ UNCHANGED <<depot, mounted, checking, retryCheck, systemSteps>>

\* Only trends of the range that is asked for are exported, and not while they load.
ExportOffered ==
    /\ mounted.tab = "overview" /\ systemView.shown # None /\ systemView.dialog = None
    /\ systemView.shown.range = mounted.part /\ ~systemView.loading /\ ~systemView.exporting

\* exportCSV; the range can be changed while it waits.
ExportTrends ==
    /\ ExportOffered /\ SystemStep /\ Free(systemCalls) # {}
    /\ systemCalls' = Post(systemCalls, [op |-> "csv", range |-> mounted.part, left |-> FALSE], {})
    /\ systemView' = [systemView EXCEPT !.exporting = TRUE]
    /\ UNCHANGED Unchanged

LandExport(s) ==
    /\ systemCalls[s].op = "csv" /\ systemCalls[s].answer # Unanswered
    /\ systemCalls' = End(systemCalls, s)
    /\ systemView' = [systemView EXCEPT !.exporting = @ /\ systemCalls[s].left]
    /\ UNCHANGED <<depot, mounted, checking, retryCheck, systemSteps, viewSure>>

\* The dialog of the health, whose button is locked while it waits.
Recheck ==
    /\ mounted.tab \in HealthTabs /\ ~checking /\ systemView.dialog = None
    /\ SystemStep /\ Free(systemCalls) # {}
    /\ systemCalls' = Post(systemCalls, [op |-> "health", left |-> FALSE], {})
    /\ checking' = TRUE
    /\ UNCHANGED <<depot, mounted, systemView, retryCheck, viewSure>>

\* The toast of a check that failed checks again, whichever tab is shown and whether or not
\* another check waits; it is gone with its click.
RetryCheck ==
    /\ retryCheck # "none" /\ SystemStep /\ Free(systemCalls) # {}
    /\ systemCalls' = Post(systemCalls, [op |-> "health", left |-> retryCheck # "own"], {})
    /\ checking' = (checking \/ retryCheck = "own") /\ retryCheck' = "none"
    /\ UNCHANGED <<depot, mounted, systemView, viewSure>>

\* The first of two checks that ends unlocks the button.
LandHealth(s) ==
    LET call == systemCalls[s] IN
    /\ call.op = "health" /\ call.answer # Unanswered
    /\ systemCalls' = End(systemCalls, s) /\ checking' = (checking /\ call.left)
    /\ retryCheck' = IF Succeeds(call) THEN retryCheck ELSE IF call.left THEN "left" ELSE "own"
    /\ UNCHANGED <<depot, mounted, systemView, systemSteps, viewSure>>

-----------------------------------------------------------------------------
(* The backend *)

\* ListInviteCodesPage, one invite on a page; a page behind the last is the last.
InvitesOf(part) ==
    LET pages == IF depot.invites = {} THEN 1 ELSE Cardinality(depot.invites)
        at == IF part > pages THEN pages ELSE part
    IN [invites |-> {i \in depot.invites : Cardinality({j \in depot.invites : j <= i}) = at}, page |-> at]

Stored(tab, part) ==
    CASE tab = "settings" -> depot.policy
      [] tab = "invites" -> InvitesOf(part)
      [] tab = "incidents" -> depot.incidents
      [] tab = "overview" -> [range |-> part]
      [] tab = "audit" -> [page |-> part]
      [] OTHER -> "checked"

AnswerSystem(s, answer) ==
    /\ systemCalls[s].answer = Unanswered
    /\ systemCalls' = [systemCalls EXCEPT ![s].answer = answer]
    /\ UNCHANGED <<mounted, systemView, checking, retryCheck, systemSteps, viewSure>>

ServeSystem(s) ==
    LET call == systemCalls[s]
        Change(values, body) == depot' = With(values, depot) /\ AnswerSystem(s, Ok(body))
    IN
    \/ call.op = "load" /\ AnswerSystem(s, Ok(Stored(call.tab, call.part))) /\ UNCHANGED depot
    \/ call.op = "again" /\ AnswerSystem(s, Ok(depot.incidents)) /\ UNCHANGED depot
    \/ call.op \in {"health", "csv"} /\ AnswerSystem(s, Ok(None)) /\ UNCHANGED depot
    \/ call.op = "create" /\ Change([invites |-> depot.invites \cup {InviteCount}], None)
    \/ /\ call.op = "remove" /\ call.of \in depot.invites
       /\ Change([invites |-> depot.invites \ {call.of}], None)
    \/ call.op = "save" /\ Change([policy |-> call.policy], call.policy)
    \/ call.op = "incident" /\ Change([incidents |-> [depot.incidents EXCEPT ![call.of] = call.to]], call.to)

RefuseSystem(s) ==
    /\ s \in Busy(systemCalls) /\ AnswerSystem(s, Refused("refused")) /\ UNCHANGED depot

LoseSystemAnswer(s) ==
    /\ s \in Busy(systemCalls) /\ systemCalls[s].answer # Lost
    /\ systemCalls' = LoseAnswer(systemCalls, s)
    /\ UNCHANGED <<depot, mounted, systemView, checking, retryCheck, systemSteps, viewSure>>

\* A resolved incident happens again: the backend opens its row.
IncidentRecurs(i) ==
    /\ depot.incidents[i] = "resolved" /\ SystemStep
    /\ depot' = [depot EXCEPT !.incidents[i] = "open"]
    /\ systemCalls' = Crossed(systemCalls, Disturbers) /\ viewSure' = FALSE
    /\ UNCHANGED <<mounted, systemView, checking, retryCheck>>

-----------------------------------------------------------------------------
SystemNext ==
    \/ \E tab \in Tabs : MountTab(tab)
    \/ \E part \in Parts : TurnPart(part)
    \/ Reload \/ CloseDialog \/ RetryIncidents \/ Recheck \/ RetryCheck \/ ExportTrends
    \/ OpenDialog([name |-> "create"])
    \/ \E i \in 1..InviteCount : OpenDialog([name |-> "remove", of |-> i])
    \/ \E i \in Incidents, to \in {"acknowledged", "resolved"} :
          OpenDialog([name |-> "incident", of |-> i, to |-> to])
    \/ \E draft \in Policies : EditPolicy(draft)
    \/ CreateInvite \/ DeleteInvite \/ SaveIncident \/ SubmitPolicy \/ AskRetention \/ ConfirmRetention
    \/ \E i \in Incidents : IncidentRecurs(i)
    \/ \E s \in Slots : \/ LandSystem(s) \/ LandRetry(s) \/ LandInvite(s) \/ LandSave(s)
                        \/ LandIncident(s) \/ LandHealth(s) \/ LandExport(s)
                        \/ ServeSystem(s) \/ RefuseSystem(s) \/ LoseSystemAnswer(s)

SystemSpec == SystemInit /\ [][SystemNext]_systemVars

-----------------------------------------------------------------------------
HeardOf(ops) == {s \in Waiting(systemCalls, ops) : ~systemCalls[s].left}

\* No tab spins without a load that ends it, and one change of a tab waits at a time, also
\* when its dialog was put aside.  The check of the health is locked only while one that
\* was started from the line on the page waits, and a tab without that line has no lock
\* (admin-system-pages.tsx:46-86, 358-377, 629-657, admin-incident-panel.tsx:162-180,
\* page.tsx:244-254, 361-394, admin-health-status.tsx:116-130, admin-trend-panel.tsx:154-167).
SystemLocksAreLive ==
    /\ systemView.loading => HeardOf({"load", "again"}) # {}
    /\ Cardinality(HeardOf(SystemChanges)) = IF systemView.saving THEN 1 ELSE 0
    /\ checking => HeardOf({"health"}) # {} /\ mounted.tab \in HealthTabs
    /\ Cardinality(HeardOf({"csv"})) = IF systemView.exporting THEN 1 ELSE 0

\* What a tab shows is what the backend has for the page or range of its address, after the
\* last change of this tab too (admin-system-pages.tsx:46-86, 366-372, 630-651,
\* admin-incident-panel.tsx:166-174, page.tsx:372-394).
ShownIsStored ==
    viewSure /\ HeardOf(Disturbers) = {} => systemView.shown = Stored(mounted.tab, mounted.part)

\* The policy changes only by a save of this page, and records are not cleaned up by a
\* shorter period that nobody confirmed, as long as the page had the stored settings to
\* compare with and no other save overtook it (admin-system-pages.tsx:378-409).
ShorteningIsConfirmed ==
    [][depot'.policy # depot.policy =>
         \E s \in Slots : LET call == systemCalls[s] IN
             /\ call.op = "save" /\ call # systemCalls'[s]
             /\ \/ call.confirmed \/ ~call.sure \/ ~call.alone
                \/ ~(depot'.policy.retention < depot.policy.retention)]_systemVars
=============================================================================
