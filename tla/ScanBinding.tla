----------------------------- MODULE ScanBinding -----------------------------
(***************************************************************************)
(* Binding the charging platform by scanning a code in the web console.    *)
(* YybBindingFlow creates a scan session, asks how far it is, and confirms *)
(* it; AddPileDialog and the settings dialog host it, ask first whether    *)
(* the account is bound, and the former then adds a pile.                  *)
(***************************************************************************)
EXTENDS HttpCalls

CONSTANTS Scans,      \* scan sessions
          ScanSteps   \* bound: requests of the page and changes around it

ASSUME ScanAssumption == IsFiniteSet(Scans) /\ None \notin Scans \cup Slots /\ ScanSteps \in Nat

VARIABLES
    scans,        \* the sessions of the backend: unused, pending, authorized, expired,
                  \* confirming, saved, gone
    bound,        \* the account has a binding
    scanEnabled,  \* the deployment offers scanning
    additions,    \* piles that were added
    host,         \* the dialog: the one that adds a pile, or the settings
    dialogStep,   \* closed, checking, error, form or binding
    need,         \* bindingRequired and rescanRequired: None, bind or rescan
    addError,     \* the form shows an error
    adding,       \* submitLock: the addition on its way
    flow,         \* YybBindingFlow, or None: it is not mounted
    online,
    scanCalls,
    scanCount,
    unsettled     \* ghost: sessions whose confirmation ended without an answer

scanVars == <<scans, bound, scanEnabled, additions, host, dialogStep, need, addError, adding,
              flow, online, scanCalls, scanCount, unsettled>>

account == <<scans, bound, scanEnabled, additions>>
hostVars == <<host, dialogStep, need, addError, adding>>

\* scanned is pending, confirmed is authorized, cancelled and unknown are expired: the
\* flow treats them alike.
readyStatuses == {"authorized"}

\* A new flow, which also is what create() starts from.
FreshFlow == [qr |-> None, status |-> "pending", result |-> None, error |-> FALSE,
              loading |-> FALSE, busy |-> FALSE, failures |-> 0, operation |-> None]

ScanInit ==
    /\ scans = [q \in Scans |-> "unused"]
    /\ bound \in BOOLEAN /\ scanEnabled \in BOOLEAN /\ additions = 0
    /\ host \in {"add", "settings"}
    /\ dialogStep = "closed" /\ need = None /\ addError = FALSE /\ adding = None
    /\ flow = None /\ online = TRUE
    /\ scanCalls = NoCalls /\ scanCount = 0 /\ unsettled = {}

ScanHappens == scanCount < ScanSteps /\ scanCount' = scanCount + 1

SendScan(call) ==
    /\ online /\ ScanHappens /\ Free(scanCalls) # {}
    /\ scanCalls' = Begin(scanCalls, With([answer |-> Unanswered], call))

\* The browser drops what has no answer yet; an answer that is there is still handled.
Abort(calls, s) ==
    IF s # None /\ calls[s].answer = Unanswered THEN LoseAnswer(calls, s) ELSE calls

\* Nobody hears how a confirmation ends that is aborted.
Unheard == IF flow # None /\ flow.operation # None /\ scanCalls[flow.operation].op = "confirm"
           THEN unsettled \cup {flow.qr} ELSE unsettled

\* faulty: an answer is handled whatever was started since
AnyVersion(s) == flow # None

\* version === epoch.current: nothing has replaced this operation.
SameVersion(s) == flow # None /\ flow.operation = s

-----------------------------------------------------------------------------
(* The flow *)

\* create: as the flow is mounted, or again by its button; the present operation is
\* given up.
CreateQR ==
    /\ flow # None /\ flow.result = None
    /\ ~flow.loading /\ ~(flow.busy /\ flow.status = "confirming")
    /\ LET dropped == Abort(scanCalls, flow.operation) IN
       /\ online /\ ScanHappens /\ Free(dropped) # {}
       /\ scanCalls' = Begin(dropped, [op |-> "create", answer |-> Unanswered])
       /\ flow' = [FreshFlow EXCEPT !.loading = TRUE, !.operation = NextSlot(dropped)]
    /\ UNCHANGED <<account, hostVars, online, unsettled>>

LandCreate(s) ==
    LET call == scanCalls[s] IN
    /\ call.op = "create" /\ call.answer # Unanswered
    /\ scanCalls' = End(scanCalls, s)
    /\ flow' = IF ~SameVersion(s) THEN flow
               ELSE [flow EXCEPT !.operation = None, !.loading = FALSE,
                                 !.qr = IF call.answer.kind = "ok" THEN call.answer.body ELSE @,
                                 !.error = call.answer.kind # "ok"]
    /\ UNCHANGED <<account, hostVars, online, scanCount, unsettled>>

\* check: by its button, or every three seconds until three failures in a row.
MayCheck == flow # None /\ flow.qr # None /\ flow.result = None /\ flow.operation = None

CheckQR ==
    /\ MayCheck
    /\ SendScan([op |-> "check", scan |-> flow.qr])
    /\ flow' = [flow EXCEPT !.busy = TRUE, !.operation = NextSlot(scanCalls)]
    /\ UNCHANGED <<account, hostVars, online, unsettled>>

LandCheck(s) ==
    LET call == scanCalls[s]
        ok == call.answer.kind = "ok"
        told == [flow EXCEPT !.operation = None, !.busy = FALSE, !.failures = 0, !.error = FALSE]
    IN
    /\ call.op = "check" /\ call.answer # Unanswered
    /\ scanCalls' = End(scanCalls, s)
    /\ flow' = IF ~SameVersion(s) THEN flow
               ELSE IF ~ok
               THEN [flow EXCEPT !.operation = None, !.busy = FALSE, !.error = TRUE,
                                 !.failures = IF @ < 3 THEN @ + 1 ELSE @]
               ELSE IF call.answer.body = "saved" THEN [told EXCEPT !.result = call.scan]
               ELSE [told EXCEPT !.status = call.answer.body]
    /\ unsettled' = IF SameVersion(s) /\ ok THEN unsettled \ {call.scan} ELSE unsettled
    /\ UNCHANGED <<account, hostVars, online, scanCount>>

\* canConfirm
CanConfirm ==
    /\ flow # None /\ flow.qr # None /\ online /\ ~flow.busy /\ ~flow.loading /\ ~flow.error
    /\ flow.status \in readyStatuses

ConfirmQR ==
    /\ CanConfirm /\ flow.result = None /\ flow.operation = None
    /\ SendScan([op |-> "confirm", scan |-> flow.qr, arrived |-> FALSE])
    /\ flow' = [flow EXCEPT !.busy = TRUE, !.status = "confirming", !.operation = NextSlot(scanCalls)]
    /\ UNCHANGED <<account, hostVars, online, unsettled>>

\* faulty: a confirmation that failed can be sent again at once
AfterLoss == [flow EXCEPT !.status = "authorized"]

\* The error keeps the button disabled until a check has told what became of it.
AfterFailure == [flow EXCEPT !.error = TRUE, !.failures = 0]

LandConfirm(s) ==
    LET call == scanCalls[s] IN
    /\ call.op = "confirm" /\ call.answer # Unanswered
    /\ scanCalls' = End(scanCalls, s)
    /\ IF ~SameVersion(s) THEN UNCHANGED <<flow, unsettled>>
       ELSE IF call.answer.kind = "ok"
       THEN /\ flow' = [flow EXCEPT !.operation = None, !.busy = FALSE, !.error = FALSE,
                                    !.result = call.scan]
            /\ UNCHANGED unsettled
       ELSE /\ flow' = [AfterFailure EXCEPT !.operation = None, !.busy = FALSE]
            /\ unsettled' = unsettled \cup {call.scan}
    /\ UNCHANGED <<account, hostVars, online, scanCount>>

\* disconnect: the event of the browser.
Disconnected == [flow EXCEPT !.operation = None, !.busy = FALSE, !.loading = FALSE,
                             !.status = "pending", !.error = TRUE, !.failures = 3]

GoOffline ==
    /\ online /\ ScanHappens /\ online' = FALSE
    /\ IF flow = None THEN UNCHANGED <<flow, scanCalls, unsettled>>
       ELSE /\ unsettled' = Unheard
            /\ scanCalls' = Abort(scanCalls, flow.operation)
            /\ flow' = Disconnected
    /\ UNCHANGED <<account, hostVars>>

GoOnline ==
    /\ ~online /\ online' = TRUE
    /\ UNCHANGED <<account, hostVars, flow, scanCalls, scanCount, unsettled>>

\* faulty: the form is shown over the flow
KeepsFlow ==
    UNCHANGED <<flow, unsettled, scanCalls>>

\* The step that hosts the flow is left: an answer finds nobody.
Unmount ==
    /\ flow' = None
    /\ unsettled' = Unheard
    /\ scanCalls' = IF flow = None THEN scanCalls ELSE Abort(scanCalls, flow.operation)

\* The text of the state and the buttons around it.
FlowView ==
    IF flow.result # None THEN "bound"
    ELSE IF ~online THEN "offline"
    ELSE IF flow.loading THEN "preparing" ELSE flow.status

-----------------------------------------------------------------------------
(* The dialogs *)

\* It opens and asks whether the account is bound; the retry of an error asks again.
OpenScanDialog ==
    /\ dialogStep \in {"closed", "error"}
    /\ dialogStep' = "checking" /\ addError' = FALSE
    /\ SendScan([op |-> "status"])
    /\ UNCHANGED <<account, host, need, adding, flow, online, unsettled>>

\* Closing gives up the question; an addition on its way goes on.
CloseScanDialog ==
    /\ dialogStep # "closed"
    /\ dialogStep' = "closed"
    /\ flow' = None /\ unsettled' = Unheard
    /\ scanCalls' =
           LET asked == Waiting(scanCalls, {"status"})
               kept == IF flow = None THEN scanCalls ELSE Abort(scanCalls, flow.operation)
           IN  [s \in Slots |-> IF s \in asked THEN NoCall ELSE kept[s]]
    /\ UNCHANGED <<account, host, need, addError, adding, online, scanCount>>

\* What the answer asks for: a binding first, or the form.
LandStatus(s) ==
    LET call == scanCalls[s]
        required == call.answer.kind = "ok" /\ scanEnabled /\ ~call.answer.body
    IN
    /\ call.op = "status" /\ call.answer # Unanswered
    /\ dialogStep' = IF call.answer.kind # "ok" THEN "error"
                     ELSE IF required THEN "binding" ELSE "form"
    /\ addError' = (call.answer.kind # "ok")
    /\ need' = IF call.answer.kind # "ok" THEN need ELSE IF required THEN "bind" ELSE None
    /\ flow' = IF required THEN FreshFlow ELSE None
    /\ scanCalls' = End(scanCalls, s)
    /\ UNCHANGED <<account, host, adding, online, scanCount, unsettled>>

\* The way from the form to the code, and back to a form that was filled in.
StartBinding ==
    /\ dialogStep = "form" /\ online /\ scanEnabled /\ (host = "add" => need # None)
    /\ dialogStep' = "binding" /\ flow' = FreshFlow
    /\ UNCHANGED <<account, host, need, addError, adding, online, scanCalls, scanCount, unsettled>>

BackToForm ==
    /\ dialogStep = "binding" /\ host = "add" /\ flow.status # "confirming" /\ flow.result = None
    /\ dialogStep' = "form" /\ Unmount
    /\ UNCHANGED <<account, host, need, addError, adding, online, scanCount>>

\* onContinue: the settings close, the other dialog goes on with the form.
ContinueBound ==
    /\ flow # None /\ flow.result # None
    /\ dialogStep' = IF host = "add" THEN "form" ELSE "closed"
    /\ need' = IF host = "add" THEN None ELSE need
    /\ addError' = FALSE /\ Unmount
    /\ UNCHANGED <<account, host, adding, online, scanCount>>

\* faulty: only the form that is open knows of an addition
NoLock == dialogStep = "form"

\* submitLock is kept while the dialog closes and opens again.
Unlocked == adding = None

SubmitAdd ==
    /\ dialogStep = "form" /\ host = "add" /\ need = None /\ Unlocked
    /\ SendScan([op |-> "add"])
    /\ adding' = NextSlot(scanCalls) /\ addError' = FALSE
    /\ UNCHANGED <<account, host, dialogStep, need, flow, online, unsettled>>

\* A success closes the dialog, which may be open anew; a failure shows there.
LandAdd(s) ==
    LET call == scanCalls[s]
        ok == call.answer.kind = "ok"
        code == IF call.answer.kind = "refused" THEN call.answer.code ELSE "none"
    IN
    /\ call.op = "add" /\ call.answer # Unanswered
    /\ adding' = None /\ addError' = ~ok
    /\ need' = IF code \in {"bind", "rescan"} THEN code ELSE need
    /\ IF ok /\ dialogStep # "closed"
       THEN /\ dialogStep' = "closed" /\ flow' = None /\ unsettled' = Unheard
            /\ scanCalls' =
                   LET asked == Waiting(scanCalls, {"status"}) \cup {s}
                       kept == IF flow = None THEN scanCalls ELSE Abort(scanCalls, flow.operation)
                   IN  [z \in Slots |-> IF z \in asked THEN NoCall ELSE kept[z]]
       ELSE scanCalls' = End(scanCalls, s) /\ UNCHANGED <<dialogStep, flow, unsettled>>
    /\ UNCHANGED <<account, host, online, scanCount>>

-----------------------------------------------------------------------------
(* The backend *)

AnswerScan(s, answer) ==
    /\ scanCalls[s].answer = Unanswered
    /\ scanCalls' = [scanCalls EXCEPT ![s].answer = answer]
    /\ UNCHANGED <<scanEnabled, hostVars, flow, online, scanCount, unsettled>>

ServeStatus(s) ==
    /\ scanCalls[s].op = "status" /\ AnswerScan(s, Ok(bound))
    /\ UNCHANGED <<scans, bound, additions>>

\* rememberQR
ServeCreateQR(s) ==
    /\ scanCalls[s].op = "create"
    /\ \E q \in Scans :
          /\ scans[q] = "unused"
          /\ scans' = [scans EXCEPT ![q] = "pending"]
          /\ AnswerScan(s, Ok(q))
    /\ UNCHANGED <<bound, additions>>

ServePoll(s) ==
    /\ scanCalls[s].op = "check"
    /\ AnswerScan(s, IF scans[scanCalls[s].scan] = "gone" THEN Refused("gone")
                     ELSE Ok(scans[scanCalls[s].scan]))
    /\ UNCHANGED <<scans, bound, additions>>

\* A confirmation reaches the backend: one of a user at a time, and none twice.
ArriveConfirm(s) ==
    LET call == scanCalls[s] IN
    /\ call.op = "confirm" /\ call.answer = Unanswered /\ ~call.arrived
    /\ CASE scans[call.scan] = "saved" -> AnswerScan(s, Ok(call.scan)) /\ UNCHANGED scans
         [] scans[call.scan] = "authorized" /\ \A q \in Scans : scans[q] # "confirming" ->
              /\ scans' = [scans EXCEPT ![call.scan] = "confirming"]
              /\ scanCalls' = [scanCalls EXCEPT ![s].arrived = TRUE]
              /\ UNCHANGED <<scanEnabled, hostVars, flow, online, scanCount, unsettled>>
         [] OTHER -> AnswerScan(s, Refused("busy")) /\ UNCHANGED scans
    /\ UNCHANGED <<bound, additions>>

\* It ends whether or not the page still waits: saved, which drops the other sessions
\* of the user, or failed.
FinishConfirm(q) ==
    LET waits == {s \in Slots : /\ scanCalls[s].op = "confirm" /\ scanCalls[s].scan = q
                                /\ scanCalls[s].arrived /\ scanCalls[s].answer = Unanswered}
        Tell(answer) == scanCalls' = [s \in Slots |-> IF s \in waits
                                                      THEN [scanCalls[s] EXCEPT !.answer = answer]
                                                      ELSE scanCalls[s]]
    IN
    /\ scans[q] = "confirming"
    /\ \/ /\ scans' = [r \in Scans |-> IF r = q THEN "saved"
                                       ELSE IF scans[r] = "unused" THEN "unused" ELSE "gone"]
          /\ bound' = TRUE /\ Tell(Ok(q))
       \/ scans' = [scans EXCEPT ![q] = "authorized"] /\ Tell(Refused("failed")) /\ UNCHANGED bound
    /\ UNCHANGED <<scanEnabled, additions, hostVars, flow, online, scanCount, unsettled>>

\* The provider can refuse the stored login of a bound account.
ServeAdd(s) ==
    /\ scanCalls[s].op = "add"
    /\ IF scanEnabled /\ ~bound THEN AnswerScan(s, Refused("bind")) /\ UNCHANGED additions
       ELSE \/ AnswerScan(s, Ok(None)) /\ additions' = additions + 1
            \/ scanEnabled /\ AnswerScan(s, Refused("rescan")) /\ UNCHANGED additions
    /\ UNCHANGED <<scans, bound>>

LoseScanAnswer(s) ==
    /\ s \in Busy(scanCalls) /\ scanCalls[s].answer # Lost
    /\ scanCalls' = LoseAnswer(scanCalls, s)
    /\ UNCHANGED <<account, hostVars, flow, online, scanCount, unsettled>>

\* The phone authorizes a session, or it expires.
PhoneActs ==
    /\ ScanHappens
    /\ \E q \in Scans, state \in {"authorized", "expired"} :
          scans[q] \in {"pending", "authorized"} /\ scans' = [scans EXCEPT ![q] = state]
    /\ UNCHANGED <<bound, scanEnabled, additions, hostVars, flow, online, scanCalls, unsettled>>

-----------------------------------------------------------------------------
ScanNext ==
    \/ CreateQR \/ CheckQR \/ ConfirmQR \/ GoOffline \/ GoOnline
    \/ OpenScanDialog \/ CloseScanDialog \/ StartBinding \/ BackToForm \/ ContinueBound
    \/ SubmitAdd \/ PhoneActs
    \/ \E q \in Scans : FinishConfirm(q)
    \/ \E s \in Slots : \/ LandCreate(s) \/ LandCheck(s) \/ LandConfirm(s) \/ LandStatus(s)
                        \/ LandAdd(s) \/ ServeStatus(s) \/ ServeCreateQR(s) \/ ServePoll(s)
                        \/ ArriveConfirm(s) \/ ServeAdd(s) \/ LoseScanAnswer(s)

ScanSpec == ScanInit /\ [][ScanNext]_scanVars

-----------------------------------------------------------------------------
\* The flow is mounted exactly in the binding step, which asks only for a deployment
\* that scans (add-pile-dialog.tsx:221, yyb-login-dialog.tsx:99).
ScanTypeOK ==
    /\ flow # None <=> dialogStep = "binding"
    /\ dialogStep = "binding" => scanEnabled
    /\ flow # None => flow.failures \in 0..3 /\ FlowView \in {"bound", "offline", "preparing",
                                     "pending", "authorized", "expired", "confirming"}
    /\ need \in {None, "bind", "rescan"} /\ addError \in BOOLEAN

\* What the flow calls bound was saved by the backend for the very code that is shown,
\* whatever answers of codes before it are still on their way
\* (yyb-binding-flow.tsx:77, 140-148, 205-208).
BoundIsSaved ==
    flow # None /\ flow.result # None =>
        flow.result = flow.qr /\ scans[flow.qr] \in {"saved", "gone"} /\ bound

\* A confirmation whose end the page did not hear is not sent again before a check has
\* told what became of it (yyb-binding-flow.tsx:210-214).
ConfirmIsSettled == CanConfirm => flow.qr \notin unsettled

\* The flow is locked exactly while the operation that locked it is on its way: one that
\* was given up neither frees nor keeps it (yyb-binding-flow.tsx:89-92, 113-123, 162-166).
FlowLocksAreLive ==
    flow # None =>
        /\ flow.loading \/ flow.busy <=> flow.operation # None
        /\ flow.operation # None =>
              LET call == scanCalls[flow.operation] IN
              call.op \in IF flow.loading THEN {"create"} ELSE {"check", "confirm"}

\* One addition is on its way at a time, however often the dialog was closed and opened
\* meanwhile (add-pile-dialog.tsx:120-121, 162).
OneAddition == Waiting(scanCalls, {"add"}) = IF adding = None THEN {} ELSE {adding}
=============================================================================
