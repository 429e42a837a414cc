---------------------------- MODULE WxPusherCard ----------------------------
(***************************************************************************)
(* The card of the web console for reminders by WeChat: it loads the       *)
(* channel, binds it by a code that it polls while the dialog is open,     *)
(* changes its settings, and sends and rechecks a test message.  Its       *)
(* handlers overlap: what one of them stores must leave the rest alone.    *)
(***************************************************************************)
EXTENDS HttpCalls

CONSTANTS Events,     \* what a channel can be told of
          CardSteps   \* bound: requests of the card and changes around it

ASSUME CardAssumption ==
    /\ IsFiniteSet(Events) /\ CardSteps \in Nat
    /\ None \notin Events /\ None # "enabled" /\ None \notin Slots

VARIABLES
    wx,              \* the channel of the backend: [bound, enabled, events, test]
    bindSession,     \* its newest bind session: none, waiting, scanned, bound or over
    codes,           \* the codes that were made, the newest of them of that session
    channel,         \* the channel the card shows, or None
    channelLoading, channelFailed,
    cardSession,         \* the bind session of the card: None, waiting, bound or over
    cardCode,        \* its code
    pollInFlight,
    pollRef,         \* abortRef: the poll that stopPolling would abort, or None
    bindOpen, confirmUnbind,
    fetchingCode,    \* binding
    unbinding,
    pendingSetting,  \* the switch that is being saved: an event, "enabled" or None
    testing, rechecking,
    cardCalls,
    cardCount,
    settled,         \* ghost: a load that nothing overlapped, and only such changes since
    strayed          \* ghost: the late end of a handler has freed the flag of another poll

cardVars == <<wx, bindSession, codes, channel, channelLoading, channelFailed, cardSession, cardCode,
              pollInFlight, pollRef, bindOpen, confirmUnbind, fetchingCode, unbinding,
              pendingSetting, testing, rechecking, cardCalls, cardCount, settled, strayed>>

provided == <<wx, bindSession, codes>>
polling == <<cardSession, cardCode, pollInFlight, pollRef, strayed>>
dialogs == <<bindOpen, confirmUnbind>>
loads == <<channelLoading, channelFailed>>
locks == <<fetchingCode, unbinding, pendingSetting, testing, rechecking>>

\* A delivery that is not one of these is asked for again: queued and accepted.
terminalDeliveryStatuses == {"none", "provider_succeeded", "uncertain", "failed"}

NoChannel == [bound |-> FALSE, enabled |-> FALSE, events |-> {}, test |-> "none"]

\* A card without a binding may have been loaded already: the bound has room for two codes.
CardInit ==
    /\ wx \in {NoChannel} \cup
              {[bound |-> TRUE, enabled |-> TRUE, events |-> e, test |-> "none"] : e \in SUBSET Events}
    /\ bindSession = "none" /\ codes = 0
    /\ channel \in (IF wx.bound THEN {None} ELSE {None, wx})
    /\ channelLoading = FALSE /\ channelFailed = FALSE
    /\ cardSession = None /\ cardCode = 0 /\ pollInFlight = FALSE /\ pollRef = None
    /\ strayed = FALSE /\ bindOpen = FALSE /\ confirmUnbind = FALSE
    /\ fetchingCode = FALSE /\ unbinding = FALSE /\ pendingSetting = None
    /\ testing = FALSE /\ rechecking = FALSE
    /\ cardCalls = NoCalls /\ cardCount = 0 /\ settled = FALSE

CardHappens == cardCount < CardSteps /\ cardCount' = cardCount + 1

\* Requests whose answer replaces or changes the settings that are shown.
Writers == {"load", "unbind", "setting", "poll"}

SendCard(call) ==
    /\ CardHappens /\ Free(cardCalls) # {}
    /\ cardCalls' = Post(cardCalls, call, Writers)

\* ghost: what an answer makes of settled.
Settles(call) == settled' = SureAfter(call, settled, {"load"})

-----------------------------------------------------------------------------
(* Loading the channel *)

hasPendingDelivery ==
    ~channelFailed /\ channel # None /\ channel.test \notin terminalDeliveryStatuses

\* loadChannel: at first, by its button, or every ten seconds for a delivery in doubt;
\* not while it already loads.
LoadChannel ==
    /\ Waiting(cardCalls, {"load"}) = {}
    /\ channel = None \/ channelFailed \/ hasPendingDelivery
    /\ SendCard([op |-> "load", then |-> "none"])
    /\ channelLoading' = TRUE
    /\ UNCHANGED <<provided, channel, channelFailed, polling, dialogs, locks, settled>>

\* The poll that told of the binding waits for its load too, and ends behind it: its
\* finally frees the flag, whoever holds it by now.
EndsHandler(call) ==
    /\ pollInFlight' = (pollInFlight /\ call.then # "poll")
    /\ strayed' = (strayed \/ (pollInFlight /\ call.then = "poll"))

LandChannel(s) ==
    LET call == cardCalls[s] IN
    /\ call.op = "load" /\ call.answer # Unanswered
    /\ channel' = IF Succeeds(call) THEN call.answer.body ELSE channel
    /\ channelFailed' = ~Succeeds(call) /\ channelLoading' = FALSE
    /\ cardCalls' = End(cardCalls, s) /\ Settles(call) /\ EndsHandler(call)
    /\ UNCHANGED <<provided, cardSession, cardCode, pollRef, dialogs, locks, cardCount>>

\* What the card shows: its body only for a channel that is bound.
CardBody ==
    CASE channel = None -> IF channelLoading THEN "loading" ELSE "failed"
      [] ~channel.bound -> "unbound"
      [] OTHER -> "bound"

\* Dialogs cover the card.
Uncovered == ~bindOpen /\ ~confirmUnbind

-----------------------------------------------------------------------------
(* Binding *)

\* stopPolling: the poll that is known is aborted, and its handler is over at once.
StopPolling(calls) == IF pollRef = None THEN calls ELSE End(calls, pollRef)

\* faulty: the poll goes on behind the closed dialog
KeepPolling(calls) == calls

Stops ==
    /\ cardCalls' = StopPolling(cardCalls) /\ pollRef' = None /\ pollInFlight' = FALSE
    /\ strayed' = (strayed /\ Waiting(cardCalls', {"poll"}) # {})
    /\ settled' = (settled /\ cardCalls' = cardCalls)

\* beginBinding: a code that is still valid by the clock of the browser, which need not
\* be the backend's, is shown again; otherwise a new one is asked for.
BeginBinding ==
    /\ CardBody = "unbound" /\ Uncovered /\ ~fetchingCode
    /\ \/ /\ cardSession = "waiting" /\ bindOpen' = TRUE
          /\ UNCHANGED <<fetchingCode, cardCalls, cardCount>>
       \/ SendCard([op |-> "bind"]) /\ fetchingCode' = TRUE /\ UNCHANGED bindOpen
    /\ UNCHANGED <<provided, channel, loads, polling, confirmUnbind, unbinding, pendingSetting,
                   testing, rechecking, settled>>

LandBinding(s) ==
    LET call == cardCalls[s] IN
    /\ call.op = "bind" /\ call.answer # Unanswered
    /\ IF Succeeds(call)
       THEN cardSession' = "waiting" /\ cardCode' = call.answer.body /\ bindOpen' = TRUE
       ELSE UNCHANGED <<cardSession, cardCode, bindOpen>>
    /\ fetchingCode' = FALSE /\ cardCalls' = End(cardCalls, s)
    /\ UNCHANGED <<provided, channel, loads, pollInFlight, pollRef, strayed, confirmUnbind, unbinding,
                   pendingSetting, testing, rechecking, cardCount, settled>>

\* changeBindOpen(false)
CloseBinding ==
    /\ bindOpen /\ bindOpen' = FALSE /\ Stops
    /\ UNCHANGED <<provided, channel, loads, cardSession, cardCode, confirmUnbind, locks, cardCount>>

\* faulty: the flag is not asked
PollsAnyway == TRUE

PollFree == ~pollInFlight

\* poll, when nextPollAt has come.
Poll ==
    /\ bindOpen /\ cardSession = "waiting" /\ PollFree
    /\ SendCard([op |-> "poll", code |-> cardCode])
    /\ pollInFlight' = TRUE /\ pollRef' = NextSlot(cardCalls)
    /\ UNCHANGED <<provided, channel, loads, cardSession, cardCode, strayed, dialogs, locks, settled>>

\* A bound session stops the polling, a later poll included, and loads the channel; the
\* handler ends behind that load, or at once when one is on its way already.
LandPoll(s) ==
    LET call == cardCalls[s]
        told == Succeeds(call) /\ call.answer.body = "bound"
        reload == told /\ Waiting(cardCalls, {"load"}) = {}
        rest == End(IF told THEN StopPolling(cardCalls) ELSE cardCalls, s)
    IN
    /\ call.op = "poll" /\ call.answer # Unanswered
    /\ IF Succeeds(call) THEN cardSession' = call.answer.body /\ cardCode' = call.code
       ELSE UNCHANGED <<cardSession, cardCode>>
    /\ cardCalls' = IF reload THEN Post(rest, [op |-> "load", then |-> "poll"], Writers) ELSE rest
    /\ channelLoading' = (channelLoading \/ reload)
    /\ pollInFlight' = FALSE /\ pollRef' = IF told \/ pollRef = s THEN None ELSE pollRef
    /\ strayed' = (strayed /\ Waiting(rest, {"poll"}) # {})
    /\ settled' = (settled /\ Succeeds(call) /\ ~told)
    /\ UNCHANGED <<provided, channel, channelFailed, dialogs, locks, cardCount>>

\* The countdown of the dialog runs out.
SessionRunsOut ==
    /\ bindOpen /\ cardSession = "waiting" /\ cardSession' = "over" /\ Stops
    /\ UNCHANGED <<provided, channel, loads, cardCode, dialogs, locks, cardCount>>

AskUnbind ==
    /\ CardBody = "bound" /\ Uncovered /\ confirmUnbind' = TRUE
    /\ UNCHANGED <<provided, channel, loads, polling, bindOpen, locks, cardCalls, cardCount, settled>>

CancelUnbind ==
    /\ confirmUnbind /\ confirmUnbind' = FALSE
    /\ UNCHANGED <<provided, channel, loads, polling, bindOpen, locks, cardCalls, cardCount, settled>>

Unbind ==
    /\ confirmUnbind /\ ~unbinding
    /\ SendCard([op |-> "unbind"]) /\ unbinding' = TRUE
    /\ UNCHANGED <<provided, channel, loads, polling, dialogs, fetchingCode, pendingSetting, testing,
                   rechecking, settled>>

LandUnbind(s) ==
    LET call == cardCalls[s] IN
    /\ call.op = "unbind" /\ call.answer # Unanswered
    /\ IF Succeeds(call)
       THEN /\ confirmUnbind' = FALSE
            /\ channel' = [channel EXCEPT !.bound = FALSE, !.enabled = FALSE]
       ELSE UNCHANGED <<confirmUnbind, channel>>
    /\ unbinding' = FALSE /\ cardCalls' = End(cardCalls, s) /\ Settles(call)
    /\ UNCHANGED <<provided, loads, polling, bindOpen, fetchingCode, pendingSetting, testing,
                   rechecking, cardCount>>

-----------------------------------------------------------------------------
(* Settings *)

\* faulty: only the switch that is being saved is locked
OwnSwitch(switch) == pendingSetting # switch

\* One switch at a time.
SwitchFree(switch) == pendingSetting = None

\* setEnabled and toggleEvent: the list of events is sent as it is shown, with one
\* event added or taken away.
Change(switch, patch) ==
    /\ CardBody = "bound" /\ Uncovered /\ SwitchFree(switch)
    /\ SendCard([op |-> "setting", switch |-> switch, patch |-> patch])
    /\ pendingSetting' = switch
    /\ UNCHANGED <<provided, channel, loads, polling, dialogs, fetchingCode, unbinding, testing,
                   rechecking, settled>>

SetEnabled == channel # None /\ Change("enabled", [enabled |-> ~channel.enabled])

ToggleEvent(event) ==
    /\ channel # None /\ channel.enabled
    /\ Change(event, [events |-> IF event \in channel.events THEN channel.events \ {event}
                                 ELSE channel.events \cup {event}])

LandSetting(s) ==
    LET call == cardCalls[s] IN
    /\ call.op = "setting" /\ call.answer # Unanswered
    /\ channel' = IF Succeeds(call) THEN call.answer.body ELSE channel
    /\ pendingSetting' = None /\ cardCalls' = End(cardCalls, s) /\ Settles(call)
    /\ UNCHANGED <<provided, loads, polling, dialogs, fetchingCode, unbinding, testing, rechecking,
                   cardCount>>

-----------------------------------------------------------------------------
(* The test message *)

\* The button below the settings, and the one beside a test that failed.
SendTest ==
    /\ CardBody = "bound" /\ Uncovered /\ ~testing
    /\ channel.enabled \/ channel.test = "failed"
    /\ SendCard([op |-> "test", shown |-> channel]) /\ testing' = TRUE
    /\ UNCHANGED <<provided, channel, loads, polling, dialogs, fetchingCode, unbinding,
                   pendingSetting, rechecking, settled>>

\* Beside a test that was accepted, or whose outcome is uncertain.
RecheckTest ==
    /\ CardBody = "bound" /\ Uncovered /\ ~rechecking /\ channel.test \in {"accepted", "uncertain"}
    /\ SendCard([op |-> "recheck", shown |-> channel]) /\ rechecking' = TRUE
    /\ UNCHANGED <<provided, channel, loads, polling, dialogs, fetchingCode, unbinding,
                   pendingSetting, testing, settled>>

\* faulty: the channel the handler started with is stored again
WithOldChannel(call) == [call.shown EXCEPT !.test = call.answer.body]

\* setChannel(current => ...): only the delivery changes.
WithDelivery(call) == [channel EXCEPT !.test = call.answer.body]

LandTest(s) ==
    LET call == cardCalls[s] IN
    /\ call.op \in {"test", "recheck"} /\ call.answer # Unanswered
    /\ channel' = IF Succeeds(call) THEN WithDelivery(call) ELSE channel
    /\ testing' = (testing /\ call.op # "test")
    /\ rechecking' = (rechecking /\ call.op # "recheck")
    /\ cardCalls' = End(cardCalls, s)
    /\ UNCHANGED <<provided, loads, polling, dialogs, fetchingCode, unbinding, pendingSetting,
                   cardCount, settled>>

-----------------------------------------------------------------------------
(* The backend *)

AnswerCard(s, answer) ==
    /\ cardCalls[s].answer = Unanswered
    /\ cardCalls' = [cardCalls EXCEPT ![s].answer = answer]
    /\ UNCHANGED <<channel, loads, polling, dialogs, locks, cardCount, settled>>

ServeChannel(s) ==
    /\ cardCalls[s].op = "load" /\ AnswerCard(s, Ok(wx)) /\ UNCHANGED provided

\* One binding and one open code of a user (WxPusherBinding models the backend's part).
ServeBind(s) ==
    /\ cardCalls[s].op = "bind"
    /\ IF wx.bound \/ bindSession \in {"waiting", "scanned"}
       THEN AnswerCard(s, Refused("active")) /\ UNCHANGED <<bindSession, codes>>
       ELSE /\ bindSession' = "waiting" /\ codes' = codes + 1
            /\ AnswerCard(s, Ok(codes + 1))
    /\ UNCHANGED wx

CodeIsOpen(code) == code = codes /\ bindSession \in {"waiting", "scanned"}

\* What is said of a code that was used, or is over: expired and failed are told apart by
\* their wording only.
StatusesOf(code) ==
    CASE ~wx.bound -> {"over"}
      [] code = codes /\ bindSession = "bound" -> {"bound"}
      [] OTHER -> {"bound", "over"}

\* A code that was scanned binds the channel when it is polled, unless the receiver is
\* another user's; asked too early, or without an answer of the provider, it still waits.
ServePollCard(s) ==
    LET code == cardCalls[s].code IN
    /\ cardCalls[s].op = "poll"
    /\ \/ /\ CodeIsOpen(code) /\ AnswerCard(s, Ok("waiting")) /\ UNCHANGED <<wx, bindSession>>
       \/ /\ CodeIsOpen(code) /\ bindSession = "scanned" /\ bindSession' = "bound"
          /\ AnswerCard(s, Ok("bound")) /\ wx' = [wx EXCEPT !.bound = TRUE, !.enabled = TRUE]
       \/ /\ CodeIsOpen(code) /\ bindSession = "scanned" /\ bindSession' = "over"
          /\ AnswerCard(s, Ok("over")) /\ UNCHANGED wx
       \/ /\ ~CodeIsOpen(code) /\ UNCHANGED <<wx, bindSession>>
          /\ \E status \in StatusesOf(code) : AnswerCard(s, Ok(status))
    /\ UNCHANGED codes

ServeUnbind(s) ==
    /\ cardCalls[s].op = "unbind" /\ AnswerCard(s, Ok(None))
    /\ wx' = [wx EXCEPT !.bound = FALSE, !.enabled = FALSE] /\ UNCHANGED <<bindSession, codes>>

ServeSetting(s) ==
    /\ cardCalls[s].op = "setting"
    /\ IF wx.bound
       THEN wx' = With(cardCalls[s].patch, wx) /\ AnswerCard(s, Ok(wx'))
       ELSE AnswerCard(s, Refused("unbound")) /\ UNCHANGED wx
    /\ UNCHANGED <<bindSession, codes>>

ServeTest(s) ==
    /\ cardCalls[s].op = "test"
    /\ IF wx.bound /\ wx.enabled THEN wx' = [wx EXCEPT !.test = "queued"] /\ AnswerCard(s, Ok("queued"))
       ELSE AnswerCard(s, Refused("disabled")) /\ UNCHANGED wx
    /\ UNCHANGED <<bindSession, codes>>

ServeRecheck(s) ==
    /\ cardCalls[s].op = "recheck"
    /\ \E status \in {wx.test, "provider_succeeded", "failed"} :
          wx' = [wx EXCEPT !.test = status] /\ AnswerCard(s, Ok(status))
    /\ UNCHANGED <<bindSession, codes>>

LoseCardAnswer(s) ==
    /\ s \in Busy(cardCalls) /\ cardCalls[s].answer # Lost
    /\ cardCalls' = LoseAnswer(cardCalls, s)
    /\ UNCHANGED <<provided, channel, loads, polling, dialogs, locks, cardCount, settled>>

\* The code is scanned.
ScanCode ==
    /\ bindSession = "waiting" /\ bindSession' = "scanned"
    /\ UNCHANGED <<wx, codes, channel, loads, polling, dialogs, locks, cardCalls, cardCount, settled>>

\* The time of the code is over.
CodeExpires ==
    /\ bindSession \in {"waiting", "scanned"} /\ bindSession' = "over"
    /\ UNCHANGED <<wx, codes, channel, loads, polling, dialogs, locks, cardCalls, cardCount, settled>>

\* Another page of the user removes the binding.
UnbindElsewhere ==
    /\ wx.bound /\ wx' = [wx EXCEPT !.bound = FALSE, !.enabled = FALSE]
    /\ cardCalls' = Crossed(cardCalls, Writers) /\ settled' = FALSE
    /\ UNCHANGED <<bindSession, codes, channel, loads, polling, dialogs, locks, cardCount>>

\* The dispatcher sends the test.
Dispatch ==
    /\ wx.test \in {"queued", "accepted"} /\ CardHappens
    /\ \E status \in {"accepted", "uncertain", "failed"} \ {wx.test} : wx' = [wx EXCEPT !.test = status]
    /\ UNCHANGED <<bindSession, codes, channel, loads, polling, dialogs, locks, cardCalls, settled>>

-----------------------------------------------------------------------------
CardNext ==
    \/ LoadChannel \/ BeginBinding \/ CloseBinding \/ Poll \/ SessionRunsOut
    \/ AskUnbind \/ CancelUnbind \/ Unbind \/ SetEnabled \/ SendTest \/ RecheckTest
    \/ ScanCode \/ CodeExpires \/ UnbindElsewhere \/ Dispatch
    \/ \E event \in Events : ToggleEvent(event)
    \/ \E s \in Slots : \/ LandChannel(s) \/ LandBinding(s) \/ LandPoll(s) \/ LandUnbind(s)
                        \/ LandSetting(s) \/ LandTest(s) \/ ServeChannel(s) \/ ServeBind(s)
                        \/ ServePollCard(s) \/ ServeUnbind(s) \/ ServeSetting(s) \/ ServeTest(s)
                        \/ ServeRecheck(s) \/ LoseCardAnswer(s)

CardSpec == CardInit /\ [][CardNext]_cardVars

-----------------------------------------------------------------------------
\* Polling is never locked out: the flag is held by a poll that is on its way and that
\* closing the dialog would abort.  A code is polled only in front of the user, while it
\* can be scanned and by one request at a time, except where a handler that saw an earlier
\* code bound ends beside the poll of a later one
\* (wxpusher-channel-card.tsx:250-259, 283-310, 318-319).
OnePoll ==
    LET polls == Waiting(cardCalls, {"poll"}) IN
    /\ pollInFlight => pollRef \in polls
    /\ polls # {} /\ ~strayed =>
          polls = {pollRef} /\ pollInFlight /\ bindOpen /\ cardSession = "waiting"

\* Every lock of the card is held by exactly one request that is on its way
\* (wxpusher-channel-card.tsx:188-200, 347-461).
CardLocksAreLive ==
    \A lock \in {<<channelLoading, "load">>, <<fetchingCode, "bind">>, <<unbinding, "unbind">>,
                 <<pendingSetting # None, "setting">>, <<testing, "test">>, <<rechecking, "recheck">>} :
        Cardinality(Waiting(cardCalls, {lock[2]})) = IF lock[1] THEN 1 ELSE 0

\* After a load that nothing overlapped, the settings that are shown are the backend's:
\* a test that is sent or rechecked beside a change never brings back an older setting
\* (wxpusher-channel-card.tsx:352-361, 374-375, 409-411, 430-432).
SettingsAreCurrent ==
    settled /\ Waiting(cardCalls, {"poll", "unbind", "setting"}) = {} =>
        /\ channel.bound = wx.bound /\ channel.enabled = wx.enabled /\ channel.events = wx.events
=============================================================================
