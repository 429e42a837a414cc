---------------------------- MODULE DeviceHistory ----------------------------
(***************************************************************************)
(* DeviceHistorySheet: the history of a pile over a range, and below it    *)
(* the history of one of its ports.  Each of the two is loaded by an       *)
(* effect that gives up the load before it, and by a button after it       *)
(* failed.                                                                 *)
(***************************************************************************)
EXTENDS HttpCalls

CONSTANTS
    Ports,         \* ports of the pile
    Ranges,        \* the periods that can be shown
    HistorySteps   \* bound: what the user does with the sheet

ASSUME HistoryAssumption ==
    /\ None \notin Slots \cup Ports \cup Ranges \cup (Ranges \X Ports)
    /\ HistorySteps \in Nat

VARIABLES
    historyOpen,
    historyRange,
    selectedPort,   \* None for a pile that has no port
    deviceLoad,     \* of the pile: [shown, failed, loading, controller]
    portLoad,       \* of its port, likewise
    historyCalls,
    historySteps

historyVars == <<historyOpen, historyRange, selectedPort, deviceLoad, portLoad, historyCalls,
                 historySteps>>

NeverLoaded == [shown |-> None, failed |-> FALSE, loading |-> FALSE, controller |-> None]

\* The first port of the pile, or the one that was asked for if the pile has it.
HistoryInit ==
    /\ historyOpen = FALSE /\ historyRange \in Ranges
    /\ selectedPort \in Ports \cup {None}
    /\ deviceLoad = NeverLoaded /\ portLoad = NeverLoaded
    /\ historyCalls = NoCalls /\ historySteps = 0

HistoryHappens == historySteps < HistorySteps /\ historySteps' = historySteps + 1

\* abort: the browser drops what has no answer yet.
GivenUp(calls, controller) ==
    IF controller # None /\ calls[controller].answer = Unanswered
    THEN LoseAnswer(calls, controller) ELSE calls

Starts(calls) == [shown |-> None, failed |-> FALSE, loading |-> TRUE, controller |-> NextSlot(calls)]

\* historyApi: the pile over a range, and one of its ports
DeviceRequest(range) == [op |-> "device", of |-> range, answer |-> Unanswered]
PortRequest(range, port) == [op |-> "port", of |-> <<range, port>>, answer |-> Unanswered]

\* faulty: what a load brings is shown whatever was started since
OwnsAny(load, s) == TRUE

\* The signal of a handler was not aborted.  A slot can be taken again once its handler ended,
\* which is after any later load began.
Owns(load, s) == load.controller = s

\* loadDevice and loadPort, as both effects run them.
LoadBoth(range, port, calls) ==
    LET dropped == GivenUp(GivenUp(calls, deviceLoad.controller), portLoad.controller)
        asked == Begin(dropped, DeviceRequest(range))
    IN
    /\ Free(dropped) # {} /\ deviceLoad' = Starts(dropped)
    /\ IF port = None THEN historyCalls' = asked /\ UNCHANGED portLoad
       ELSE /\ Free(asked) # {}
            /\ historyCalls' = Begin(asked, PortRequest(range, port))
            /\ portLoad' = Starts(asked)

OpenHistory ==
    /\ ~historyOpen /\ HistoryHappens
    /\ historyOpen' = TRUE
    /\ LoadBoth(historyRange, selectedPort, historyCalls)
    /\ UNCHANGED <<historyRange, selectedPort>>

\* The cleanup of the effects aborts both loads; their spinners stay until it is opened again.
CloseHistory ==
    /\ historyOpen /\ historyOpen' = FALSE
    /\ historyCalls' = GivenUp(GivenUp(historyCalls, deviceLoad.controller), portLoad.controller)
    /\ deviceLoad' = [deviceLoad EXCEPT !.controller = None]
    /\ portLoad' = [portLoad EXCEPT !.controller = None]
    /\ UNCHANGED <<historyRange, selectedPort, historySteps>>

ChooseRange(range) ==
    /\ historyOpen /\ range # historyRange /\ HistoryHappens
    /\ historyRange' = range
    /\ LoadBoth(range, selectedPort, historyCalls)
    /\ UNCHANGED <<historyOpen, selectedPort>>

\* The body of the sheet: the port and its tabs are there with the pile only.
DeviceView ==
    IF deviceLoad.shown # None THEN "history"
    ELSE IF deviceLoad.loading THEN "loading"
    ELSE IF deviceLoad.failed THEN "failed" ELSE "blank"

PortView ==
    IF selectedPort = None THEN "no port"
    ELSE IF portLoad.loading THEN "loading"
    ELSE IF portLoad.failed THEN "failed"
    ELSE IF portLoad.shown # None THEN "history" ELSE "blank"

ReadPort(port) ==
    LET dropped == GivenUp(historyCalls, portLoad.controller) IN
    /\ HistoryHappens /\ Free(dropped) # {}
    /\ historyCalls' = Begin(dropped, PortRequest(historyRange, port))
    /\ portLoad' = Starts(dropped)

\* selectPort
SelectPort(port) ==
    /\ historyOpen /\ DeviceView = "history" /\ selectedPort # None /\ port # selectedPort
    /\ selectedPort' = port /\ ReadPort(port)
    /\ UNCHANGED <<historyOpen, historyRange, deviceLoad>>

RetryPort ==
    /\ historyOpen /\ DeviceView = "history" /\ PortView = "failed"
    /\ ReadPort(selectedPort)
    /\ UNCHANGED <<historyOpen, historyRange, selectedPort, deviceLoad>>

\* The retry of the pile leaves the load of the port alone.
RetryDevice ==
    LET dropped == GivenUp(historyCalls, deviceLoad.controller) IN
    /\ historyOpen /\ DeviceView = "failed" /\ HistoryHappens /\ Free(dropped) # {}
    /\ historyCalls' = Begin(dropped, DeviceRequest(historyRange))
    /\ deviceLoad' = Starts(dropped)
    /\ UNCHANGED <<historyOpen, historyRange, selectedPort, portLoad>>

Ended(load, answer) ==
    [load EXCEPT !.loading = FALSE, !.controller = None, !.failed = answer.kind # "ok",
                 !.shown = IF answer.kind = "ok" THEN answer.body ELSE None]

LandDevice(s) ==
    LET call == historyCalls[s] IN
    /\ call.op = "device" /\ call.answer # Unanswered
    /\ deviceLoad' = IF Owns(deviceLoad, s) THEN Ended(deviceLoad, call.answer) ELSE deviceLoad
    /\ historyCalls' = End(historyCalls, s)
    /\ UNCHANGED <<historyOpen, historyRange, selectedPort, portLoad, historySteps>>

LandPort(s) ==
    LET call == historyCalls[s] IN
    /\ call.op = "port" /\ call.answer # Unanswered
    /\ portLoad' = IF Owns(portLoad, s) THEN Ended(portLoad, call.answer) ELSE portLoad
    /\ historyCalls' = End(historyCalls, s)
    /\ UNCHANGED <<historyOpen, historyRange, selectedPort, deviceLoad, historySteps>>

\* The backend answers, with the history of what was asked for, or the request fails.
ServeHistory(s) ==
    /\ s \in Busy(historyCalls) /\ historyCalls[s].answer = Unanswered
    /\ \E answer \in {Ok(historyCalls[s].of), Refused("unknown"), Lost} :
          historyCalls' = [historyCalls EXCEPT ![s].answer = answer]
    /\ UNCHANGED <<historyOpen, historyRange, selectedPort, deviceLoad, portLoad, historySteps>>

HistoryNext ==
    \/ OpenHistory \/ CloseHistory \/ RetryPort \/ RetryDevice
    \/ \E range \in Ranges : ChooseRange(range)
    \/ \E port \in Ports : SelectPort(port)
    \/ \E s \in Slots : LandDevice(s) \/ LandPort(s) \/ ServeHistory(s)

HistorySpec == HistoryInit /\ [][HistoryNext]_historyVars

-----------------------------------------------------------------------------
\* An open sheet shows the history of the range and the port that are selected, never that
\* of a load given up for them, and it is never blank or left spinning
\* (device-history-sheet.tsx:503-566, 613-640, 720-767).
HistoryIsOfSelection ==
    historyOpen =>
        /\ deviceLoad.shown \in {None, historyRange}
        /\ portLoad.shown \in {None, <<historyRange, selectedPort>>}
        /\ DeviceView # "blank" /\ PortView # "blank"
        /\ deviceLoad.loading <=> deviceLoad.controller # None
        /\ portLoad.loading <=> portLoad.controller # None
        /\ deviceLoad.controller # None =>
              historyCalls[deviceLoad.controller].of = historyRange
        /\ portLoad.controller # None =>
              historyCalls[portLoad.controller].of = <<historyRange, selectedPort>>
=============================================================================
