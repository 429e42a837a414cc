-------------------------- MODULE ConsolePages_proofs --------------------------
(***************************************************************************)
(* Proofs about the other pages of the console, the history of a pile, the *)
(* board of piles and the session and its forms, the clock, and what the   *)
(* runs check of all the pages together, for every set of calls and values. *)
(***************************************************************************)
EXTENDS MCConsolePages, AdminPages_proofs, SequenceTheorems

-----------------------------------------------------------------------------
(* The clock *)

-----------------------------------------------------------------------------
(* Arithmetic of the clock *)

\* One minute after a minute of the day comes the next one, or midnight.
LEMMA NextMinute ==
    ASSUME NEW D \in Nat \ {0}, NEW c \in 0..(D - 1)
    PROVE  (c + 1) % D = IF c + 1 = D THEN 0 ELSE c + 1
<1>1. CASE c + 1 = D
  BY <1>1, SMT
<1>2. CASE c + 1 < D
  BY <1>2, SMT
<1> QED  BY <1>1, <1>2, SMT

-----------------------------------------------------------------------------
(* The walk through the day *)

\* What the walk and the formula know of each other before the first day is over: the
\* clock is told of no opening it did not see, so it may still be outside a window over
\* midnight that was open when the walk began.
OpenSinceYesterday ==
    /\ startMinute > endMinute /\ clock < endMinute
    /\ walked < Day /\ clock = walked

WalkInv ==
    /\ startMinute \in 0..(Day - 1) /\ endMinute \in 0..(Day - 1)
    /\ clock \in 0..(Day - 1) /\ walked \in Nat
    /\ inWindow \in BOOLEAN
    /\ inWindow => IsWithinWindow(clock, startMinute, endMinute)
    /\ IsWithinWindow(clock, startMinute, endMinute) => inWindow \/ OpenSinceYesterday

LEMMA WalkInit == ClockInit => WalkInv
<1> SUFFICES ASSUME ClockInit PROVE WalkInv
  OBVIOUS
<1> USE DEF ClockInit
<1>1. Day \in Nat \ {0}
  BY DayAssumption
<1>2. inWindow \in BOOLEAN /\ (inWindow <=> startMinute = 0 \/ startMinute = endMinute)
  OBVIOUS
<1>3. inWindow => IsWithinWindow(clock, startMinute, endMinute)
  BY <1>1, <1>2, SMT DEF IsWithinWindow
<1>4. IsWithinWindow(clock, startMinute, endMinute) => inWindow \/ OpenSinceYesterday
  BY <1>1, <1>2, SMT DEF IsWithinWindow, OpenSinceYesterday
<1> QED  BY <1>1, <1>2, <1>3, <1>4, SMT DEF WalkInv

\* The window after a minute: it opens at its start, and what was open stays until its end.
LEMMA WalkStep == WalkInv /\ [MinutePasses]_clockVars => WalkInv'
<1> SUFFICES ASSUME WalkInv, [MinutePasses]_clockVars PROVE WalkInv'
  OBVIOUS
<1>0. Day \in Nat \ {0}
  BY DayAssumption
<1>1. CASE UNCHANGED clockVars
  BY <1>1 DEF clockVars, WalkInv, OpenSinceYesterday, IsWithinWindow
<1>2. CASE MinutePasses
  <2> DEFINE next == IF clock + 1 = Day THEN 0 ELSE clock + 1
  <2>1. startMinute' = startMinute /\ endMinute' = endMinute /\ walked' = walked + 1
    BY <1>2 DEF MinutePasses
  <2>2. clock' = next
    BY <1>0, <1>2, NextMinute DEF MinutePasses, WalkInv
  <2>3. inWindow' = (startMinute = clock' \/ (inWindow /\ (endMinute # clock' \/ startMinute = endMinute)))
    BY <1>2 DEF MinutePasses
  <2>4. inWindow' \in BOOLEAN
    BY <2>3
  <2>5. clock' \in 0..(Day - 1) /\ walked' \in Nat
    BY <1>0, <2>1, <2>2, SMT DEF WalkInv
  <2>6. ASSUME inWindow' PROVE IsWithinWindow(clock', startMinute, endMinute)
    <3>1. CASE startMinute = clock'
      BY <3>1, <1>0, <2>5, SMT DEF IsWithinWindow, WalkInv
    <3>2. CASE inWindow /\ startMinute = endMinute
      BY <3>2 DEF IsWithinWindow
    <3>3. CASE inWindow /\ endMinute # clock' /\ startMinute # endMinute
      BY <3>3, <1>0, <2>2, SMT DEF IsWithinWindow, WalkInv
    <3> QED  BY <2>3, <2>6, <3>1, <3>2, <3>3
  <2>7. ASSUME IsWithinWindow(clock', startMinute, endMinute), ~inWindow'
        PROVE  OpenSinceYesterday'
    <3>1. startMinute # clock' /\ ~(inWindow /\ (endMinute # clock' \/ startMinute = endMinute))
      BY <2>3, <2>7
    <3>2. startMinute # endMinute
      BY <3>1, SMT DEF WalkInv, IsWithinWindow, OpenSinceYesterday
    <3>3. endMinute # clock'
      BY <1>0, <2>5, <2>7, <3>2, SMT DEF WalkInv, IsWithinWindow
    <3>4. ~inWindow
      BY <3>1, <3>3
    <3>5. CASE IsWithinWindow(clock, startMinute, endMinute)
      <4>1. OpenSinceYesterday
        BY <3>4, <3>5 DEF WalkInv
      <4>2. clock' = clock + 1 /\ clock + 1 < Day /\ clock + 1 < endMinute
        BY <1>0, <2>2, <3>3, <4>1, SMT DEF WalkInv, OpenSinceYesterday
      <4> QED  BY <1>0, <2>1, <4>1, <4>2, SMT DEF WalkInv, OpenSinceYesterday
    <3>6. CASE ~IsWithinWindow(clock, startMinute, endMinute)
      BY <1>0, <2>2, <2>7, <3>1, <3>2, <3>6, SMT DEF WalkInv, IsWithinWindow
    <3> QED  BY <3>5, <3>6
  <2> QED  BY <2>1, <2>4, <2>5, <2>6, <2>7 DEF WalkInv
<1> QED  BY <1>1, <1>2

\* isWithinWindow and isQuietHours: once a day has passed, the formula holds of a minute
\* exactly when the window was opened and not yet closed, for a day of any length and
\* every pair of ends.
THEOREM WindowFormulaIsRight == ClockSpec => []WindowsAgree
<1>1. WalkInv => WindowsAgree
  BY DayAssumption, SMT DEF WalkInv, OpenSinceYesterday, WindowsAgree
<1> QED  BY WalkInit, WalkStep, <1>1, PTL DEF ClockSpec

-----------------------------------------------------------------------------
(* History of a pile *)

IsLoad(load) ==
    /\ DOMAIN load = {"shown", "failed", "loading", "controller"}
    /\ load.failed \in BOOLEAN /\ load.loading \in BOOLEAN

HistoryCallOK(call) ==
    /\ call.op \in {"idle", "device", "port"} /\ IsCall(call, {"of"})
    /\ call.op # "idle" /\ call.answer.kind = "ok" => call.answer.body = call.of

\* What is on its way for a load is what the selection asks for; if nothing is, it is shown
\* or failed.
LoadIsOf(load, of) ==
    /\ load.shown \in {None, of}
    /\ load.loading <=> load.controller # None
    /\ load.loading \/ load.failed \/ load.shown = of
    /\ load.controller # None => historyCalls[load.controller].of = of

\* The controller of a load is that of a request of its kind.
ControllerOK(load, op) ==
    load.controller # None =>
        load.controller \in Slots /\ historyCalls[load.controller].op = op /\ historyOpen

HistoryInv ==
    /\ DOMAIN historyCalls = Slots /\ \A s \in Slots : HistoryCallOK(historyCalls[s])
    /\ historyOpen \in BOOLEAN /\ historyRange \in Ranges /\ selectedPort \in Ports \cup {None}
    /\ IsLoad(deviceLoad) /\ IsLoad(portLoad)
    /\ ControllerOK(deviceLoad, "device") /\ ControllerOK(portLoad, "port")
    /\ historyOpen => LoadIsOf(deviceLoad, historyRange)
    /\ historyOpen /\ selectedPort # None => LoadIsOf(portLoad, <<historyRange, selectedPort>>)
    /\ selectedPort = None => portLoad.shown = None /\ ~portLoad.loading /\ portLoad.controller = None

\* What the run checks.
LEMMA HistoryInvImplies == HistoryInv => HistoryIsOfSelection
<1> SUFFICES ASSUME HistoryInv, historyOpen PROVE HistoryIsOfSelection
    BY DEF HistoryIsOfSelection
<1>1. historyRange # None /\ (selectedPort # None => <<historyRange, selectedPort>> # None)
    BY HistoryAssumption DEF HistoryInv
<1>2. DeviceView # "blank"
    BY <1>1 DEF DeviceView, HistoryInv, LoadIsOf
<1>3. PortView # "blank"
    BY <1>1 DEF PortView, HistoryInv, LoadIsOf
<1> QED BY <1>2, <1>3 DEF HistoryIsOfSelection, HistoryInv, LoadIsOf

\* The sheet is closed.
LEMMA HistoryStart == HistoryInit => HistoryInv
<1> SUFFICES ASSUME HistoryInit PROVE HistoryInv
    OBVIOUS
<1>1. DOMAIN historyCalls = Slots /\ \A s \in Slots : HistoryCallOK(historyCalls[s])
    BY DEF HistoryInit, NoCalls, NoCall, HistoryCallOK, IsCall
<1> QED BY <1>1 DEF HistoryInit, HistoryInv, NeverLoaded, IsLoad, ControllerOK

\* Giving up a load changes only its answer.
LEMMA GivenUpCalls ==
    ASSUME NEW calls, DOMAIN calls = Slots, \A s \in Slots : HistoryCallOK(calls[s]),
           NEW controller, controller # None => controller \in Slots /\ calls[controller].op # "idle"
    PROVE  /\ DOMAIN GivenUp(calls, controller) = Slots
           /\ \A s \in Slots : /\ HistoryCallOK(GivenUp(calls, controller)[s])
                               /\ GivenUp(calls, controller)[s].op = calls[s].op
                               /\ calls[s].op # "idle" => GivenUp(calls, controller)[s].of = calls[s].of
<1>1. CASE GivenUp(calls, controller) = calls
    BY <1>1
<1>2. CASE GivenUp(calls, controller) # calls
    <2>1. controller \in Slots /\ calls[controller].op # "idle" /\ GivenUp(calls, controller) = LoseAnswer(calls, controller)
        BY <1>2 DEF GivenUp
    <2>2. PICK call : call = calls[controller]
        OBVIOUS
    <2>3. HistoryCallOK(call) /\ call.op # "idle"
        BY <2>1, <2>2
    <2>4. PICK lost : lost = [call EXCEPT !.answer = Lost]
        OBVIOUS
    <2>5. HistoryCallOK(lost) /\ lost.op = call.op /\ lost.of = call.of
        BY <2>3, <2>4 DEF HistoryCallOK, IsCall, Lost
    <2>6. /\ DOMAIN GivenUp(calls, controller) = Slots
          /\ \A s \in Slots : GivenUp(calls, controller)[s] = IF s = controller THEN lost ELSE calls[s]
        BY <2>1, <2>2, <2>4 DEF LoseAnswer
    <2> QED BY <2>2, <2>5, <2>6
<1> QED BY <1>1, <1>2

\* The two requests a selection makes are calls of the history.
LEMMA RequestsOK ==
    ASSUME NEW range, NEW port
    PROVE  /\ HistoryCallOK(DeviceRequest(range)) /\ DeviceRequest(range).op = "device" /\ DeviceRequest(range).of = range
           /\ HistoryCallOK(PortRequest(range, port)) /\ PortRequest(range, port).op = "port"
           /\ PortRequest(range, port).of = <<range, port>>
BY DEF DeviceRequest, PortRequest, HistoryCallOK, IsCall, Unanswered

\* A request that is begun leaves those that wait as they are.
LEMMA HistoryBegun ==
    ASSUME NEW calls, DOMAIN calls = Slots, \A s \in Slots : HistoryCallOK(calls[s]),
           Free(calls) # {}, NEW call, HistoryCallOK(call)
    PROVE  /\ DOMAIN Begin(calls, call) = Slots
           /\ \A s \in Slots : HistoryCallOK(Begin(calls, call)[s])
           /\ Begin(calls, call)[NextSlot(calls)] = call /\ NextSlot(calls) \in Slots
           /\ \A s \in Slots : calls[s].op # "idle" => Begin(calls, call)[s] = calls[s]
BY BegunCalls

\* A load that begins shows nothing and waits for the next call.
LEMMA StartsLoad ==
    ASSUME NEW calls
    PROVE  IsLoad(Starts(calls)) /\ Starts(calls).shown = None /\ Starts(calls).loading
           /\ Starts(calls).controller = NextSlot(calls)
BY DEF Starts, IsLoad

\* Both loads are begun for what is selected now.
LEMMA LoadBothKeeps ==
    ASSUME HistoryInv, NEW range \in Ranges, LoadBoth(range, selectedPort, historyCalls),
           historyOpen', historyRange' = range, selectedPort' = selectedPort
    PROVE  HistoryInv'
<1>0. None \notin Slots
    BY HistoryAssumption
<1>1. PICK once : once = GivenUp(historyCalls, deviceLoad.controller)
    OBVIOUS
<1>2. /\ DOMAIN once = Slots
      /\ \A s \in Slots : HistoryCallOK(once[s]) /\ once[s].op = historyCalls[s].op
    BY <1>1, GivenUpCalls DEF HistoryInv, ControllerOK
<1>3. PICK replaced : replaced = GivenUp(once, portLoad.controller)
    OBVIOUS
<1>4. DOMAIN replaced = Slots /\ \A s \in Slots : HistoryCallOK(replaced[s])
    BY <1>2, <1>3, GivenUpCalls DEF HistoryInv, ControllerOK
<1>5. PICK asked : asked = Begin(replaced, DeviceRequest(range))
    OBVIOUS
<1>6. /\ Free(replaced) # {} /\ deviceLoad' = Starts(replaced)
      /\ IF selectedPort = None THEN historyCalls' = asked /\ UNCHANGED portLoad
         ELSE /\ Free(asked) # {}
              /\ historyCalls' = Begin(asked, PortRequest(range, selectedPort))
              /\ portLoad' = Starts(asked)
    BY <1>1, <1>3, <1>5 DEF LoadBoth
<1>7. /\ DOMAIN asked = Slots /\ \A s \in Slots : HistoryCallOK(asked[s])
      /\ asked[NextSlot(replaced)] = DeviceRequest(range) /\ NextSlot(replaced) \in Slots
    <2>1. HistoryCallOK(DeviceRequest(range))
        BY RequestsOK
    <2> QED BY <1>4, <1>5, <1>6, <2>1, HistoryBegun
<1>8. /\ IsLoad(deviceLoad') /\ deviceLoad'.shown = None /\ deviceLoad'.loading /\ deviceLoad'.controller = NextSlot(replaced)
    BY <1>6, StartsLoad
<1>9. CASE selectedPort = None
    BY <1>0, <1>6, <1>7, <1>8, <1>9, RequestsOK DEF HistoryInv, ControllerOK, LoadIsOf, IsLoad
<1>10. CASE selectedPort # None
    <2>1. /\ DOMAIN historyCalls' = Slots /\ \A s \in Slots : HistoryCallOK(historyCalls'[s])
          /\ historyCalls'[NextSlot(asked)] = PortRequest(range, selectedPort) /\ NextSlot(asked) \in Slots
          /\ historyCalls'[NextSlot(replaced)] = DeviceRequest(range)
        BY <1>6, <1>7, <1>10, HistoryBegun, RequestsOK
    <2>2. /\ IsLoad(portLoad') /\ portLoad'.shown = None /\ portLoad'.loading /\ portLoad'.controller = NextSlot(asked)
        BY <1>6, <1>10, StartsLoad
    <2> QED BY <1>0, <1>7, <1>8, <1>10, <2>1, <2>2, RequestsOK DEF HistoryInv, ControllerOK, LoadIsOf, IsLoad
<1> QED BY <1>9, <1>10
\* A new load of the port.
LEMMA ReadPortKeeps ==
    ASSUME HistoryInv, NEW port \in Ports, ReadPort(port), historyOpen,
           selectedPort' = port, UNCHANGED <<historyOpen, historyRange, deviceLoad>>
    PROVE  HistoryInv'
<1>0. None \notin Slots /\ None \notin Ports
    BY HistoryAssumption
<1>1. PICK replaced : replaced = GivenUp(historyCalls, portLoad.controller)
    OBVIOUS
<1>2. /\ DOMAIN replaced = Slots
      /\ \A s \in Slots : /\ HistoryCallOK(replaced[s]) /\ replaced[s].op = historyCalls[s].op
                          /\ historyCalls[s].op # "idle" => replaced[s].of = historyCalls[s].of
    BY <1>1, GivenUpCalls DEF HistoryInv, ControllerOK
<1>3. PICK call : call = PortRequest(historyRange, port)
    OBVIOUS
<1>4. HistoryCallOK(call) /\ call.op = "port" /\ call.of = <<historyRange, port>>
    BY <1>3, RequestsOK
<1>5. Free(replaced) # {} /\ historyCalls' = Begin(replaced, call) /\ portLoad' = Starts(replaced)
    BY <1>1, <1>3 DEF ReadPort
<1>6. /\ DOMAIN historyCalls' = Slots /\ \A s \in Slots : HistoryCallOK(historyCalls'[s])
      /\ historyCalls'[NextSlot(replaced)] = call /\ NextSlot(replaced) \in Slots
      /\ \A s \in Slots : replaced[s].op # "idle" => historyCalls'[s] = replaced[s]
    BY <1>2, <1>4, <1>5, HistoryBegun
<1>7. /\ IsLoad(portLoad') /\ portLoad'.shown = None /\ portLoad'.loading /\ portLoad'.controller = NextSlot(replaced)
    BY <1>5, StartsLoad
<1>8. ControllerOK(deviceLoad, "device")' /\ LoadIsOf(deviceLoad, historyRange)'
    BY <1>2, <1>6 DEF HistoryInv, ControllerOK, LoadIsOf
<1> QED BY <1>0, <1>4, <1>6, <1>7, <1>8 DEF HistoryInv, ControllerOK, LoadIsOf

\* A load that failed is asked for again.
LEMMA RetryDeviceKeeps == HistoryInv /\ RetryDevice => HistoryInv'
<1> SUFFICES ASSUME HistoryInv, RetryDevice PROVE HistoryInv'
    OBVIOUS
<1>0. None \notin Slots
    BY HistoryAssumption
<1>1. PICK replaced : replaced = GivenUp(historyCalls, deviceLoad.controller)
    OBVIOUS
<1>2. /\ DOMAIN replaced = Slots
      /\ \A s \in Slots : /\ HistoryCallOK(replaced[s]) /\ replaced[s].op = historyCalls[s].op
                          /\ historyCalls[s].op # "idle" => replaced[s].of = historyCalls[s].of
    BY <1>1, GivenUpCalls DEF HistoryInv, ControllerOK
<1>3. PICK call : call = DeviceRequest(historyRange)
    OBVIOUS
<1>4. HistoryCallOK(call) /\ call.op = "device" /\ call.of = historyRange
    BY <1>3, RequestsOK
<1>5. /\ Free(replaced) # {} /\ historyCalls' = Begin(replaced, call) /\ deviceLoad' = Starts(replaced)
      /\ historyOpen /\ UNCHANGED <<historyOpen, historyRange, selectedPort, portLoad>>
    BY <1>1, <1>3 DEF RetryDevice
<1>6. /\ DOMAIN historyCalls' = Slots /\ \A s \in Slots : HistoryCallOK(historyCalls'[s])
      /\ historyCalls'[NextSlot(replaced)] = call /\ NextSlot(replaced) \in Slots
      /\ \A s \in Slots : replaced[s].op # "idle" => historyCalls'[s] = replaced[s]
    BY <1>2, <1>4, <1>5, HistoryBegun
<1>7. /\ IsLoad(deviceLoad') /\ deviceLoad'.shown = None /\ deviceLoad'.loading /\ deviceLoad'.controller = NextSlot(replaced)
    BY <1>5, StartsLoad
<1>8. /\ ControllerOK(portLoad, "port")'
      /\ selectedPort # None => LoadIsOf(portLoad, <<historyRange, selectedPort>>)'
    BY <1>2, <1>5, <1>6 DEF HistoryInv, ControllerOK, LoadIsOf
<1> QED BY <1>0, <1>4, <1>5, <1>6, <1>7, <1>8 DEF HistoryInv, ControllerOK, LoadIsOf

\* A load that ended: its own, or one that was given up.
LEMMA HistoryLandKeeps ==
    ASSUME HistoryInv, NEW s \in Slots, LandDevice(s) \/ LandPort(s)
    PROVE  HistoryInv'
<1>0. None \notin Slots
    BY HistoryAssumption
<1>1. PICK call : call = historyCalls[s]
    OBVIOUS
<1>2. HistoryCallOK(call)
    BY <1>1 DEF HistoryInv
<1>3. /\ DOMAIN historyCalls' = Slots
      /\ \A t \in Slots : historyCalls'[t] = IF t = s THEN NoCall ELSE historyCalls[t]
    BY EndedCalls DEF HistoryInv, LandDevice, LandPort
<1>4. HistoryCallOK(NoCall)
    BY DEF HistoryCallOK, NoCall, IsCall
<1>5. \A t \in Slots : HistoryCallOK(historyCalls'[t])
    BY <1>3, <1>4 DEF HistoryInv
<1>6. UNCHANGED <<historyOpen, historyRange, selectedPort>>
    BY DEF LandDevice, LandPort
<1>7. ASSUME NEW load, IsLoad(load)
      PROVE  /\ IsLoad(Ended(load, call.answer)) /\ Ended(load, call.answer).loading = FALSE
             /\ Ended(load, call.answer).controller = None
             /\ Ended(load, call.answer).failed = (call.answer.kind # "ok")
             /\ Ended(load, call.answer).shown = IF call.answer.kind = "ok" THEN call.answer.body ELSE None
    BY <1>7 DEF Ended, IsLoad
<1>8. CASE LandDevice(s)
    <2>1. /\ call.op = "device" /\ portLoad' = portLoad
          /\ deviceLoad' = IF deviceLoad.controller = s THEN Ended(deviceLoad, call.answer) ELSE deviceLoad
        BY <1>1, <1>8 DEF LandDevice, Owns
    <2>2. portLoad.controller # s /\ ControllerOK(portLoad, "port")'
        BY <1>0, <1>1, <1>3, <1>6, <2>1 DEF HistoryInv, ControllerOK
    <2>3. historyOpen /\ selectedPort # None => LoadIsOf(portLoad, <<historyRange, selectedPort>>)'
        BY <1>3, <1>6, <2>1, <2>2 DEF HistoryInv, ControllerOK, LoadIsOf
    <2>4. CASE deviceLoad.controller = s
        BY <1>0, <1>1, <1>2, <1>3, <1>5, <1>6, <1>7, <2>1, <2>2, <2>3, <2>4 DEF HistoryInv, ControllerOK, LoadIsOf, HistoryCallOK
    <2>5. CASE deviceLoad.controller # s
        BY <1>3, <1>5, <1>6, <2>1, <2>2, <2>3, <2>5 DEF HistoryInv, ControllerOK, LoadIsOf
    <2> QED BY <2>4, <2>5
<1>9. CASE LandPort(s)
    <2>1. /\ call.op = "port" /\ deviceLoad' = deviceLoad
          /\ portLoad' = IF portLoad.controller = s THEN Ended(portLoad, call.answer) ELSE portLoad
        BY <1>1, <1>9 DEF LandPort, Owns
    <2>2. deviceLoad.controller # s /\ ControllerOK(deviceLoad, "device")'
        BY <1>0, <1>1, <1>3, <1>6, <2>1 DEF HistoryInv, ControllerOK
    <2>3. historyOpen => LoadIsOf(deviceLoad, historyRange)'
        BY <1>3, <1>6, <2>1, <2>2 DEF HistoryInv, ControllerOK, LoadIsOf
    <2>4. CASE portLoad.controller = s
        <3>1. /\ IsLoad(portLoad') /\ portLoad'.loading = FALSE /\ portLoad'.controller = None
              /\ portLoad'.failed = (call.answer.kind # "ok")
              /\ portLoad'.shown = IF call.answer.kind = "ok" THEN call.answer.body ELSE None
            BY <1>7, <2>1, <2>4 DEF HistoryInv
        <3>2. selectedPort # None
            BY <1>0, <2>4 DEF HistoryInv
        <3>3. call.answer.kind = "ok" => call.answer.body = call.of
            BY <1>2, <2>1 DEF HistoryCallOK
        <3>4. historyOpen => call.of = <<historyRange, selectedPort>>
            BY <1>0, <1>1, <2>4, <3>2 DEF HistoryInv, LoadIsOf
        <3>5. LoadIsOf(portLoad, <<historyRange, selectedPort>>)' \/ ~historyOpen
            BY <1>6, <3>1, <3>3, <3>4 DEF LoadIsOf
        <3> QED BY <1>3, <1>5, <1>6, <2>1, <2>2, <2>3, <3>1, <3>2, <3>5 DEF HistoryInv, ControllerOK
    <2>5. CASE portLoad.controller # s
        BY <1>3, <1>5, <1>6, <2>1, <2>2, <2>3, <2>5 DEF HistoryInv, ControllerOK, LoadIsOf
    <2> QED BY <2>4, <2>5
<1> QED BY <1>8, <1>9

\* The step of the history, action by action.
LEMMA HistoryKept == HistoryInv /\ [HistoryNext]_historyVars => HistoryInv'
<1> SUFFICES ASSUME HistoryInv, [HistoryNext]_historyVars PROVE HistoryInv'
    OBVIOUS
<1>0. None \notin Slots /\ None \notin Ports
    BY HistoryAssumption
<1>1. CASE UNCHANGED historyVars
    BY <1>1 DEF historyVars, HistoryInv, ControllerOK, LoadIsOf
<1>2. CASE OpenHistory
    <2>1. historyRange \in Ranges
        BY DEF HistoryInv
    <2> QED BY <1>2, <2>1, LoadBothKeeps DEF OpenHistory
<1>3. ASSUME NEW range \in Ranges, ChooseRange(range)
      PROVE  HistoryInv'
    BY <1>3, LoadBothKeeps DEF ChooseRange
<1>4. CASE CloseHistory
    <2>1. PICK once : once = GivenUp(historyCalls, deviceLoad.controller)
        OBVIOUS
    <2>2. DOMAIN once = Slots /\ \A s \in Slots : HistoryCallOK(once[s]) /\ once[s].op = historyCalls[s].op
        BY <2>1, GivenUpCalls DEF HistoryInv, ControllerOK
    <2>3. historyCalls' = GivenUp(once, portLoad.controller)
        BY <1>4, <2>1 DEF CloseHistory
    <2>4. DOMAIN historyCalls' = Slots /\ \A s \in Slots : HistoryCallOK(historyCalls'[s])
        BY <2>2, <2>3, GivenUpCalls DEF HistoryInv, ControllerOK
    <2>5. /\ IsLoad(deviceLoad') /\ deviceLoad'.controller = None
          /\ IsLoad(portLoad') /\ portLoad'.controller = None
          /\ portLoad'.shown = portLoad.shown /\ portLoad'.loading = portLoad.loading
        BY <1>4 DEF CloseHistory, HistoryInv, IsLoad
    <2> QED BY <1>4, <2>4, <2>5 DEF CloseHistory, HistoryInv, ControllerOK
<1>5. ASSUME NEW port \in Ports, SelectPort(port)
      PROVE  HistoryInv'
    BY <1>5, ReadPortKeeps DEF SelectPort
<1>6. CASE RetryPort
    <2>1. selectedPort \in Ports
        BY <1>6 DEF RetryPort, PortView, HistoryInv
    <2> QED BY <1>6, <2>1, ReadPortKeeps DEF RetryPort
<1>7. CASE RetryDevice
    BY <1>7, RetryDeviceKeeps
<1>8. ASSUME NEW s \in Slots, LandDevice(s) \/ LandPort(s)
      PROVE  HistoryInv'
    BY <1>8, HistoryLandKeeps
<1>9. ASSUME NEW s \in Slots, ServeHistory(s)
      PROVE  HistoryInv'
    <2>1. PICK call : call = historyCalls[s]
        OBVIOUS
    <2>2. HistoryCallOK(call) /\ call.op # "idle"
        BY <1>9, <2>1 DEF HistoryInv, ServeHistory, Busy
    <2>3. PICK answer \in {Ok(call.of), Refused("unknown"), Lost} :
              historyCalls' = [historyCalls EXCEPT ![s].answer = answer]
        BY <1>9, <2>1 DEF ServeHistory
    <2>4. PICK next : next = [call EXCEPT !.answer = answer]
        OBVIOUS
    <2>5. HistoryCallOK(next) /\ next.op = call.op /\ next.of = call.of
        BY <2>2, <2>3, <2>4 DEF HistoryCallOK, IsCall, Ok, Refused, Lost
    <2>6. DOMAIN historyCalls' = Slots /\ \A t \in Slots : historyCalls'[t] = IF t = s THEN next ELSE historyCalls[t]
        BY <2>1, <2>3, <2>4 DEF HistoryInv
    <2>7. UNCHANGED <<historyOpen, historyRange, selectedPort, deviceLoad, portLoad>>
        BY <1>9 DEF ServeHistory
    <2>8. \A t \in Slots : HistoryCallOK(historyCalls'[t]) /\ historyCalls'[t].op = historyCalls[t].op
                           /\ (historyCalls[t].op # "idle" => historyCalls'[t].of = historyCalls[t].of)
        BY <2>1, <2>5, <2>6 DEF HistoryInv
    <2> QED BY <1>0, <2>6, <2>7, <2>8 DEF HistoryInv, ControllerOK, LoadIsOf
<1> QED BY <1>1, <1>2, <1>3, <1>4, <1>5, <1>6, <1>7, <1>8, <1>9 DEF HistoryNext

-----------------------------------------------------------------------------
(* The board of piles *)

Loads == {"load", "refresh", "order", "cookie", "sync", "settle"}
BoardChanges == {"edit", "remove"}

\* A snapshot of the backend at some time: the one of the present is what is there.
IsSnap(snap, table, time, same) ==
    /\ snap.at \in Nat /\ snap.at <= time /\ DOMAIN snap.table \subseteq BoardPiles
    /\ snap.at = time /\ ~same => snap.table = table

BoardCallOK(call, table, time, same) ==
    /\ call.op \in {"idle"} \cup BoardChanges \cup Loads /\ IsCall(call, {})
    /\ call.op \in Loads /\ Succeeds(call) => IsSnap(call.answer.body, table, time, same)
    /\ call.op \in BoardChanges /\ Succeeds(call) => call.answer.body \in Nat /\ call.answer.body <= time
    /\ call.op \in {"sync", "settle"} =>
           /\ "since" \in DOMAIN call /\ call.since \in Nat /\ call.since <= time
           /\ Succeeds(call) => call.since <= call.answer.body.at

FramesFit(queue, table, time, same) ==
    /\ (\E S : queue \in Seq(S)) /\ Len(queue) <= FramesMax
    /\ \A i \in 1..Len(queue) : IsSnap(queue[i], table, time, same)

Newest(snap, queue) == IF queue = <<>> THEN snap.at ELSE queue[Len(queue)].at

\* While the stream is open, its last frame is the present, unless the channel was full.
StreamInv ==
    /\ DOMAIN pileTable \subseteq BoardPiles /\ now \in Nat
    /\ IsSnap(shown, pileTable, now, tied) /\ stamp = shown.at
    /\ link \in {"closed", "connecting", "open", "error", "dead"}
    /\ FramesFit(frames, pileTable, now, tied)
    /\ link = "open" /\ ~dropped => Newest(shown, frames) = now

CallsInv ==
    /\ DOMAIN boardCalls = Slots
    /\ \A s \in Slots : BoardCallOK(boardCalls[s], pileTable, now, tied)

\* One request waits for a flag that is up, and none for one that is down.
FlagFits(calls, op, flag) ==
    /\ flag <=> \E s \in Slots : calls[s].op = op
    /\ \A s, t \in Slots : calls[s].op = op /\ calls[t].op = op => s = t

ModalFits(calls, dialog) ==
    dialog # None =>
        /\ DOMAIN dialog = {"kind", "pile", "saving"} /\ dialog.kind \in BoardChanges
        /\ dialog.saving # None => /\ dialog.saving \in Slots
                                   /\ calls[dialog.saving].op \in BoardChanges \cup {"sync", "settle"}

FormFits(calls, lock) == lock # None => lock \in Slots /\ calls[lock].op = "cookie"

DetailFits == modal # None => modal.pile = DetailPile

LockInv ==
    /\ FlagFits(boardCalls, "refresh", refreshing) /\ FlagFits(boardCalls, "order", reordering)
    /\ ModalFits(boardCalls, modal) /\ FormFits(boardCalls, cookieLock) /\ DetailFits

BoardInv == StreamInv /\ CallsInv /\ LockInv

\* The states of a stream that was open once.
Opened == {"open", "error", "dead"}

\* A removal that did not read back before its last read had an open stream.
RemovalInv ==
    \A s \in Slots : boardCalls[s].op = "settle" => link \in Opened \/ stamp >= boardCalls[s].since

-----------------------------------------------------------------------------
(* Snapshots and frames *)

\* The clock rests with the piles, goes on, or strikes the same millisecond again.
Ages(table, time, same, next, later, still) ==
    \/ next = table /\ later = time /\ still = same
    \/ later = time + 1
    \/ later = time /\ still

\* A change of the backend moves its clock, or says that it did not.
LEMMA ClockTicks ==
    ASSUME Ticks, now \in Nat
    PROVE  now' \in Nat /\ Ages(pileTable, now, tied, pileTable', now', tied')
<1>1. CASE now' = now + 1
    BY <1>1 DEF Ages
<1>2. CASE now' = now
    <2>1. tied' = (now' = now)
        BY DEF Ticks
    <2>2. tied'
        BY <1>2, <2>1
    <2> QED BY <1>2, <2>2 DEF Ages
<1> QED BY <1>1, <1>2 DEF Ticks

\* A snapshot of the past stays one.
LEMMA SnapAges ==
    ASSUME NEW snap, NEW table, NEW time \in Nat, NEW same,
           NEW next, NEW later, NEW still,
           IsSnap(snap, table, time, same),
           Ages(table, time, same, next, later, still)
    PROVE  IsSnap(snap, next, later, still)
BY DEF IsSnap, Ages

\* So does what the calls carry.
LEMMA CallAges ==
    ASSUME NEW call, NEW table, NEW time \in Nat, NEW same,
           NEW next, NEW later, NEW still,
           BoardCallOK(call, table, time, same),
           Ages(table, time, same, next, later, still)
    PROVE  BoardCallOK(call, next, later, still)
<1>1. \A snap : IsSnap(snap, table, time, same) => IsSnap(snap, next, later, still)
    BY SnapAges
<1>2. \A moment \in Nat : moment <= time => moment <= later
    BY DEF Ages
<1> QED BY <1>1, <1>2 DEF BoardCallOK

\* So do the frames on their way.
LEMMA FramesAge ==
    ASSUME NEW queue, NEW table, NEW time \in Nat, NEW same,
           NEW next, NEW later, NEW still,
           FramesFit(queue, table, time, same),
           Ages(table, time, same, next, later, still)
    PROVE  FramesFit(queue, next, later, still)
<1>1. \A snap : IsSnap(snap, table, time, same) => IsSnap(snap, next, later, still)
    BY SnapAges
<1> QED BY <1>1 DEF FramesFit

\* Without frames the newest data is what is shown.
LEMMA NoFrames ==
    ASSUME NEW table, NEW time, NEW same, NEW snap
    PROVE  FramesFit(<<>>, table, time, same) /\ Newest(snap, <<>>) = snap.at
<1>1. <<>> \in Seq({}) /\ Len(<<>>) = 0
    OBVIOUS
<1> QED BY <1>1, BoardAssumption DEF FramesFit, Newest

\* A frame that is published is the newest.
LEMMA FramesJoined ==
    ASSUME NEW queue, NEW table, NEW time, NEW same, NEW snap, NEW older, IsSnap(snap, table, time, same),
           FramesFit(queue, table, time, same), Len(queue) < FramesMax
    PROVE  /\ FramesFit(Append(queue, snap), table, time, same) /\ Append(queue, snap) # queue
           /\ Newest(older, Append(queue, snap)) = snap.at
<1>1. PICK S : queue \in Seq(S)
    BY DEF FramesFit
<1>2. PICK T : T = S \cup {snap}
    OBVIOUS
<1>3. queue \in Seq(T) /\ snap \in T
    BY <1>1, <1>2
<1>4. PICK next : next = Append(queue, snap)
    OBVIOUS
<1>5. /\ next \in Seq(T) /\ Len(next) = Len(queue) + 1 /\ Len(queue) \in Nat /\ next # <<>>
      /\ next[Len(next)] = snap /\ \A i \in 1..Len(queue) : next[i] = queue[i]
    BY <1>3, <1>4
<1>6. ASSUME NEW i \in 1..Len(next) PROVE IsSnap(next[i], table, time, same)
    <2>1. CASE i \in 1..Len(queue)
        BY <1>5, <2>1 DEF FramesFit
    <2>2. CASE i = Len(next)
        BY <1>5, <2>2
    <2> QED BY <1>5, <2>1, <2>2
<1>7. FramesFit(next, table, time, same)
    BY <1>5, <1>6, BoardAssumption DEF FramesFit
<1>8. next # queue /\ Newest(older, next) = snap.at
    BY <1>5 DEF Newest
<1> QED BY <1>4, <1>7, <1>8

\* The frame that is taken is the oldest; the newest stays the newest.
LEMMA FramesTaken ==
    ASSUME NEW queue, NEW table, NEW time, NEW same, FramesFit(queue, table, time, same), queue # <<>>
    PROVE  /\ FramesFit(Tail(queue), table, time, same) /\ IsSnap(Head(queue), table, time, same)
           /\ \A older, snap : Newest(older, queue) = IF Tail(queue) = <<>> THEN Head(queue).at
                                                      ELSE Newest(snap, Tail(queue))
<1>1. PICK S : queue \in Seq(S)
    BY DEF FramesFit
<1>2. PICK next : next = Tail(queue)
    OBVIOUS
<1>3. /\ next \in Seq(S) /\ Len(queue) \in Nat \ {0} /\ Len(next) = Len(queue) - 1
      /\ Head(queue) = queue[1] /\ \A i \in 1..Len(next) : next[i] = queue[i + 1]
    BY <1>1, <1>2
<1>4. IsSnap(Head(queue), table, time, same)
    BY <1>3 DEF FramesFit
<1>5. \A i \in 1..Len(next) : IsSnap(next[i], table, time, same)
    BY <1>3 DEF FramesFit
<1>6. FramesFit(next, table, time, same)
    BY <1>3, <1>5, BoardAssumption DEF FramesFit
<1>7. CASE next = <<>>
    <2>1. Len(queue) = 1
        BY <1>3, <1>7
    <2> QED BY <1>2, <1>3, <1>4, <1>6, <1>7, <2>1 DEF Newest
<1>8. CASE next # <<>>
    <2>1. Len(next) \in 1..Len(next)
        BY <1>3, <1>8
    <2>2. next[Len(next)] = queue[Len(queue)]
        BY <1>3, <2>1
    <2> QED BY <1>2, <1>4, <1>6, <1>8, <2>2 DEF Newest
<1> QED BY <1>7, <1>8

\* A snapshot is applied only over an older one.
LEMMA Applied ==
    ASSUME StreamInv, NEW next, IsSnap(next, pileTable, now, tied), Apply(next), UNCHANGED <<pileTable, now, tied>>
    PROVE  /\ IsSnap(shown', pileTable, now, tied) /\ stamp' = shown'.at /\ stamp' \in Nat
           /\ stamp' >= stamp /\ next.at <= stamp'
           /\ shown.at = now \/ next.at = now => shown'.at = now
BY DEF StreamInv, IsSnap, Apply, NotOlder

\* An answer is shown, or not; the load connects the stream.
LEMMA StreamShown ==
    ASSUME StreamInv, UNCHANGED <<pileTable, now, tied, frames, dropped>>, link' = link \/ link' = "connecting",
           UNCHANGED <<stamp, shown>> \/ \E next : IsSnap(next, pileTable, now, tied) /\ Apply(next)
    PROVE  StreamInv' /\ stamp' >= stamp
<1>1. /\ IsSnap(shown', pileTable, now, tied) /\ stamp' = shown'.at /\ stamp' >= stamp
      /\ shown.at = now => shown'.at = now
    <2>1. CASE UNCHANGED <<stamp, shown>>
        BY <2>1 DEF StreamInv, IsSnap
    <2>2. CASE \E next : IsSnap(next, pileTable, now, tied) /\ Apply(next)
        BY <2>2, Applied
    <2> QED BY <2>1, <2>2
<1>2. Newest(shown, frames) = now => Newest(shown', frames) = now
    BY <1>1 DEF Newest
<1> QED BY <1>1, <1>2 DEF StreamInv

\* A frame comes.
LEMMA StreamReceives ==
    ASSUME StreamInv, ReceiveFrame
    PROVE  StreamInv' /\ stamp' >= stamp
<1>1. /\ link = "open" /\ frames # <<>> /\ frames' = Tail(frames) /\ Apply(Head(frames))
      /\ UNCHANGED <<pileTable, now, tied, link, dropped>>
    BY DEF ReceiveFrame, backend
<1>2. PICK next : next = Head(frames)
    OBVIOUS
<1>3. FramesFit(frames, pileTable, now, tied)
    BY DEF StreamInv
<1>4. /\ FramesFit(frames', pileTable, now, tied) /\ IsSnap(next, pileTable, now, tied)
      /\ Newest(shown, frames) = IF frames' = <<>> THEN next.at ELSE Newest(shown', frames')
    BY <1>1, <1>2, <1>3, FramesTaken
<1>5. /\ IsSnap(shown', pileTable, now, tied) /\ stamp' = shown'.at /\ stamp' >= stamp
      /\ shown.at = now \/ next.at = now => shown'.at = now
    BY <1>1, <1>2, <1>4, Applied
<1>6. Newest(shown, frames) = now => Newest(shown', frames') = now
    BY <1>4, <1>5 DEF Newest
<1> QED BY <1>1, <1>4, <1>5, <1>6 DEF StreamInv

\* The stream opens or fails.
LEMMA StreamTurns ==
    ASSUME StreamInv, StreamOpens \/ StreamFails
    PROVE  StreamInv' /\ stamp' = stamp /\ boardCalls' = boardCalls
<1>1. UNCHANGED <<pileTable, now, tied, shown, stamp, boardCalls>>
    BY DEF StreamOpens, StreamFails, backend
<1>2. CASE StreamFails
    <2>1. link' \in {"error", "dead"} /\ frames' = <<>>
        BY <1>2 DEF StreamFails
    <2>2. FramesFit(frames', pileTable, now, tied)
        BY <2>1, NoFrames
    <2> QED BY <1>1, <2>1, <2>2 DEF StreamInv
<1>3. CASE StreamOpens
    <2>1. PICK snap : snap = Snapshot
        OBVIOUS
    <2>2. snap.table = pileTable /\ snap.at = now
        BY <2>1 DEF Snapshot
    <2>3. link' = "open" /\ frames' = <<snap>> /\ dropped' = FALSE
        BY <1>3, <2>1 DEF StreamOpens, FirstFrame
    <2>4. IsSnap(snap, pileTable, now, tied)
        BY <2>2 DEF StreamInv, IsSnap
    <2>5. frames' \in Seq({snap}) /\ Len(frames') = 1 /\ frames'[1] = snap /\ frames' # <<>>
        BY <2>3
    <2>6. FramesFit(frames', pileTable, now, tied)
        <3>1. \A i \in 1..Len(frames') : frames'[i] = snap
            BY <2>5
        <3> QED BY <2>4, <2>5, <3>1, BoardAssumption DEF FramesFit
    <2>7. Newest(shown', frames') = now
        BY <2>2, <2>5 DEF Newest
    <2> QED BY <1>1, <2>3, <2>6, <2>7 DEF StreamInv
<1> QED BY <1>1, <1>2, <1>3

\* A change of the backend is published.
LEMMA StreamPublishes ==
    ASSUME StreamInv, Ticks, PublishFrame, UNCHANGED <<link, shown, stamp>>,
           DOMAIN pileTable' \subseteq BoardPiles
    PROVE  StreamInv'
<1>0. now \in Nat
    BY DEF StreamInv
<1>1. now' \in Nat /\ Ages(pileTable, now, tied, pileTable', now', tied')
    BY <1>0, ClockTicks
<1>2. IsSnap(shown', pileTable', now', tied')
    BY <1>0, <1>1, SnapAges DEF StreamInv
<1>3. FramesFit(frames, pileTable', now', tied')
    BY <1>0, <1>1, FramesAge DEF StreamInv
<1>4. PICK snap : snap = [table |-> pileTable', at |-> now']
    OBVIOUS
<1>5. snap.at = now' /\ IsSnap(snap, pileTable', now', tied')
    BY <1>1, <1>4 DEF IsSnap
<1>6. CASE link # "open"
    BY <1>1, <1>2, <1>3, <1>6 DEF PublishFrame, StreamInv
<1>7. CASE link = "open" /\ Len(frames) < FramesMax
    <2>1. frames' = Append(frames, snap)
        BY <1>4, <1>7 DEF PublishFrame
    <2>2. PICK queue : queue = frames
        OBVIOUS
    <2>3. PICK table : table = pileTable'
        OBVIOUS
    <2>4. PICK time : time = now'
        OBVIOUS
    <2>5. PICK same : same = tied'
        OBVIOUS
    <2>6. IsSnap(snap, table, time, same) /\ FramesFit(queue, table, time, same) /\ Len(queue) < FramesMax
        BY <1>3, <1>5, <1>7, <2>2, <2>3, <2>4, <2>5
    <2>7. PICK older : older = shown'
        OBVIOUS
    <2>8. FramesFit(Append(queue, snap), table, time, same)
        BY ONLY <2>6, FramesJoined
    <2>9. Newest(older, Append(queue, snap)) = snap.at
        BY ONLY <2>6, FramesJoined
    <2>10. FramesFit(frames', pileTable', now', tied') /\ Newest(shown', frames') = now'
        BY <1>5, <2>1, <2>2, <2>3, <2>4, <2>5, <2>7, <2>8, <2>9
    <2> QED BY <1>1, <1>2, <1>7, <2>10 DEF StreamInv
<1>8. CASE link = "open" /\ ~(Len(frames) < FramesMax)
    <2>1. dropped' = TRUE /\ frames' = frames
        BY <1>8 DEF PublishFrame
    <2> QED BY <1>1, <1>2, <1>3, <1>8, <2>1 DEF StreamInv
<1> QED BY <1>6, <1>7, <1>8

\* What touches none of the stream keeps it.
LEMMA StreamRests ==
    ASSUME StreamInv, UNCHANGED <<pileTable, now, tied, link, frames, dropped, shown, stamp>>
    PROVE  StreamInv'
BY DEF StreamInv

-----------------------------------------------------------------------------
(* Requests and their locks *)

\* At most one slot has another operation than before.
OneTurns(calls, s, after) == \A t \in Slots \ {s} : after[t].op = calls[t].op

\* A call that turns without its operation keeps the flag of another one.
LEMMA FlagKept ==
    ASSUME NEW calls, NEW after, NEW s \in Slots, OneTurns(calls, s, after), NEW op, NEW flag,
           (calls[s].op # op /\ after[s].op # op) \/ calls[s].op = after[s].op, FlagFits(calls, op, flag)
    PROVE  FlagFits(after, op, flag)
<1>1. \A t \in Slots : after[t].op = op <=> calls[t].op = op
    BY DEF OneTurns
<1> QED BY <1>1 DEF FlagFits

\* The only call of an operation raises its flag.
LEMMA FlagRaised ==
    ASSUME NEW calls, NEW after, NEW s \in Slots, OneTurns(calls, s, after), NEW op,
           after[s].op = op, \A t \in Slots : calls[t].op # op
    PROVE  FlagFits(after, op, TRUE)
<1>1. \A t \in Slots : after[t].op = op => t = s
    BY DEF OneTurns
<1> QED BY <1>1 DEF FlagFits

\* Its end lowers it.
LEMMA FlagLowered ==
    ASSUME NEW calls, NEW after, NEW s \in Slots, OneTurns(calls, s, after), NEW op, NEW flag,
           calls[s].op = op, after[s].op # op, FlagFits(calls, op, flag)
    PROVE  FlagFits(after, op, FALSE)
<1>1. \A t \in Slots \ {s} : calls[t].op # op
    BY DEF FlagFits
<1>2. \A t \in Slots : after[t].op # op
    BY <1>1 DEF OneTurns
<1> QED BY <1>2 DEF FlagFits

\* A dialog keeps the call it waits for.
LEMMA ModalKept ==
    ASSUME NEW calls, NEW after, NEW s \in Slots, OneTurns(calls, s, after), NEW dialog,
           \/ calls[s].op \notin BoardChanges \cup {"sync", "settle"}
           \/ after[s].op \in BoardChanges \cup {"sync", "settle"}
           \/ dialog.saving # s,
           ModalFits(calls, dialog)
    PROVE  ModalFits(after, dialog)
<1> SUFFICES ASSUME dialog # None, dialog.saving # None
             PROVE  after[dialog.saving].op \in BoardChanges \cup {"sync", "settle"}
    BY DEF ModalFits
<1>1. PICK t \in Slots : t = dialog.saving
    BY DEF ModalFits
<1>2. calls[t].op \in BoardChanges \cup {"sync", "settle"}
    BY <1>1 DEF ModalFits
<1>3. CASE t = s
    BY <1>1, <1>2, <1>3
<1>4. CASE t # s
    BY <1>1, <1>2, <1>4 DEF OneTurns
<1> QED BY <1>3, <1>4

\* So does the form of the credential.
LEMMA FormKept ==
    ASSUME NEW calls, NEW after, NEW s \in Slots, OneTurns(calls, s, after), NEW lock,
           calls[s].op # "cookie" \/ after[s].op = "cookie" \/ lock # s, FormFits(calls, lock)
    PROVE  FormFits(after, lock)
<1> SUFFICES ASSUME lock # None
             PROVE  lock \in Slots /\ after[lock].op = "cookie"
    BY DEF FormFits
<1>1. lock \in Slots /\ calls[lock].op = "cookie"
    BY DEF FormFits
<1> QED BY <1>1 DEF OneTurns

\* The dialog after a snapshot was shown, or the address changed.
LEMMA Redrawn ==
    ASSUME NEW calls, ModalFits(calls, modal), Redraw
    PROVE  ModalFits(calls, modal') /\ DetailFits'
<1>1. PICK detail : detail = DetailOf(shown'.table, selectedPile', portFilter')
    OBVIOUS
<1>2. modal' = Remount(detail)
    BY <1>1 DEF Redraw
<1>3. \/ modal' = None
      \/ /\ modal' = modal
         /\ modal.pile = detail
    <2>1. CASE modal # None /\ modal.pile # detail
        BY <1>2, <2>1 DEF Remount
    <2>2. CASE modal = None
        BY <1>2, <2>2 DEF Remount
    <2>3. CASE modal # None /\ modal.pile = detail
        BY <1>2, <2>3 DEF Remount
    <2> QED BY <2>1, <2>2, <2>3
<1>4. modal' # None => modal'.pile = detail
    BY <1>3
<1>5. DetailFits'
    BY <1>1, <1>4 DEF DetailFits, DetailPile
<1> QED BY <1>3, <1>5 DEF ModalFits

\* A request that begins.
IsRequested(calls, call, s, after) ==
    /\ calls[s].op = "idle" /\ DOMAIN after = Slots
    /\ \A t \in Slots \ {s} : after[t] = calls[t]
    /\ DOMAIN after[s] = DOMAIN call \cup {"answer"} /\ after[s].answer = Unanswered
    /\ \A f \in DOMAIN call : after[s][f] = call[f]

\* A request takes a slot and leaves the other calls as they were.
LEMMA SentBoard ==
    ASSUME CallsInv, NEW call, SendBoard(call), "answer" \notin DOMAIN call
    PROVE  NextSlot(boardCalls) \in Slots /\ IsRequested(boardCalls, call, NextSlot(boardCalls), boardCalls')
<1>1. PICK next : next = With([answer |-> Unanswered], call)
    OBVIOUS
<1>2. /\ DOMAIN next = DOMAIN call \cup {"answer"} /\ next.answer = Unanswered
      /\ \A f \in DOMAIN call : next[f] = call[f]
    BY <1>1 DEF With
<1>3. PICK calls : calls = boardCalls
    OBVIOUS
<1>4. boardCalls' = Begin(calls, next) /\ DOMAIN calls = Slots /\ Free(calls) # {}
    BY <1>1, <1>3 DEF SendBoard, CallsInv
<1>5. /\ DOMAIN Begin(calls, next) = Slots
      /\ NextSlot(calls) \in Slots /\ calls[NextSlot(calls)].op = "idle"
      /\ \A t \in Slots : Begin(calls, next)[t] = IF t = NextSlot(calls) THEN next ELSE calls[t]
    BY <1>4, BegunCalls
<1>6. PICK s \in Slots : s = NextSlot(calls)
    BY <1>5
<1>7. IsRequested(calls, call, s, boardCalls')
    BY <1>2, <1>4, <1>5, <1>6 DEF IsRequested
<1> QED BY <1>3, <1>6, <1>7

\* What begins is no answer yet.
LEMMA BegunFits ==
    ASSUME CallsInv, NEW call, NEW s \in Slots, IsRequested(boardCalls, call, s, boardCalls'),
           "op" \in DOMAIN call, call.op \in BoardChanges \cup (Loads \ {"sync", "settle"}),
           UNCHANGED <<pileTable, now, tied>>
    PROVE  CallsInv' /\ OneTurns(boardCalls, s, boardCalls') /\ boardCalls'[s].op = call.op
<1>1. PICK calls : calls = boardCalls
    OBVIOUS
<1>2. PICK after : after = boardCalls'
    OBVIOUS
<1>3. IsRequested(calls, call, s, after) /\ \A t \in Slots : BoardCallOK(calls[t], pileTable, now, tied)
    BY <1>1, <1>2 DEF CallsInv
<1>4. PICK next : next = after[s]
    OBVIOUS
<1>5. next.op = call.op /\ {"op", "answer"} \subseteq DOMAIN next /\ next.answer = Unanswered
    BY <1>3, <1>4 DEF IsRequested
<1>6. ~Succeeds(next)
    BY <1>5 DEF Succeeds, Unanswered
<1>7. BoardCallOK(next, pileTable, now, tied)
    BY <1>5, <1>6 DEF BoardCallOK, IsCall, Loads, BoardChanges
<1>8. \A t \in Slots : BoardCallOK(after[t], pileTable, now, tied)
    BY <1>3, <1>4, <1>7 DEF IsRequested
<1>9. DOMAIN after = Slots /\ OneTurns(calls, s, after)
    BY <1>3 DEF IsRequested, OneTurns
<1> QED BY <1>1, <1>2, <1>4, <1>5, <1>8, <1>9 DEF CallsInv

\* One that ends.
LEMMA EndedFits ==
    ASSUME CallsInv, NEW s \in Slots, boardCalls' = End(boardCalls, s), UNCHANGED <<pileTable, now, tied>>
    PROVE  CallsInv' /\ OneTurns(boardCalls, s, boardCalls') /\ boardCalls'[s].op = "idle"
<1>1. PICK calls : calls = boardCalls
    OBVIOUS
<1>2. PICK after : after = boardCalls'
    OBVIOUS
<1>3. DOMAIN after = Slots /\ \A t \in Slots : after[t] = IF t = s THEN NoCall ELSE calls[t]
    BY <1>1, <1>2, EndedCalls DEF CallsInv
<1>4. PICK idle : idle = NoCall
    OBVIOUS
<1>5. idle.op = "idle" /\ DOMAIN idle = {"op"}
    BY <1>4 DEF NoCall
<1>6. BoardCallOK(idle, pileTable, now, tied)
    BY <1>5 DEF BoardCallOK, IsCall, Loads, BoardChanges
<1>7. \A t \in Slots : BoardCallOK(after[t], pileTable, now, tied)
    BY <1>1, <1>3, <1>4, <1>6 DEF CallsInv
<1> QED BY <1>1, <1>2, <1>3, <1>4, <1>5, <1>7 DEF CallsInv, OneTurns

\* The locks do not look at answers.
LEMMA LocksRest ==
    ASSUME LockInv, NEW after, \A t \in Slots : after[t].op = boardCalls[t].op
    PROVE  /\ FlagFits(after, "refresh", refreshing) /\ FlagFits(after, "order", reordering)
           /\ ModalFits(after, modal) /\ FormFits(after, cookieLock)
<1>1. PICK s \in Slots : TRUE
    BY SlotsAssumption
<1>2. OneTurns(boardCalls, s, after) /\ after[s].op = boardCalls[s].op
    BY DEF OneTurns
<1>3. FlagFits(after, "refresh", refreshing) /\ FlagFits(after, "order", reordering)
    BY <1>2, FlagKept DEF LockInv
<1>4. ModalFits(after, modal) /\ FormFits(after, cookieLock)
    BY <1>2, ModalKept, FormKept DEF LockInv
<1> QED BY <1>3, <1>4

\* The page is as it was.
LEMMA DetailRests ==
    ASSUME LockInv, UNCHANGED <<shown, selectedPile, portFilter>>, NEW view, modal' = view,
           view # None => modal # None /\ view.pile = modal.pile
    PROVE  DetailFits'
<1>1. DetailPile' = DetailPile
    BY DEF DetailPile
<1> QED BY <1>1 DEF LockInv, DetailFits

-----------------------------------------------------------------------------
(* Steps of the backend *)

\* What an answer says of the present.
IsAnswered(call, answer, table, time, same) ==
    answer.kind = "ok" =>
        /\ call.op \in Loads => IsSnap(answer.body, table, time, same) /\ answer.body.at = time
        /\ call.op \in BoardChanges => answer.body = time

\* An answer that tells the truth keeps the calls.
LEMMA AnsweredFits ==
    ASSUME CallsInv, NEW s \in Slots, NEW answer, boardCalls' = [boardCalls EXCEPT ![s].answer = answer],
           now \in Nat, UNCHANGED <<pileTable, now, tied>> \/ Ticks,
           IsAnswered(boardCalls[s], answer, pileTable', now', tied')
    PROVE  CallsInv' /\ \A t \in Slots : boardCalls'[t].op = boardCalls[t].op
<1>1. PICK calls : calls = boardCalls
    OBVIOUS
<1>2. PICK after : after = boardCalls'
    OBVIOUS
<1>3. PICK old : old = calls[s]
    OBVIOUS
<1>4. PICK next : next = after[s]
    OBVIOUS
<1>5. DOMAIN calls = Slots /\ BoardCallOK(old, pileTable, now, tied)
    BY <1>1, <1>3 DEF CallsInv
<1>6. /\ DOMAIN after = Slots /\ \A t \in Slots \ {s} : after[t] = calls[t]
      /\ DOMAIN next = DOMAIN old /\ \A f \in DOMAIN old \ {"answer"} : next[f] = old[f]
      /\ "answer" \in DOMAIN old => next.answer = answer
    <2>1. after = [calls EXCEPT ![s].answer = answer]
        BY <1>1, <1>2
    <2> QED BY <1>3, <1>4, <1>5, <2>1, ToldCalls
<1>0. now' \in Nat /\ Ages(pileTable, now, tied, pileTable', now', tied')
    <2>1. CASE UNCHANGED <<pileTable, now, tied>>
        BY <2>1 DEF Ages
    <2>2. CASE Ticks
        BY <2>2, ClockTicks
    <2> QED BY <2>1, <2>2
<1>7. ASSUME NEW t \in Slots
      PROVE  BoardCallOK(calls[t], pileTable', now', tied')
    <2>1. PICK call : call = calls[t]
        OBVIOUS
    <2>2. BoardCallOK(call, pileTable, now, tied)
        BY <1>1, <2>1 DEF CallsInv
    <2>3. BoardCallOK(call, pileTable', now', tied')
        BY <1>0, <2>2, CallAges
    <2> QED BY <2>1, <2>3
<1>8. BoardCallOK(old, pileTable', now', tied')
    BY <1>3, <1>7
<1>9. "op" \in DOMAIN old /\ next.op = old.op
    BY <1>5, <1>6 DEF BoardCallOK, IsCall
<1>10. IsAnswered(old, answer, pileTable', now', tied')
    BY <1>1, <1>3
<1>11. BoardCallOK(next, pileTable', now', tied')
    <2>1. CASE old.op = "idle"
        BY <1>6, <1>9, <2>1 DEF BoardCallOK, IsCall, Loads, BoardChanges
    <2>2. CASE old.op # "idle"
        <3>1. next.answer = answer /\ IsCall(next, {})
            BY <1>5, <1>6, <1>9, <2>2 DEF BoardCallOK, IsCall
        <3>2. Succeeds(next) <=> answer.kind = "ok"
            BY <3>1 DEF Succeeds
        <3>3. old.op \in BoardChanges \cup Loads
            BY <1>5, <2>2 DEF BoardCallOK
        <3>4. now' \in Nat
            BY <1>0
        <3>5. ASSUME old.op \in {"sync", "settle"}
              PROVE  "since" \in DOMAIN next /\ next.since = old.since /\ old.since \in Nat /\ old.since <= now'
            <4>1. "since" \in DOMAIN old
                BY <1>5, <3>5 DEF BoardCallOK
            <4>2. next.since = old.since
                BY <1>6, <4>1
            <4>3. old.since \in Nat /\ old.since <= now'
                BY <1>8, <3>5 DEF BoardCallOK
            <4> QED BY <1>6, <4>1, <4>2, <4>3
        <3>6. CASE old.op \in BoardChanges
            <4>1. next.op \in BoardChanges /\ next.op \notin Loads /\ next.op \notin {"sync", "settle"}
                BY <1>9, <3>6 DEF BoardChanges, Loads
            <4>2. Succeeds(next) => next.answer.body = now'
                BY <1>10, <3>1, <3>2, <3>6 DEF IsAnswered
            <4> QED BY <3>1, <3>4, <4>1, <4>2 DEF BoardCallOK
        <3>7. CASE old.op \in Loads
            <4>1. next.op \in Loads /\ next.op \notin BoardChanges
                BY <1>9, <3>7 DEF BoardChanges, Loads
            <4>2. Succeeds(next) => IsSnap(next.answer.body, pileTable', now', tied') /\ next.answer.body.at = now'
                BY <1>10, <3>1, <3>2, <3>7 DEF IsAnswered
            <4>3. next.op \in {"sync", "settle"} =>
                    /\ "since" \in DOMAIN next /\ next.since \in Nat /\ next.since <= now'
                    /\ Succeeds(next) => next.since <= next.answer.body.at
                BY <1>9, <3>5, <4>2
            <4> QED BY <3>1, <4>1, <4>2, <4>3 DEF BoardCallOK
        <3> QED BY <3>3, <3>6, <3>7
    <2> QED BY <2>1, <2>2
<1>12. \A t \in Slots : BoardCallOK(after[t], pileTable', now', tied')
    BY <1>4, <1>6, <1>7, <1>11
<1>13. \A t \in Slots : after[t].op = calls[t].op
    BY <1>3, <1>4, <1>6, <1>9
<1> QED BY <1>1, <1>2, <1>6, <1>12, <1>13 DEF CallsInv

\* Serving a call, with or without a change and its frame.
LEMMA ServedFits ==
    ASSUME BoardInv, NEW s \in Slots, NEW answer, AnswerBoard(s, answer),
           \/ UNCHANGED <<pileTable, now, tied, frames, dropped>>
           \/ Ticks /\ PublishFrame /\ DOMAIN pileTable' \subseteq BoardPiles,
           IsAnswered(boardCalls[s], answer, pileTable', now', tied')
    PROVE  BoardInv'
<1>1. /\ boardCalls' = [boardCalls EXCEPT ![s].answer = answer]
      /\ UNCHANGED <<link, shown, stamp, selectedPile, portFilter, modal, cookieLock, refreshing, reordering>>
    BY DEF AnswerBoard, desk, address, flags
<1>2. StreamInv'
    BY <1>1, StreamRests, StreamPublishes DEF BoardInv
<1>3. CallsInv' /\ \A t \in Slots : boardCalls'[t].op = boardCalls[t].op
    BY <1>1, AnsweredFits DEF BoardInv, StreamInv
<1>4. /\ FlagFits(boardCalls', "refresh", refreshing) /\ FlagFits(boardCalls', "order", reordering)
      /\ ModalFits(boardCalls', modal) /\ FormFits(boardCalls', cookieLock)
    BY <1>3, LocksRest DEF BoardInv
<1>5. DetailFits'
    BY <1>1, DetailRests DEF BoardInv
<1> QED BY <1>1, <1>2, <1>3, <1>4, <1>5 DEF BoardInv, LockInv

\* Each operation of the backend serves one call.
LEMMA ServeBoardKeeps ==
    ASSUME BoardInv, NEW s \in Slots,
           ServeRead(s) \/ ServeRefresh(s) \/ ServeOrder(s) \/ ServeChange(s) \/ LoseBoardAnswer(s)
    PROVE  BoardInv'
<1>0. DOMAIN pileTable \subseteq BoardPiles /\ now \in Nat
    BY DEF BoardInv, StreamInv
<1>1. PICK call : call = boardCalls[s]
    OBVIOUS
<1>2. CASE ServeRead(s)
    <2>1. PICK snap : snap = Snapshot
        OBVIOUS
    <2>2. IsSnap(snap, pileTable, now, tied) /\ snap.at = now
        BY <1>0, <2>1 DEF Snapshot, IsSnap
    <2>3. PICK answer : answer = Ok(snap)
        OBVIOUS
    <2>4. answer.kind = "ok" /\ answer.body = snap
        BY <2>3 DEF Ok
    <2>5. call.op \in {"load", "sync", "settle"} /\ AnswerBoard(s, answer) /\ UNCHANGED <<pileTable, now, tied, frames, dropped>>
        BY <1>1, <1>2, <2>1, <2>3 DEF ServeRead, backend
    <2>6. IsAnswered(boardCalls[s], answer, pileTable', now', tied')
        BY <1>1, <2>2, <2>4, <2>5 DEF IsAnswered, BoardChanges
    <2> QED BY <2>5, <2>6, ServedFits
<1>3. PICK snap : snap = [table |-> pileTable', at |-> now']
    OBVIOUS
<1>4. ASSUME Ticks, DOMAIN pileTable' \subseteq BoardPiles
      PROVE  IsSnap(snap, pileTable', now', tied') /\ snap.at = now'
    <2>1. now' \in Nat
        BY <1>0, <1>4, ClockTicks
    <2> QED BY <1>3, <1>4, <2>1 DEF IsSnap
<1>5. CASE ServeRefresh(s)
    <2>1. DOMAIN pileTable' = DOMAIN pileTable /\ Ticks
        BY <1>5 DEF ServeRefresh
    <2>2. PICK answer : answer = Ok(snap)
        OBVIOUS
    <2>3. answer.kind = "ok" /\ answer.body = snap
        BY <2>2 DEF Ok
    <2>4. call.op \in {"refresh", "cookie"} /\ AnswerBoard(s, answer) /\ PublishFrame
        BY <1>1, <1>3, <1>5, <2>2 DEF ServeRefresh
    <2>5. IsAnswered(boardCalls[s], answer, pileTable', now', tied')
        BY <1>0, <1>1, <1>4, <2>1, <2>3, <2>4 DEF IsAnswered, BoardChanges
    <2> QED BY <1>0, <2>1, <2>4, <2>5, ServedFits
<1>6. CASE ServeOrder(s)
    <2>1. call.op = "order"
        BY <1>1, <1>6 DEF ServeOrder
    <2>2. CASE Range(call.ids) = DOMAIN pileTable
        <3>1. DOMAIN pileTable' = DOMAIN pileTable /\ Ticks
            BY <1>1, <1>6, <2>2 DEF ServeOrder
        <3>2. PICK answer : answer = Ok(snap)
            OBVIOUS
        <3>3. answer.kind = "ok" /\ answer.body = snap
            BY <3>2 DEF Ok
        <3>4. AnswerBoard(s, answer) /\ PublishFrame
            BY <1>1, <1>3, <1>6, <2>2, <3>2 DEF ServeOrder
        <3>5. IsAnswered(boardCalls[s], answer, pileTable', now', tied')
            BY <1>0, <1>1, <1>4, <2>1, <3>1, <3>3 DEF IsAnswered, BoardChanges
        <3> QED BY <1>0, <3>1, <3>4, <3>5, ServedFits
    <2>3. CASE Range(call.ids) # DOMAIN pileTable
        <3>1. PICK answer : answer = Refused("order")
            OBVIOUS
        <3>2. answer.kind = "refused"
            BY <3>1 DEF Refused
        <3>3. AnswerBoard(s, answer) /\ UNCHANGED <<pileTable, now, tied, frames, dropped>>
            BY <1>1, <1>6, <2>3, <3>1 DEF ServeOrder, backend
        <3>4. IsAnswered(boardCalls[s], answer, pileTable', now', tied')
            BY <3>2 DEF IsAnswered
        <3> QED BY <3>3, <3>4, ServedFits
    <2> QED BY <2>2, <2>3
<1>7. CASE ServeChange(s)
    <2>1. call.op \in BoardChanges
        BY <1>1, <1>7 DEF ServeChange, BoardChanges
    <2>2. CASE call.pile \in DOMAIN pileTable
        <3>1. DOMAIN pileTable' \subseteq DOMAIN pileTable /\ Ticks
            BY <1>1, <1>7, <2>2 DEF ServeChange
        <3>2. PICK answer : answer = Ok(now')
            OBVIOUS
        <3>3. answer.kind = "ok" /\ answer.body = now'
            BY <3>2 DEF Ok
        <3>4. AnswerBoard(s, answer) /\ PublishFrame
            BY <1>1, <1>7, <2>2, <3>2 DEF ServeChange
        <3>5. IsAnswered(boardCalls[s], answer, pileTable', now', tied')
            BY <1>1, <2>1, <3>3 DEF IsAnswered, BoardChanges, Loads
        <3> QED BY <1>0, <3>1, <3>4, <3>5, ServedFits
    <2>3. CASE call.pile \notin DOMAIN pileTable
        <3>1. PICK answer : answer = Refused("unknown")
            OBVIOUS
        <3>2. answer.kind = "refused"
            BY <3>1 DEF Refused
        <3>3. AnswerBoard(s, answer) /\ UNCHANGED <<pileTable, now, tied, frames, dropped>>
            BY <1>1, <1>7, <2>3, <3>1 DEF ServeChange, backend
        <3>4. IsAnswered(boardCalls[s], answer, pileTable', now', tied')
            BY <3>2 DEF IsAnswered
        <3> QED BY <3>3, <3>4, ServedFits
    <2> QED BY <2>2, <2>3
<1>8. CASE LoseBoardAnswer(s)
    <2>1. PICK answer : answer = Lost
        OBVIOUS
    <2>2. answer.kind = "lost"
        BY <2>1 DEF Lost
    <2>3. /\ boardCalls' = [boardCalls EXCEPT ![s].answer = answer]
          /\ UNCHANGED <<pileTable, now, tied, link, frames, dropped, shown, stamp, selectedPile, portFilter, modal,
                         cookieLock, refreshing, reordering>>
        BY <1>8, <2>1 DEF LoseBoardAnswer, LoseAnswer, backend, stream, desk, address, flags
    <2>4. IsAnswered(boardCalls[s], answer, pileTable', now', tied')
        BY <2>2 DEF IsAnswered
    <2>5. CallsInv' /\ \A t \in Slots : boardCalls'[t].op = boardCalls[t].op
        BY <1>0, <2>3, <2>4, AnsweredFits DEF BoardInv
    <2>6. /\ FlagFits(boardCalls', "refresh", refreshing) /\ FlagFits(boardCalls', "order", reordering)
          /\ ModalFits(boardCalls', modal) /\ FormFits(boardCalls', cookieLock)
        BY <2>5, LocksRest DEF BoardInv
    <2>7. StreamInv' /\ DetailFits'
        BY <2>3, StreamRests, DetailRests DEF BoardInv
    <2> QED BY <2>3, <2>5, <2>6, <2>7 DEF BoardInv, LockInv
<1> QED BY <1>2, <1>5, <1>6, <1>7, <1>8

\* A pile changes elsewhere, and its frame is published.
LEMMA ChangeElsewhereKeeps ==
    ASSUME BoardInv, ChangeElsewhere
    PROVE  BoardInv'
<1>0. DOMAIN pileTable \subseteq BoardPiles /\ now \in Nat
    BY DEF BoardInv, StreamInv
<1>1. /\ Ticks /\ PublishFrame /\ boardCalls' = boardCalls
      /\ UNCHANGED <<link, shown, stamp, selectedPile, portFilter, modal, cookieLock, refreshing, reordering>>
    BY DEF ChangeElsewhere, desk, address, flags
<1>2. DOMAIN pileTable' \subseteq BoardPiles
    BY <1>0 DEF ChangeElsewhere
<1>3. StreamInv'
    BY <1>1, <1>2, StreamPublishes DEF BoardInv
<1>4. CallsInv'
    <2>1. Ages(pileTable, now, tied, pileTable', now', tied')
        BY <1>0, <1>1, ClockTicks
    <2> QED BY <1>0, <1>1, <2>1, CallAges DEF BoardInv, CallsInv
<1>5. DetailFits'
    BY <1>1, DetailRests DEF BoardInv
<1> QED BY <1>1, <1>3, <1>4, <1>5 DEF BoardInv, LockInv

-----------------------------------------------------------------------------
(* Steps of the page *)

\* Selections and dialogs of the page.
LEMMA BrowsePilesKeeps ==
    ASSUME BoardInv,
           \/ \E p \in BoardPiles \cup {None} : Select(p)
           \/ \E filter \in {"all", "idle"} : ChooseFilter(filter)
           \/ HideCookieForm \/ (\E kind \in {"edit", "remove"} : OpenModal(kind)) \/ CloseModal
    PROVE  BoardInv'
<1>1. UNCHANGED <<pileTable, now, tied, link, frames, dropped, shown, stamp, boardCalls, refreshing, reordering>>
    BY DEF Select, ChooseFilter, HideCookieForm, OpenModal, CloseModal, backend, stream, flags, address
<1>2. StreamInv' /\ CallsInv'
    BY <1>1, StreamRests DEF BoardInv, CallsInv
<1>3. FormFits(boardCalls, cookieLock)'
    <2>1. cookieLock' = None \/ cookieLock' = cookieLock
        BY DEF Select, ChooseFilter, HideCookieForm, OpenModal, CloseModal
    <2> QED BY <1>1, <2>1 DEF BoardInv, LockInv, FormFits
<1>4. ModalFits(boardCalls, modal)' /\ DetailFits'
    <2>1. CASE \E kind \in {"edit", "remove"} : OpenModal(kind)
        <3>1. PICK kind \in {"edit", "remove"} : OpenModal(kind)
            BY <2>1
        <3>2. PICK dialog : dialog = [kind |-> kind, pile |-> DetailPile, saving |-> None]
            OBVIOUS
        <3>3. /\ DOMAIN dialog = {"kind", "pile", "saving"} /\ dialog.kind = kind /\ dialog.pile = DetailPile
              /\ dialog.saving = None
            BY <3>2
        <3>4. modal' = dialog /\ UNCHANGED <<selectedPile, portFilter>>
            BY <3>1, <3>2 DEF OpenModal, address
        <3>5. DetailPile' = DetailPile
            BY <1>1, <3>4 DEF DetailPile
        <3> QED BY <3>3, <3>4, <3>5 DEF ModalFits, DetailFits, BoardChanges
    <2>2. CASE CloseModal
        BY <2>2 DEF CloseModal, ModalFits, DetailFits
    <2>3. CASE HideCookieForm
        <3>1. UNCHANGED <<selectedPile, portFilter, modal>>
            BY <2>3 DEF HideCookieForm, address
        <3> QED BY <1>1, <3>1, DetailRests DEF BoardInv, LockInv
    <2>4. CASE \/ \E p \in BoardPiles \cup {None} : Select(p)
               \/ \E filter \in {"all", "idle"} : ChooseFilter(filter)
        BY <2>4 DEF Select, ChooseFilter, Bare, ModalFits, DetailFits
    <2> QED BY <2>1, <2>2, <2>3, <2>4
<1> QED BY <1>1, <1>2, <1>3, <1>4 DEF BoardInv, LockInv

\* What a request that begins leaves of the locks of the others.
LEMMA BegunLocks ==
    ASSUME BoardInv, NEW call, NEW s \in Slots, IsRequested(boardCalls, call, s, boardCalls'),
           "op" \in DOMAIN call, call.op \in BoardChanges \cup (Loads \ {"sync", "settle"}),
           UNCHANGED <<pileTable, now, tied, link, frames, dropped, shown, stamp>>
    PROVE  /\ StreamInv' /\ CallsInv'
           /\ boardCalls'[s].op = call.op
           /\ call.op # "refresh" => FlagFits(boardCalls', "refresh", refreshing)
           /\ call.op = "refresh" /\ ~refreshing => FlagFits(boardCalls', "refresh", TRUE)
           /\ call.op # "order" => FlagFits(boardCalls', "order", reordering)
           /\ call.op = "order" /\ ~reordering => FlagFits(boardCalls', "order", TRUE)
           /\ ModalFits(boardCalls', modal) /\ FormFits(boardCalls', cookieLock)
<1>1. CallsInv' /\ OneTurns(boardCalls, s, boardCalls') /\ boardCalls'[s].op = call.op
    BY BegunFits DEF BoardInv
<1>2. boardCalls[s].op = "idle"
    BY DEF IsRequested
<1>3. StreamInv'
    BY StreamRests DEF BoardInv
<1>4. /\ FlagFits(boardCalls, "refresh", refreshing) /\ FlagFits(boardCalls, "order", reordering)
      /\ ModalFits(boardCalls, modal) /\ FormFits(boardCalls, cookieLock)
    BY DEF BoardInv, LockInv
<1>5. ModalFits(boardCalls', modal) /\ FormFits(boardCalls', cookieLock)
    <2>1. boardCalls[s].op \notin BoardChanges \cup {"sync", "settle"} /\ boardCalls[s].op # "cookie"
        BY <1>2 DEF BoardChanges
    <2> QED BY <1>1, <1>4, <2>1, ModalKept, FormKept
<1>6. call.op # "refresh" => FlagFits(boardCalls', "refresh", refreshing)
    BY <1>1, <1>2, <1>4, FlagKept
<1>7. call.op # "order" => FlagFits(boardCalls', "order", reordering)
    BY <1>1, <1>2, <1>4, FlagKept
<1>8. ASSUME call.op = "refresh", ~refreshing
      PROVE  FlagFits(boardCalls', "refresh", TRUE)
    <2>1. boardCalls'[s].op = "refresh"
        BY <1>1, <1>8
    <2>2. \A t \in Slots : boardCalls[t].op # "refresh"
        BY <1>4, <1>8 DEF FlagFits
    <2> QED BY <1>1, <2>1, <2>2, FlagRaised
<1>9. ASSUME call.op = "order", ~reordering
      PROVE  FlagFits(boardCalls', "order", TRUE)
    <2>1. boardCalls'[s].op = "order"
        BY <1>1, <1>9
    <2>2. \A t \in Slots : boardCalls[t].op # "order"
        BY <1>4, <1>9 DEF FlagFits
    <2> QED BY <1>1, <2>1, <2>2, FlagRaised
<1> QED BY <1>1, <1>3, <1>5, <1>6, <1>7, <1>8, <1>9

\* The first load is asked for.
LEMMA LoadPilesKeeps ==
    ASSUME BoardInv, LoadPiles
    PROVE  BoardInv'
<1>1. PICK call : call = [op |-> "load"]
    OBVIOUS
<1>2. DOMAIN call = {"op"} /\ call.op = "load"
    BY <1>1
<1>3. /\ SendBoard(call)
      /\ UNCHANGED <<pileTable, now, tied, link, frames, dropped, shown, stamp, selectedPile, portFilter, modal,
                     cookieLock, refreshing, reordering>>
    BY <1>1 DEF LoadPiles, backend, stream, address
<1>4. PICK s \in Slots : IsRequested(boardCalls, call, s, boardCalls')
    BY <1>2, <1>3, SentBoard DEF BoardInv
<1>5. /\ StreamInv' /\ CallsInv' /\ FlagFits(boardCalls', "refresh", refreshing)
      /\ FlagFits(boardCalls', "order", reordering)
      /\ ModalFits(boardCalls', modal) /\ FormFits(boardCalls', cookieLock)
    BY <1>2, <1>3, <1>4, BegunLocks DEF Loads
<1>6. DetailFits'
    BY <1>3, DetailRests DEF BoardInv
<1> QED BY <1>3, <1>5, <1>6 DEF BoardInv, LockInv

\* A refresh is asked for.
LEMMA RefreshKeeps ==
    ASSUME BoardInv, Refresh
    PROVE  BoardInv'
<1>1. PICK call : call = [op |-> "refresh"]
    OBVIOUS
<1>2. DOMAIN call = {"op"} /\ call.op = "refresh"
    BY <1>1
<1>3. /\ SendBoard(call) /\ ~refreshing /\ refreshing' = TRUE
      /\ UNCHANGED <<pileTable, now, tied, link, frames, dropped, shown, stamp, selectedPile, portFilter, modal,
                     cookieLock, reordering>>
    BY <1>1 DEF Refresh, RefreshOffered, backend, stream, address
<1>4. PICK s \in Slots : IsRequested(boardCalls, call, s, boardCalls')
    BY <1>2, <1>3, SentBoard DEF BoardInv
<1>5. /\ StreamInv' /\ CallsInv' /\ FlagFits(boardCalls', "refresh", TRUE)
      /\ FlagFits(boardCalls', "order", reordering)
      /\ ModalFits(boardCalls', modal) /\ FormFits(boardCalls', cookieLock)
    BY <1>2, <1>3, <1>4, BegunLocks DEF Loads
<1>6. DetailFits'
    BY <1>3, DetailRests DEF BoardInv
<1> QED BY <1>3, <1>5, <1>6 DEF BoardInv, LockInv

\* A pile is moved.
LEMMA MoveKeeps ==
    ASSUME BoardInv, NEW p \in BoardPiles, NEW direction \in {-1, 1}, Move(p, direction)
    PROVE  BoardInv'
<1>1. PICK ids : SendBoard([op |-> "order", ids |-> ids])
    BY DEF Move
<1>2. PICK call : call = [op |-> "order", ids |-> ids]
    OBVIOUS
<1>3. DOMAIN call = {"op", "ids"} /\ call.op = "order"
    BY <1>2
<1>4. /\ SendBoard(call) /\ ~reordering /\ reordering' = TRUE
      /\ UNCHANGED <<pileTable, now, tied, link, frames, dropped, shown, stamp, selectedPile, portFilter, modal,
                     cookieLock, refreshing>>
    BY <1>1, <1>2 DEF Move, MayMove, backend, stream, address
<1>5. PICK s \in Slots : IsRequested(boardCalls, call, s, boardCalls')
    BY <1>3, <1>4, SentBoard DEF BoardInv
<1>6. /\ StreamInv' /\ CallsInv' /\ FlagFits(boardCalls', "refresh", refreshing)
      /\ FlagFits(boardCalls', "order", TRUE)
      /\ ModalFits(boardCalls', modal) /\ FormFits(boardCalls', cookieLock)
    BY <1>3, <1>4, <1>5, BegunLocks DEF Loads
<1>7. DetailFits'
    BY <1>4, DetailRests DEF BoardInv
<1> QED BY <1>4, <1>6, <1>7 DEF BoardInv, LockInv

\* A credential is saved.
LEMMA SaveCookieKeeps ==
    ASSUME BoardInv, SaveCookie
    PROVE  BoardInv'
<1>1. PICK call : call = [op |-> "cookie"]
    OBVIOUS
<1>2. DOMAIN call = {"op"} /\ call.op = "cookie"
    BY <1>1
<1>3. /\ SendBoard(call) /\ cookieLock' = NextSlot(boardCalls)
      /\ UNCHANGED <<pileTable, now, tied, link, frames, dropped, shown, stamp, selectedPile, portFilter, modal,
                     refreshing, reordering>>
    BY <1>1 DEF SaveCookie, backend, stream, address, flags
<1>4. PICK s \in Slots : s = NextSlot(boardCalls) /\ IsRequested(boardCalls, call, s, boardCalls')
    BY <1>2, <1>3, SentBoard DEF BoardInv
<1>5. /\ StreamInv' /\ CallsInv' /\ FlagFits(boardCalls', "refresh", refreshing)
      /\ FlagFits(boardCalls', "order", reordering)
      /\ ModalFits(boardCalls', modal) /\ boardCalls'[s].op = "cookie"
    BY <1>2, <1>3, <1>4, BegunLocks DEF Loads
<1>6. DetailFits' /\ FormFits(boardCalls', cookieLock')
    BY <1>3, <1>4, <1>5, DetailRests DEF BoardInv, FormFits
<1> QED BY <1>3, <1>5, <1>6 DEF BoardInv, LockInv

\* A dialog is submitted.
LEMMA SubmitModalKeeps ==
    ASSUME BoardInv, SubmitModal
    PROVE  BoardInv'
<1>1. PICK call : call = [op |-> modal.kind, pile |-> modal.pile, sort |-> shown.table[modal.pile].sort]
    OBVIOUS
<1>2. DOMAIN call = {"op", "pile", "sort"} /\ call.op = modal.kind
    BY <1>1
<1>3. /\ SendBoard(call) /\ modal # None /\ modal' = [modal EXCEPT !.saving = NextSlot(boardCalls)]
      /\ UNCHANGED <<pileTable, now, tied, link, frames, dropped, shown, stamp, selectedPile, portFilter, cookieLock,
                     refreshing, reordering>>
    BY <1>1 DEF SubmitModal, backend, stream, address, flags
<1>4. DOMAIN modal = {"kind", "pile", "saving"} /\ call.op \in BoardChanges
    BY <1>2, <1>3 DEF BoardInv, LockInv, ModalFits
<1>5. PICK s \in Slots : s = NextSlot(boardCalls) /\ IsRequested(boardCalls, call, s, boardCalls')
    BY <1>2, <1>3, SentBoard DEF BoardInv
<1>6. call.op # "refresh" /\ call.op # "order"
    BY <1>4 DEF BoardChanges
<1>7. /\ StreamInv' /\ CallsInv' /\ FlagFits(boardCalls', "refresh", refreshing)
      /\ FlagFits(boardCalls', "order", reordering)
      /\ FormFits(boardCalls', cookieLock) /\ boardCalls'[s].op \in BoardChanges
    BY <1>2, <1>3, <1>4, <1>5, <1>6, BegunLocks
<1>8. PICK dialog : dialog = [modal EXCEPT !.saving = s]
    OBVIOUS
<1>9. /\ DOMAIN dialog = {"kind", "pile", "saving"} /\ dialog.kind = modal.kind /\ dialog.pile = modal.pile
      /\ dialog.saving = s
    BY <1>4, <1>8
<1>10. modal' = dialog
    BY <1>3, <1>5, <1>8
<1>11. ModalFits(boardCalls', dialog)
    BY <1>2, <1>4, <1>7, <1>9 DEF ModalFits
<1>12. DetailFits'
    BY <1>3, <1>9, <1>10, DetailRests DEF BoardInv
<1> QED BY <1>3, <1>7, <1>10, <1>11, <1>12 DEF BoardInv, LockInv

-----------------------------------------------------------------------------
(* Answers that land *)

\* applySnapshot of an answer, if there is one.
ShowsAnswer(call) ==
    IF call.answer.kind = "ok" THEN Apply(call.answer.body) ELSE UNCHANGED <<stamp, shown>>

\* The snapshot of an answer is applied.
LEMMA ShownFits ==
    ASSUME BoardInv, NEW call, BoardCallOK(call, pileTable, now, tied), call.op \in Loads, ShowsAnswer(call),
           UNCHANGED <<pileTable, now, tied, frames, dropped>>, link' = link \/ link' = "connecting"
    PROVE  /\ StreamInv' /\ stamp' >= stamp
           /\ call.op \in {"sync", "settle"} /\ Succeeds(call) => stamp' >= call.since
<1>1. Succeeds(call) => IsSnap(call.answer.body, pileTable, now, tied)
    BY DEF BoardCallOK
<1>2. \/ UNCHANGED <<stamp, shown>>
      \/ \E next : IsSnap(next, pileTable, now, tied) /\ Apply(next)
    BY <1>1 DEF ShowsAnswer, Succeeds
<1>3. StreamInv' /\ stamp' >= stamp
    BY <1>2, StreamShown DEF BoardInv
<1>4. ASSUME call.op \in {"sync", "settle"}, Succeeds(call)
      PROVE  stamp' >= call.since
    <2>1. PICK snap : snap = call.answer.body
        OBVIOUS
    <2>2. IsSnap(snap, pileTable, now, tied) /\ Apply(snap) /\ call.since \in Nat /\ call.since <= snap.at
        BY <1>1, <1>4, <2>1 DEF ShowsAnswer, Succeeds, BoardCallOK
    <2>3. snap.at <= stamp' /\ stamp' \in Nat /\ snap.at \in Nat
        BY <2>2, Applied DEF BoardInv, IsSnap
    <2> QED BY <2>2, <2>3
<1> QED BY <1>3, <1>4

\* The locks of the others, when a request ends.
LEMMA BoardEndedLocks ==
    ASSUME BoardInv, NEW s \in Slots, boardCalls' = End(boardCalls, s), UNCHANGED <<pileTable, now, tied>>
    PROVE  /\ CallsInv' /\ BoardCallOK(boardCalls[s], pileTable, now, tied)
           /\ boardCalls[s].op # "refresh" => FlagFits(boardCalls', "refresh", refreshing)
           /\ boardCalls[s].op = "refresh" => FlagFits(boardCalls', "refresh", FALSE)
           /\ boardCalls[s].op # "order" => FlagFits(boardCalls', "order", reordering)
           /\ boardCalls[s].op = "order" => FlagFits(boardCalls', "order", FALSE)
           /\ boardCalls[s].op \notin BoardChanges \cup {"sync", "settle"} \/ modal.saving # s => ModalFits(boardCalls', modal)
           /\ boardCalls[s].op # "cookie" \/ cookieLock # s => FormFits(boardCalls', cookieLock)
<1>1. CallsInv' /\ OneTurns(boardCalls, s, boardCalls') /\ boardCalls'[s].op = "idle"
    BY EndedFits DEF BoardInv
<1>2. /\ FlagFits(boardCalls, "refresh", refreshing) /\ FlagFits(boardCalls, "order", reordering)
      /\ ModalFits(boardCalls, modal) /\ FormFits(boardCalls, cookieLock)
    BY DEF BoardInv, LockInv
<1>3. boardCalls[s].op # "refresh" => FlagFits(boardCalls', "refresh", refreshing)
    BY <1>1, <1>2, FlagKept
<1>4. boardCalls[s].op = "refresh" => FlagFits(boardCalls', "refresh", FALSE)
    BY <1>1, <1>2, FlagLowered
<1>5. boardCalls[s].op # "order" => FlagFits(boardCalls', "order", reordering)
    BY <1>1, <1>2, FlagKept
<1>6. boardCalls[s].op = "order" => FlagFits(boardCalls', "order", FALSE)
    BY <1>1, <1>2, FlagLowered
<1>7. boardCalls[s].op \notin BoardChanges \cup {"sync", "settle"} \/ modal.saving # s => ModalFits(boardCalls', modal)
    BY <1>1, <1>2, ModalKept
<1>8. boardCalls[s].op # "cookie" \/ cookieLock # s => FormFits(boardCalls', cookieLock)
    BY <1>1, <1>2, FormKept
<1>9. BoardCallOK(boardCalls[s], pileTable, now, tied)
    BY DEF BoardInv, CallsInv
<1> QED BY <1>1, <1>3, <1>4, <1>5, <1>6, <1>7, <1>8, <1>9

\* The answer to a load comes.
LEMMA LandLoadKeeps ==
    ASSUME BoardInv, NEW s \in Slots,
           LandBoard(s) \/ LandRefresh(s) \/ LandOrder(s) \/ LandCookie(s)
    PROVE  BoardInv' /\ stamp' >= stamp
<1>1. PICK call : call = boardCalls[s]
    OBVIOUS
<1>2. /\ call.op \in {"load", "refresh", "order", "cookie"} /\ ShowsAnswer(call) /\ boardCalls' = End(boardCalls, s)
      /\ Redraw /\ UNCHANGED <<pileTable, now, tied, frames, dropped>>
    BY <1>1 DEF LandBoard, LandRefresh, LandOrder, LandCookie, ShowsAnswer, backend, stream
<1>3. link' = link \/ link' = "connecting"
    BY DEF LandBoard, LandRefresh, LandOrder, LandCookie, stream
<1>4. /\ CallsInv' /\ BoardCallOK(call, pileTable, now, tied)
      /\ call.op # "refresh" => FlagFits(boardCalls', "refresh", refreshing)
      /\ call.op = "refresh" => FlagFits(boardCalls', "refresh", FALSE)
      /\ call.op # "order" => FlagFits(boardCalls', "order", reordering)
      /\ call.op = "order" => FlagFits(boardCalls', "order", FALSE)
      /\ call.op \notin BoardChanges \cup {"sync", "settle"} \/ modal.saving # s => ModalFits(boardCalls', modal)
      /\ call.op # "cookie" \/ cookieLock # s => FormFits(boardCalls', cookieLock)
    BY <1>1, <1>2, BoardEndedLocks
<1>5. StreamInv' /\ stamp' >= stamp
    BY <1>2, <1>3, <1>4, ShownFits DEF Loads
<1>6. ModalFits(boardCalls', modal') /\ DetailFits'
    <2>1. ModalFits(boardCalls', modal)
        BY <1>2, <1>4 DEF BoardChanges
    <2> QED BY <1>2, <2>1, Redrawn
<1>7. FlagFits(boardCalls', "refresh", refreshing')
    <2>1. CASE call.op = "refresh"
        <3>1. refreshing' = FALSE
            BY <1>1, <2>1 DEF LandBoard, LandRefresh, LandOrder, LandCookie
        <3> QED BY <1>4, <2>1, <3>1
    <2>2. CASE call.op # "refresh"
        <3>1. refreshing' = refreshing
            BY <1>1, <2>2 DEF LandBoard, LandRefresh, LandOrder, LandCookie, flags
        <3> QED BY <1>4, <2>2, <3>1
    <2> QED BY <2>1, <2>2
<1>8. FlagFits(boardCalls', "order", reordering')
    <2>1. CASE call.op = "order"
        <3>1. reordering' = FALSE
            BY <1>1, <2>1 DEF LandBoard, LandRefresh, LandOrder, LandCookie
        <3> QED BY <1>4, <2>1, <3>1
    <2>2. CASE call.op # "order"
        <3>1. reordering' = reordering
            BY <1>1, <2>2 DEF LandBoard, LandRefresh, LandOrder, LandCookie, flags
        <3> QED BY <1>4, <2>2, <3>1
    <2> QED BY <2>1, <2>2
<1>9. FormFits(boardCalls', cookieLock')
    <2>1. (cookieLock' = cookieLock /\ (call.op # "cookie" \/ cookieLock # s)) \/ cookieLock' = None
        BY <1>1 DEF LandBoard, LandRefresh, LandOrder, LandCookie
    <2>2. CASE cookieLock' = None
        BY <2>2 DEF FormFits
    <2> QED BY <1>4, <2>1, <2>2
<1> QED BY <1>4, <1>5, <1>6, <1>7, <1>8, <1>9 DEF BoardInv, LockInv

\* The dialog that was confirmed is told, another one stays.
LEMMA DialogTold ==
    ASSUME NEW s \in Slots, NEW done, ModalFits(boardCalls, modal), NEW view, view = Tell(s, done),
           NEW calls, modal.saving # s => ModalFits(calls, modal)
    PROVE  /\ ModalFits(calls, view)
           /\ view # None => modal # None /\ view.pile = modal.pile
<1>1. CASE ~OwnModal(s)
    <2>1. view = modal
        BY <1>1 DEF Tell
    <2>2. modal = None \/ modal.saving # s
        BY <1>1 DEF OwnModal
    <2> QED BY <2>1, <2>2 DEF ModalFits
<1>2. CASE OwnModal(s) /\ done
    BY <1>2 DEF Tell, ModalFits
<1>3. CASE OwnModal(s) /\ ~done
    <2>1. view = [modal EXCEPT !.saving = None]
        BY <1>3 DEF Tell
    <2>2. DOMAIN modal = {"kind", "pile", "saving"} /\ modal.kind \in BoardChanges /\ modal # None
        BY <1>3 DEF ModalFits, OwnModal
    <2>3. /\ DOMAIN view = {"kind", "pile", "saving"} /\ view.kind = modal.kind /\ view.saving = None
          /\ view.pile = modal.pile
        BY <2>1, <2>2
    <2> QED BY <2>2, <2>3 DEF ModalFits
<1> QED BY <1>1, <1>2, <1>3

\* The dialog of a handler that ends with its read closes, or nothing was shown.
LEMMA DialogAnswered ==
    ASSUME BoardInv, NEW s \in Slots, NEW call, NEW done, done = (call.answer.kind = "ok"), OwnModal(s),
           ShowsAnswer(call), modal' = Tell(s, done), UNCHANGED <<selectedPile, portFilter>>,
           modal.saving # s => ModalFits(boardCalls', modal)
    PROVE  ModalFits(boardCalls', modal') /\ DetailFits'
<1>1. ModalFits(boardCalls', modal') /\ (modal' # None => modal # None /\ modal'.pile = modal.pile)
    BY DialogTold DEF BoardInv, LockInv
<1>2. CASE done
    <2>1. modal' = None
        BY <1>2 DEF Tell
    <2> QED BY <1>1, <2>1 DEF DetailFits
<1>3. CASE ~done
    <2>1. shown' = shown
        BY <1>3 DEF ShowsAnswer
    <2> QED BY <1>1, <2>1, DetailRests DEF BoardInv
<1> QED BY <1>2, <1>3

\* The handler of a change goes on to a read.
LEMMA HandlerGoesOn ==
    ASSUME BoardInv, NEW s \in Slots, NEW op \in {"sync", "settle"}, NEW change, NEW since \in Nat, since <= now,
           GoesOn(s, op, change, since), UNCHANGED <<pileTable, now, tied>>,
           boardCalls[s].op \in BoardChanges \cup {"sync", "settle"}
    PROVE  /\ CallsInv' /\ boardCalls'[s].op = op
           /\ FlagFits(boardCalls', "refresh", refreshing) /\ FlagFits(boardCalls', "order", reordering)
           /\ ModalFits(boardCalls', modal) /\ FormFits(boardCalls', cookieLock)
<1>1. PICK next : next = [op |-> op, of |-> change, since |-> since, answer |-> Unanswered]
    OBVIOUS
<1>2. /\ DOMAIN next = {"op", "of", "since", "answer"} /\ next.op = op /\ next.answer = Unanswered
      /\ next.since = since
    BY <1>1
<1>3. ~Succeeds(next)
    BY <1>2 DEF Succeeds, Unanswered
<1>4. BoardCallOK(next, pileTable, now, tied)
    BY <1>2, <1>3 DEF BoardCallOK, IsCall, BoardChanges, Loads
<1>5. boardCalls' = [boardCalls EXCEPT ![s] = next] /\ DOMAIN boardCalls = Slots
    BY <1>1 DEF GoesOn, BoardInv, CallsInv
<1>6. DOMAIN boardCalls' = Slots /\ \A t \in Slots : boardCalls'[t] = IF t = s THEN next ELSE boardCalls[t]
    BY <1>5
<1>7. CallsInv'
    BY <1>4, <1>6 DEF BoardInv, CallsInv
<1>8. OneTurns(boardCalls, s, boardCalls') /\ boardCalls'[s].op = op
    BY <1>2, <1>6 DEF OneTurns
<1>9. boardCalls[s].op \notin {"refresh", "order", "cookie"}
    BY DEF BoardChanges
<1>10. FlagFits(boardCalls', "refresh", refreshing) /\ FlagFits(boardCalls', "order", reordering)
    BY <1>8, <1>9, FlagKept DEF BoardInv, LockInv
<1>11. ModalFits(boardCalls', modal) /\ FormFits(boardCalls', cookieLock)
    BY <1>8, <1>9, ModalKept, FormKept DEF BoardInv, LockInv
<1> QED BY <1>7, <1>8, <1>10, <1>11

\* The answer to a change comes: the handler reads, or the dialog is told at once.
LEMMA LandChangeKeeps ==
    ASSUME BoardInv, NEW s \in Slots, LandChange(s)
    PROVE  BoardInv'
<1>1. PICK call : call = boardCalls[s]
    OBVIOUS
<1>2. /\ call.op \in BoardChanges
      /\ UNCHANGED <<pileTable, now, tied, link, frames, dropped, shown, stamp, selectedPile, portFilter, cookieLock,
                     refreshing, reordering>>
    BY <1>1 DEF LandChange, BoardChanges, backend, stream, address, flags
<1>3. call.op # "refresh" /\ call.op # "order" /\ call.op # "cookie"
    BY <1>2 DEF BoardChanges
<1>4. StreamInv'
    BY <1>2, StreamRests DEF BoardInv
<1>5. BoardCallOK(call, pileTable, now, tied) /\ DOMAIN boardCalls = Slots
    BY <1>1 DEF BoardInv, CallsInv
<1>6. CASE call.answer.kind = "ok" /\ (Fetches \/ call.op = "remove")
    <2>1. PICK op \in {"sync", "settle"} : GoesOn(s, op, call.op, call.answer.body)
        BY <1>1, <1>6 DEF LandChange
    <2>2. call.answer.body \in Nat /\ call.answer.body <= now
        BY <1>2, <1>5, <1>6 DEF BoardCallOK, Succeeds
    <2>3. modal' = modal
        BY <1>1, <1>6 DEF LandChange
    <2>4. /\ CallsInv'
          /\ FlagFits(boardCalls', "refresh", refreshing) /\ FlagFits(boardCalls', "order", reordering)
          /\ ModalFits(boardCalls', modal) /\ FormFits(boardCalls', cookieLock)
        BY <1>1, <1>2, <2>1, <2>2, HandlerGoesOn
    <2>5. DetailFits'
        BY <1>2, <2>3, DetailRests DEF BoardInv
    <2> QED BY <1>2, <1>4, <2>3, <2>4, <2>5 DEF BoardInv, LockInv
<1>7. CASE ~(call.answer.kind = "ok" /\ (Fetches \/ call.op = "remove"))
    <2>1. boardCalls' = End(boardCalls, s)
        BY <1>1, <1>7 DEF LandChange
    <2>2. PICK done : done = (call.answer.kind = "ok")
        OBVIOUS
    <2>3. modal' = Tell(s, done)
        BY <1>1, <1>7, <2>2 DEF LandChange
    <2>4. /\ CallsInv' /\ FlagFits(boardCalls', "refresh", refreshing) /\ FlagFits(boardCalls', "order", reordering)
          /\ FormFits(boardCalls', cookieLock) /\ (modal.saving # s => ModalFits(boardCalls', modal))
        BY <1>1, <1>2, <1>3, <2>1, BoardEndedLocks
    <2>5. ModalFits(boardCalls', modal') /\ (modal' # None => modal # None /\ modal'.pile = modal.pile)
        BY <2>3, <2>4, DialogTold DEF BoardInv, LockInv
    <2>6. DetailFits'
        BY <1>2, <2>5, DetailRests DEF BoardInv
    <2> QED BY <1>2, <1>4, <2>4, <2>5, <2>6 DEF BoardInv, LockInv
<1> QED BY <1>6, <1>7

\* The read of syncAfterMutation comes: the handler of a removal reads once more.
LEMMA LandSyncKeeps ==
    ASSUME BoardInv, NEW s \in Slots, LandSync(s)
    PROVE  /\ BoardInv' /\ stamp' >= stamp
           /\ Succeeds(boardCalls[s]) => stamp' >= boardCalls[s].since
<1>1. PICK call : call = boardCalls[s]
    OBVIOUS
<1>2. /\ call.op = "sync" /\ ShowsAnswer(call)
      /\ UNCHANGED <<pileTable, now, tied, link, frames, dropped, selectedPile, portFilter, cookieLock, refreshing,
                     reordering>>
    BY <1>1 DEF LandSync, ShowsAnswer, backend, stream, flags, address
<1>3. BoardCallOK(call, pileTable, now, tied)
    BY <1>1 DEF BoardInv, CallsInv
<1>4. StreamInv' /\ stamp' >= stamp /\ (Succeeds(call) => stamp' >= call.since)
    BY <1>2, <1>3, ShownFits DEF Loads
<1>5. ModalFits(boardCalls, modal)
    BY DEF BoardInv, LockInv
<1>6. CASE call.answer.kind = "ok" /\ call.of = "remove"
    <2>1. GoesOn(s, "settle", call.of, call.since) /\ Redraw
        BY <1>1, <1>6 DEF LandSync
    <2>2. call.since \in Nat /\ call.since <= now
        BY <1>2, <1>3 DEF BoardCallOK
    <2>3. /\ CallsInv'
          /\ FlagFits(boardCalls', "refresh", refreshing) /\ FlagFits(boardCalls', "order", reordering)
          /\ ModalFits(boardCalls', modal) /\ FormFits(boardCalls', cookieLock)
        BY <1>1, <1>2, <2>1, <2>2, HandlerGoesOn
    <2>4. ModalFits(boardCalls', modal') /\ DetailFits'
        BY <2>1, <2>3, Redrawn
    <2> QED BY <1>1, <1>2, <1>4, <2>3, <2>4 DEF BoardInv, LockInv
<1>7. CASE ~(call.answer.kind = "ok" /\ call.of = "remove")
    <2>1. boardCalls' = End(boardCalls, s)
        BY <1>1, <1>7 DEF LandSync
    <2>2. /\ CallsInv' /\ FlagFits(boardCalls', "refresh", refreshing) /\ FlagFits(boardCalls', "order", reordering)
          /\ FormFits(boardCalls', cookieLock) /\ (modal.saving # s => ModalFits(boardCalls', modal))
        BY <1>1, <1>2, <2>1, BoardEndedLocks
    <2>3. PICK done : done = (call.answer.kind = "ok")
        OBVIOUS
    <2>4. ModalFits(boardCalls', modal') /\ DetailFits'
        <3>1. CASE OwnModal(s)
            <4>1. modal' = Tell(s, done)
                BY <1>1, <1>7, <2>3, <3>1 DEF LandSync
            <4> QED BY <1>2, <1>5, <2>2, <2>3, <3>1, <4>1, DialogAnswered
        <3>2. CASE ~OwnModal(s)
            <4>1. Redraw
                BY <1>1, <1>7, <3>2 DEF LandSync
            <4>2. ModalFits(boardCalls', modal)
                BY <2>2, <3>2 DEF ModalFits, OwnModal
            <4> QED BY <4>1, <4>2, Redrawn
        <3> QED BY <3>1, <3>2
    <2> QED BY <1>1, <1>2, <1>4, <2>2, <2>4 DEF BoardInv, LockInv
<1> QED BY <1>1, <1>4, <1>6, <1>7

\* The last read of a removal comes, or does not: the removal is done.
LEMMA LandSettleKeeps ==
    ASSUME BoardInv, NEW s \in Slots, LandSettle(s)
    PROVE  /\ BoardInv' /\ stamp' >= stamp
           /\ Succeeds(boardCalls[s]) => stamp' >= boardCalls[s].since
<1>1. PICK call : call = boardCalls[s]
    OBVIOUS
<1>2. /\ call.op = "settle" /\ ShowsAnswer(call) /\ boardCalls' = End(boardCalls, s)
      /\ UNCHANGED <<pileTable, now, tied, link, frames, dropped, portFilter, cookieLock, refreshing, reordering>>
    BY <1>1 DEF LandSettle, ShowsAnswer, backend, stream, flags
<1>3. /\ CallsInv' /\ FlagFits(boardCalls', "refresh", refreshing) /\ FlagFits(boardCalls', "order", reordering)
      /\ FormFits(boardCalls', cookieLock) /\ (modal.saving # s => ModalFits(boardCalls', modal))
      /\ BoardCallOK(call, pileTable, now, tied)
    BY <1>1, <1>2, BoardEndedLocks
<1>4. StreamInv' /\ stamp' >= stamp /\ (Succeeds(call) => stamp' >= call.since)
    BY <1>2, <1>3, ShownFits DEF Loads
<1>5. ModalFits(boardCalls', modal') /\ DetailFits'
    <2>1. CASE OwnModal(s)
        <3>1. modal' = None
            BY <2>1 DEF LandSettle, Tell
        <3> QED BY <3>1 DEF ModalFits, DetailFits
    <2>2. CASE ~OwnModal(s)
        <3>1. Redraw
            BY <2>2 DEF LandSettle
        <3>2. ModalFits(boardCalls', modal)
            BY <1>3, <2>2 DEF ModalFits, OwnModal
        <3> QED BY <3>1, <3>2, Redrawn
    <2> QED BY <2>1, <2>2
<1> QED BY <1>1, <1>2, <1>3, <1>4, <1>5 DEF BoardInv, LockInv

-----------------------------------------------------------------------------
(* The invariant and its consequences *)

\* The board opens on nothing.
LEMMA BoardStart ==
    ASSUME BoardInit
    PROVE  BoardInv /\ RemovalInv
<1>1. /\ now = 1 /\ link = "closed" /\ frames = <<>> /\ dropped = FALSE /\ shown = Started /\ stamp = 0
      /\ modal = None /\ cookieLock = None /\ refreshing = FALSE /\ reordering = FALSE /\ boardCalls = NoCalls
      /\ DOMAIN pileTable \subseteq BoardPiles
    BY DEF BoardInit
<1>2. PICK snap : snap = Started
    OBVIOUS
<1>3. snap.at = 0 /\ snap.table = <<>>
    BY <1>2 DEF Started
<1>4. DOMAIN snap.table = {}
    BY <1>3
<1>5. IsSnap(snap, pileTable, now, tied)
    BY <1>1, <1>3, <1>4 DEF IsSnap
<1>6. FramesFit(frames, pileTable, now, tied)
    BY <1>1, NoFrames
<1>7. StreamInv
    BY <1>1, <1>2, <1>3, <1>5, <1>6 DEF StreamInv
<1>8. PICK idle : idle = NoCall
    OBVIOUS
<1>9. idle.op = "idle" /\ DOMAIN idle = {"op"}
    BY <1>8 DEF NoCall
<1>10. BoardCallOK(idle, pileTable, now, tied)
    BY <1>9 DEF BoardCallOK, IsCall, Loads, BoardChanges
<1>11. DOMAIN boardCalls = Slots /\ \A s \in Slots : boardCalls[s] = idle
    BY <1>1, <1>8 DEF NoCalls
<1>12. CallsInv
    BY <1>10, <1>11 DEF CallsInv
<1>13. \A s \in Slots : boardCalls[s].op = "idle"
    BY <1>9, <1>11
<1>14. LockInv
    BY <1>1, <1>13 DEF LockInv, FlagFits, ModalFits, FormFits, DetailFits
<1>15. RemovalInv
    BY <1>13 DEF RemovalInv
<1> QED BY <1>7, <1>12, <1>14, <1>15 DEF BoardInv

\* The steps of the stream.
LEMMA StreamStepKeeps ==
    ASSUME BoardInv, StreamOpens \/ StreamFails \/ ReceiveFrame
    PROVE  BoardInv' /\ stamp' >= stamp /\ boardCalls' = boardCalls
<1>1. /\ boardCalls' = boardCalls
      /\ UNCHANGED <<pileTable, now, tied, cookieLock, refreshing, reordering, selectedPile, portFilter>>
    BY DEF StreamOpens, StreamFails, ReceiveFrame, backend, desk, flags, address
<1>2. StreamInv' /\ stamp' >= stamp
    <2>1. stamp \in Nat
        BY DEF BoardInv, StreamInv, IsSnap
    <2> QED BY <2>1, StreamTurns, StreamReceives DEF BoardInv
<1>3. CallsInv'
    BY <1>1 DEF BoardInv, CallsInv
<1>4. ModalFits(boardCalls, modal') /\ DetailFits'
    <2>1. CASE ReceiveFrame
        <3>1. Redraw
            BY <2>1 DEF ReceiveFrame
        <3> QED BY <3>1, Redrawn DEF BoardInv, LockInv
    <2>2. CASE StreamOpens \/ StreamFails
        <3>1. UNCHANGED <<shown, modal>>
            BY <2>2 DEF StreamOpens, StreamFails, desk
        <3> QED BY <1>1, <3>1, DetailRests DEF BoardInv, LockInv
    <2> QED BY <2>1, <2>2
<1> QED BY <1>1, <1>2, <1>3, <1>4 DEF BoardInv, LockInv

\* A step of another page.
LEMMA BoardRests ==
    ASSUME BoardInv, UNCHANGED boardVars
    PROVE  BoardInv'
<1>1. UNCHANGED <<pileTable, now, tied, link, frames, dropped, shown, stamp, boardCalls, selectedPile, portFilter, modal,
                  cookieLock, refreshing, reordering>>
    BY DEF boardVars
<1>2. StreamInv' /\ DetailFits'
    BY <1>1, StreamRests, DetailRests DEF BoardInv
<1> QED BY <1>1, <1>2 DEF BoardInv, CallsInv, LockInv

\* The step of the board, action by action.
LEMMA BoardKept ==
    ASSUME BoardInv, [BoardNext]_boardVars
    PROVE  BoardInv'
<1>1. CASE UNCHANGED boardVars
    BY <1>1, BoardRests
<1>2. CASE LoadPiles \/ Refresh \/ SubmitModal \/ SaveCookie \/ ChangeElsewhere
    BY <1>2, LoadPilesKeeps, RefreshKeeps, SubmitModalKeeps, SaveCookieKeeps, ChangeElsewhereKeeps
<1>3. CASE \E p \in BoardPiles, direction \in {-1, 1} : Move(p, direction)
    BY <1>3, MoveKeeps
<1>4. CASE StreamOpens \/ StreamFails \/ ReceiveFrame
    BY <1>4, StreamStepKeeps
<1>5. CASE \/ \E p \in BoardPiles \cup {None} : Select(p)
           \/ \E filter \in {"all", "idle"} : ChooseFilter(filter)
           \/ HideCookieForm \/ (\E kind \in {"edit", "remove"} : OpenModal(kind)) \/ CloseModal
    BY <1>5, BrowsePilesKeeps
<1>6. ASSUME NEW s \in Slots, LandBoard(s) \/ LandRefresh(s) \/ LandOrder(s) \/ LandCookie(s)
      PROVE  BoardInv'
    BY <1>6, LandLoadKeeps
<1>7. ASSUME NEW s \in Slots, LandChange(s) \/ LandSync(s) \/ LandSettle(s)
      PROVE  BoardInv'
    BY <1>7, LandChangeKeeps, LandSyncKeeps, LandSettleKeeps
<1>8. ASSUME NEW s \in Slots,
             ServeRead(s) \/ ServeRefresh(s) \/ ServeOrder(s) \/ ServeChange(s) \/ LoseBoardAnswer(s)
      PROVE  BoardInv'
    BY <1>8, ServeBoardKeeps
<1> QED BY <1>1, <1>2, <1>3, <1>4, <1>5, <1>6, <1>7, <1>8 DEF BoardNext

\* A flag that fits is up exactly while its call is on its way.
LEMMA FlagWaits ==
    ASSUME NEW calls, NEW op, NEW flag, FlagFits(calls, op, flag)
    PROVE  flag <=> Waiting(calls, {op}) # {}
BY DEF FlagFits, Waiting

\* What the runs check.
LEMMA BoardInvImplies ==
    ASSUME BoardInv
    PROVE  BoardTypeOK /\ ConnectedIsCurrent /\ BehindIsMarked /\ BoardLocksAreLive
<1>1. BoardTypeOK
    BY DEF BoardInv, StreamInv, IsSnap, FramesFit, LockInv, ModalFits, DetailFits, BoardChanges, BoardTypeOK
<1>2. ConnectedIsCurrent
    BY DEF BoardInv, StreamInv, IsSnap, Newest, ConnectedIsCurrent
<1>3. ASSUME NEW p \in DOMAIN shown.table, SaysNow(p), link \notin {"closed", "connecting"}, frames = <<>>,
             ~dropped, ~tied
      PROVE  p \in DOMAIN pileTable /\ pileTable[p].state = shown.table[p].state
    <2>1. ~Stale
        <3> SUFFICES ASSUME Stale PROVE FALSE
            OBVIOUS
        <3>1. RowState(p) # "idle now"
            BY DEF RowState
        <3>2. BannerState(p) # "idle now"
            BY DEF BannerState
        <3>3. PortState(p) # "idle now"
            BY DEF PortState
        <3>4. InspectorState(p) # "idle now"
            BY DEF InspectorState
        <3>5. Heading # "idle now"
            BY DEF Heading
        <3> QED BY <1>3, <3>1, <3>2, <3>3, <3>4, <3>5 DEF SaysNow
    <2>2. link = "open"
        BY <1>3, <2>1 DEF Stale, BoardInv, StreamInv
    <2>3. shown.table = pileTable
        BY <1>2, <1>3, <2>2 DEF ConnectedIsCurrent
    <2> QED BY <1>3, <2>3
<1>4. BoardLocksAreLive
    <2>1. refreshing <=> Waiting(boardCalls, {"refresh"}) # {}
        BY FlagWaits DEF BoardInv, LockInv
    <2>2. reordering <=> Waiting(boardCalls, {"order"}) # {}
        BY FlagWaits DEF BoardInv, LockInv
    <2>3. modal # None /\ modal.saving # None => boardCalls[modal.saving].op \in {"edit", "remove", "sync", "settle"}
        BY DEF BoardInv, LockInv, ModalFits, BoardChanges
    <2>4. cookieLock # None => boardCalls[cookieLock].op = "cookie"
        BY DEF BoardInv, LockInv, FormFits
    <2> QED BY <2>1, <2>2, <2>3, <2>4 DEF BoardLocksAreLive
<1> QED BY <1>1, <1>2, <1>3, <1>4 DEF BehindIsMarked

\* The step of NeverOlder.
LEMMA NeverOlderStep ==
    ASSUME BoardInv, [BoardNext]_boardVars
    PROVE  stamp' >= stamp /\ shown'.at >= shown.at
<1>1. stamp = shown.at /\ stamp \in Nat
    BY DEF BoardInv, StreamInv, IsSnap
<1>2. stamp' = shown'.at
    BY BoardKept DEF BoardInv, StreamInv
<1>3. CASE stamp' = stamp
    BY <1>1, <1>2, <1>3
<1>4. CASE StreamOpens \/ StreamFails \/ ReceiveFrame
    BY <1>1, <1>2, <1>4, StreamStepKeeps
<1>5. ASSUME NEW s \in Slots, LandBoard(s) \/ LandRefresh(s) \/ LandOrder(s) \/ LandCookie(s)
                             \/ LandSync(s) \/ LandSettle(s)
      PROVE  stamp' >= stamp
    BY <1>5, LandLoadKeeps, LandSyncKeeps, LandSettleKeeps
<1>6. \/ stamp' = stamp \/ StreamOpens \/ StreamFails \/ ReceiveFrame
      \/ \E s \in Slots : \/ LandBoard(s) \/ LandRefresh(s) \/ LandOrder(s) \/ LandCookie(s)
                         \/ LandSync(s) \/ LandSettle(s)
    <2>1. CASE UNCHANGED boardVars
        BY <2>1 DEF boardVars
    <2>2. CASE LoadPiles \/ Refresh \/ CloseModal \/ SubmitModal \/ SaveCookie \/ HideCookieForm \/ ChangeElsewhere
        BY <2>2 DEF LoadPiles, Refresh, CloseModal, SubmitModal, SaveCookie, HideCookieForm, ChangeElsewhere
    <2>3. CASE \/ \E p \in BoardPiles \cup {None} : Select(p)
               \/ \E filter \in {"all", "idle"} : ChooseFilter(filter)
               \/ \E p \in BoardPiles, direction \in {-1, 1} : Move(p, direction)
               \/ \E kind \in {"edit", "remove"} : OpenModal(kind)
        BY <2>3 DEF Select, ChooseFilter, Move, OpenModal
    <2>4. ASSUME NEW s \in Slots,
                 \/ LandChange(s) \/ ServeRead(s) \/ ServeRefresh(s) \/ ServeOrder(s) \/ ServeChange(s)
                 \/ LoseBoardAnswer(s)
          PROVE  stamp' = stamp
        BY <2>4 DEF LandChange, ServeRead, ServeRefresh, ServeOrder, ServeChange, AnswerBoard, LoseBoardAnswer
    <2> QED BY <2>1, <2>2, <2>3, <2>4 DEF BoardNext
<1> QED BY <1>1, <1>2, <1>3, <1>4, <1>5, <1>6

\* A change ends by its own answer only.
LEMMA ChangeEnds ==
    ASSUME BoardInv, [BoardNext]_boardVars, NEW s \in Slots,
           boardCalls[s].op \in BoardChanges \cup {"sync", "settle"}, boardCalls'[s].op = "idle"
    PROVE  LandChange(s) \/ LandSync(s) \/ LandSettle(s)
<1>0. boardCalls[s].op # "idle" /\ DOMAIN boardCalls = Slots /\ CallsInv /\ now \in Nat
    BY DEF BoardChanges, BoardInv, CallsInv, StreamInv
<1>1. CASE boardCalls' = boardCalls
    BY <1>0, <1>1
<1>2. ASSUME NEW call, SendBoard(call), "answer" \notin DOMAIN call
      PROVE  FALSE
    <2>1. PICK t \in Slots : IsRequested(boardCalls, call, t, boardCalls')
        BY <1>0, <1>2, SentBoard
    <2>2. t # s
        BY <1>0, <2>1 DEF IsRequested
    <2>3. boardCalls'[s] = boardCalls[s]
        BY <2>1, <2>2 DEF IsRequested
    <2> QED BY <1>0, <2>3
<1>3. CASE LoadPiles \/ Refresh \/ SaveCookie
    <2>1. PICK op : op = IF LoadPiles THEN "load" ELSE IF Refresh THEN "refresh" ELSE "cookie"
        OBVIOUS
    <2>2. PICK call : call = [op |-> op]
        OBVIOUS
    <2>3. SendBoard(call)
        BY <1>3, <2>1, <2>2 DEF LoadPiles, Refresh, SaveCookie
    <2>4. "answer" \notin DOMAIN call
        BY <2>2
    <2> QED BY <1>2, <2>3, <2>4
<1>4. CASE SubmitModal
    <2>1. PICK call : call = [op |-> modal.kind, pile |-> modal.pile, sort |-> shown.table[modal.pile].sort]
        OBVIOUS
    <2>2. SendBoard(call)
        BY <1>4, <2>1 DEF SubmitModal
    <2>3. "answer" \notin DOMAIN call
        BY <2>1
    <2> QED BY <1>2, <2>2, <2>3
<1>5. CASE \E p \in BoardPiles, direction \in {-1, 1} : Move(p, direction)
    <2>1. PICK ids : SendBoard([op |-> "order", ids |-> ids])
        BY <1>5 DEF Move
    <2>2. PICK call : call = [op |-> "order", ids |-> ids]
        OBVIOUS
    <2>3. SendBoard(call) /\ "answer" \notin DOMAIN call
        BY <2>1, <2>2
    <2> QED BY <1>2, <2>3
<1>6. CASE \/ UNCHANGED boardVars \/ StreamOpens \/ ReceiveFrame \/ StreamFails \/ CloseModal \/ HideCookieForm
           \/ ChangeElsewhere
           \/ \E p \in BoardPiles \cup {None} : Select(p)
           \/ \E filter \in {"all", "idle"} : ChooseFilter(filter)
           \/ \E kind \in {"edit", "remove"} : OpenModal(kind)
    <2>1. boardCalls' = boardCalls
        BY <1>6 DEF boardVars, StreamOpens, ReceiveFrame, StreamFails, CloseModal, HideCookieForm, ChangeElsewhere,
                    Select, ChooseFilter, OpenModal
    <2> QED BY <1>1, <2>1
<1>7. ASSUME NEW t \in Slots, ServeRead(t) \/ ServeRefresh(t) \/ ServeOrder(t) \/ ServeChange(t) \/ LoseBoardAnswer(t)
      PROVE  FALSE
    <2>1. PICK answer : boardCalls' = [boardCalls EXCEPT ![t].answer = answer]
        BY <1>7 DEF ServeRead, ServeRefresh, ServeOrder, ServeChange, LoseBoardAnswer, LoseAnswer, AnswerBoard
    <2>2. PICK call : call = boardCalls[s]
        OBVIOUS
    <2>3. "op" \in DOMAIN call
        BY <1>0, <2>2 DEF CallsInv, BoardCallOK, IsCall
    <2>4. boardCalls'[s].op = call.op
        <3>1. CASE t = s
            <4>1. boardCalls'[s] = [call EXCEPT !.answer = answer]
                BY <1>0, <2>1, <2>2, <3>1
            <4> QED BY <2>3, <4>1
        <3>2. CASE t # s
            BY <1>0, <2>1, <2>2, <3>2
        <3> QED BY <3>1, <3>2
    <2> QED BY <1>0, <2>2, <2>4
<1>8. ASSUME NEW t \in Slots, boardCalls' = End(boardCalls, t)
      PROVE  t = s
    <2>1. t # s => boardCalls'[s] = boardCalls[s]
        BY <1>0, <1>8, EndedCalls
    <2> QED BY <1>0, <2>1
<1>9. ASSUME NEW t \in Slots, LandBoard(t) \/ LandRefresh(t) \/ LandOrder(t) \/ LandCookie(t)
      PROVE  FALSE
    <2>1. boardCalls' = End(boardCalls, t) /\ boardCalls[t].op \in {"load", "refresh", "order", "cookie"}
        BY <1>9 DEF LandBoard, LandRefresh, LandOrder, LandCookie
    <2>2. t = s
        BY <1>8, <2>1
    <2> QED BY <2>1, <2>2 DEF BoardChanges
<1>10. ASSUME NEW t \in Slots, LandSettle(t)
       PROVE  LandSettle(s)
    <2>1. boardCalls' = End(boardCalls, t)
        BY <1>10 DEF LandSettle
    <2>2. t = s
        BY <1>8, <2>1
    <2> QED BY <1>10, <2>2
<1>11. ASSUME NEW t \in Slots, LandChange(t) \/ LandSync(t)
       PROVE  LandChange(s) \/ LandSync(s)
    <2>1. CASE boardCalls' = End(boardCalls, t)
        <3>1. t = s
            BY <1>8, <2>1
        <3> QED BY <1>11, <3>1
    <2>2. CASE boardCalls' # End(boardCalls, t)
        <3>1. PICK next : boardCalls' = [boardCalls EXCEPT ![t] = next]
            BY <1>11, <2>2 DEF LandChange, LandSync, GoesOn
        <3>2. t # s => boardCalls'[s] = boardCalls[s]
            BY <1>0, <3>1
        <3>3. t = s
            BY <1>0, <3>2
        <3> QED BY <1>11, <3>3
    <2> QED BY <2>1, <2>2
<1> QED BY <1>3, <1>4, <1>5, <1>6, <1>7, <1>9, <1>10, <1>11 DEF BoardNext

\* A link that was open once is never again one that was not.
LEMMA OpenedStays ==
    ASSUME [BoardNext]_boardVars, link \in Opened
    PROVE  link' \in Opened
<1>1. CASE StreamOpens \/ StreamFails
    BY <1>1 DEF StreamOpens, StreamFails, Opened
<1>2. ASSUME NEW s \in Slots, LandBoard(s)
      PROVE  link' = link
    BY <1>2 DEF LandBoard, Opened
<1>3. CASE \/ UNCHANGED boardVars \/ LoadPiles \/ Refresh \/ SaveCookie \/ SubmitModal
           \/ ReceiveFrame \/ CloseModal \/ HideCookieForm \/ ChangeElsewhere
           \/ \E p \in BoardPiles \cup {None} : Select(p)
           \/ \E filter \in {"all", "idle"} : ChooseFilter(filter)
           \/ \E p \in BoardPiles, direction \in {-1, 1} : Move(p, direction)
           \/ \E kind \in {"edit", "remove"} : OpenModal(kind)
    BY <1>3 DEF boardVars, LoadPiles, Refresh, SaveCookie, SubmitModal, Move, ReceiveFrame, CloseModal,
                HideCookieForm, ChangeElsewhere, Select, ChooseFilter, OpenModal, stream
<1>4. ASSUME NEW s \in Slots,
             \/ LandRefresh(s) \/ LandOrder(s) \/ LandCookie(s) \/ LandChange(s) \/ LandSync(s) \/ LandSettle(s)
             \/ ServeRead(s) \/ ServeRefresh(s) \/ ServeOrder(s) \/ ServeChange(s) \/ LoseBoardAnswer(s)
      PROVE  link' = link
    BY <1>4 DEF LandRefresh, LandOrder, LandCookie, LandChange, LandSync, LandSettle, ServeRead, ServeRefresh,
                ServeOrder, ServeChange, AnswerBoard, LoseBoardAnswer, stream
<1> QED BY <1>1, <1>2, <1>3, <1>4 DEF BoardNext

\* The last read of a removal is asked for by its handler only.
LEMMA SettleArises ==
    ASSUME BoardInv, [BoardNext]_boardVars, NEW s \in Slots, boardCalls'[s].op = "settle"
    PROVE  \/ boardCalls[s].op = "settle" /\ boardCalls'[s].since = boardCalls[s].since
           \/ LandChange(s) \/ LandSync(s)
<1>0. DOMAIN boardCalls = Slots /\ CallsInv
    BY DEF BoardInv, CallsInv
<1>1. CASE boardCalls'[s] = boardCalls[s]
    BY <1>1
<1>2. ASSUME NEW call, SendBoard(call), {"op"} \subseteq DOMAIN call, "answer" \notin DOMAIN call, call.op # "settle"
      PROVE  boardCalls'[s] = boardCalls[s]
    <2>1. PICK t \in Slots : IsRequested(boardCalls, call, t, boardCalls')
        BY <1>0, <1>2, SentBoard
    <2>2. t # s
        BY <1>2, <2>1 DEF IsRequested
    <2> QED BY <2>1, <2>2 DEF IsRequested
<1>3. CASE LoadPiles \/ Refresh \/ SaveCookie
    <2>1. PICK op \in {"load", "refresh", "cookie"} : SendBoard([op |-> op])
        BY <1>3 DEF LoadPiles, Refresh, SaveCookie
    <2>2. PICK call : call = [op |-> op]
        OBVIOUS
    <2>3. SendBoard(call) /\ DOMAIN call = {"op"} /\ call.op = op
        BY <2>1, <2>2
    <2> QED BY <1>1, <1>2, <2>3
<1>4. CASE SubmitModal
    <2>1. PICK call : call = [op |-> modal.kind, pile |-> modal.pile, sort |-> shown.table[modal.pile].sort]
        OBVIOUS
    <2>2. SendBoard(call) /\ modal # None
        BY <1>4, <2>1 DEF SubmitModal
    <2>3. DOMAIN call = {"op", "pile", "sort"} /\ call.op = modal.kind
        BY <2>1
    <2>4. call.op # "settle"
        BY <2>2, <2>3 DEF BoardInv, LockInv, ModalFits, BoardChanges
    <2> QED BY <1>1, <1>2, <2>2, <2>3, <2>4
<1>5. CASE \E p \in BoardPiles, direction \in {-1, 1} : Move(p, direction)
    <2>1. PICK ids : SendBoard([op |-> "order", ids |-> ids])
        BY <1>5 DEF Move
    <2>2. PICK call : call = [op |-> "order", ids |-> ids]
        OBVIOUS
    <2>3. SendBoard(call) /\ DOMAIN call = {"op", "ids"} /\ call.op = "order"
        BY <2>1, <2>2
    <2> QED BY <1>1, <1>2, <2>3
<1>6. CASE \/ UNCHANGED boardVars \/ StreamOpens \/ ReceiveFrame \/ StreamFails \/ CloseModal \/ HideCookieForm
           \/ ChangeElsewhere
           \/ \E p \in BoardPiles \cup {None} : Select(p)
           \/ \E filter \in {"all", "idle"} : ChooseFilter(filter)
           \/ \E kind \in {"edit", "remove"} : OpenModal(kind)
    <2>1. boardCalls' = boardCalls
        BY <1>6 DEF boardVars, StreamOpens, ReceiveFrame, StreamFails, CloseModal, HideCookieForm, ChangeElsewhere,
                    Select, ChooseFilter, OpenModal
    <2> QED BY <1>1, <2>1
<1>7. ASSUME NEW t \in Slots, ServeRead(t) \/ ServeRefresh(t) \/ ServeOrder(t) \/ ServeChange(t) \/ LoseBoardAnswer(t)
      PROVE  boardCalls[s].op = "settle" /\ boardCalls'[s].since = boardCalls[s].since
    <2>1. PICK answer : boardCalls' = [boardCalls EXCEPT ![t].answer = answer]
        BY <1>7 DEF ServeRead, ServeRefresh, ServeOrder, ServeChange, LoseBoardAnswer, LoseAnswer, AnswerBoard
    <2>2. PICK call : call = boardCalls[s]
        OBVIOUS
    <2>3. BoardCallOK(call, pileTable, now, tied)
        BY <1>0, <2>2 DEF CallsInv
    <2>4. PICK next : next = boardCalls'[s]
        OBVIOUS
    <2>5. next = call \/ next = [call EXCEPT !.answer = answer]
        BY <1>0, <2>1, <2>2, <2>4
    <2>6. "op" \in DOMAIN call
        BY <2>3 DEF BoardCallOK, IsCall
    <2>7. next.op = call.op
        BY <2>5, <2>6
    <2>8. call.op = "settle"
        BY <2>4, <2>7
    <2>9. "since" \in DOMAIN call
        BY <2>3, <2>8 DEF BoardCallOK
    <2>10. next.since = call.since
        BY <2>5, <2>9
    <2> QED BY <2>2, <2>4, <2>8, <2>10
<1>8. ASSUME NEW t \in Slots, boardCalls' = End(boardCalls, t)
      PROVE  boardCalls'[s] = boardCalls[s]
    <2>1. t # s
        BY <1>0, <1>8, EndedCalls DEF NoCall
    <2> QED BY <1>0, <1>8, <2>1, EndedCalls
<1>9. ASSUME NEW t \in Slots, LandBoard(t) \/ LandRefresh(t) \/ LandOrder(t) \/ LandCookie(t) \/ LandSettle(t)
      PROVE  boardCalls'[s] = boardCalls[s]
    BY <1>8, <1>9 DEF LandBoard, LandRefresh, LandOrder, LandCookie, LandSettle
<1>10. ASSUME NEW t \in Slots, LandChange(t) \/ LandSync(t), t # s
       PROVE  boardCalls'[s] = boardCalls[s]
    <2>1. CASE boardCalls' = End(boardCalls, t)
        BY <1>8, <2>1
    <2>2. CASE boardCalls' # End(boardCalls, t)
        <3>1. PICK next : boardCalls' = [boardCalls EXCEPT ![t] = next]
            BY <1>10, <2>2 DEF LandChange, LandSync, GoesOn
        <3> QED BY <1>0, <1>10, <3>1
    <2> QED BY <2>1, <2>2
<1> QED BY <1>1, <1>3, <1>4, <1>5, <1>6, <1>7, <1>9, <1>10 DEF BoardNext

\* Such a read belongs to a stream that was open, or to a removal that is shown.
LEMMA RemovalKept ==
    ASSUME BoardInv, RemovalInv, [BoardNext]_boardVars
    PROVE  RemovalInv'
<1> SUFFICES ASSUME NEW s \in Slots, boardCalls'[s].op = "settle"
             PROVE  link' \in Opened \/ stamp' >= boardCalls'[s].since
    BY DEF RemovalInv
<1>1. stamp' >= stamp /\ stamp \in Nat /\ now \in Nat
    BY NeverOlderStep DEF BoardInv, StreamInv, IsSnap
<1>2. BoardInv'
    BY BoardKept
<1>3. stamp' \in Nat /\ boardCalls'[s].since \in Nat
    BY <1>2 DEF BoardInv, StreamInv, IsSnap, CallsInv, BoardCallOK
<1>4. PICK call : call = boardCalls[s]
    OBVIOUS
<1>5. CASE call.op = "settle" /\ boardCalls'[s].since = call.since
    <2>1. CASE link \in Opened
        BY <2>1, OpenedStays
    <2>2. CASE stamp >= call.since
        BY <1>1, <1>3, <1>5, <2>2
    <2> QED BY <1>4, <1>5, <2>1, <2>2 DEF RemovalInv
<1>6. CASE LandChange(s)
    <2>1. call.op \in {"edit", "remove"} /\ link' = link
        BY <1>4, <1>6 DEF LandChange, stream
    <2>2. CASE boardCalls' = End(boardCalls, s)
        <3>1. boardCalls'[s] = NoCall
            BY <2>2, EndedCalls DEF BoardInv, CallsInv
        <3> QED BY <3>1 DEF NoCall
    <2>3. CASE boardCalls' # End(boardCalls, s)
        <3>1. GoesOn(s, IF Fetches THEN "sync" ELSE "settle", call.op, call.answer.body)
            BY <1>4, <1>6, <2>3 DEF LandChange
        <3>2. PICK op : op = IF Fetches THEN "sync" ELSE "settle"
            OBVIOUS
        <3>3. PICK next : next = [op |-> op, of |-> call.op, since |-> call.answer.body, answer |-> Unanswered]
            OBVIOUS
        <3>4. boardCalls' = [boardCalls EXCEPT ![s] = next] /\ DOMAIN boardCalls = Slots
            BY <3>1, <3>2, <3>3 DEF GoesOn, BoardInv, CallsInv
        <3>5. boardCalls'[s] = next /\ next.op = op
            BY <3>3, <3>4
        <3>6. ~Fetches
            BY <3>2, <3>5
        <3> QED BY <2>1, <3>6 DEF Fetches, Opened
    <2> QED BY <2>2, <2>3
<1>7. CASE LandSync(s)
    <2>1. call.op = "sync"
        BY <1>4, <1>7 DEF LandSync
    <2>2. CASE boardCalls' = End(boardCalls, s)
        <3>1. boardCalls'[s] = NoCall
            BY <2>2, EndedCalls DEF BoardInv, CallsInv
        <3> QED BY <3>1 DEF NoCall
    <2>3. CASE boardCalls' # End(boardCalls, s)
        <3>1. call.answer.kind = "ok" /\ GoesOn(s, "settle", call.of, call.since)
            BY <1>4, <1>7, <2>3 DEF LandSync
        <3>2. PICK next : next = [op |-> "settle", of |-> call.of, since |-> call.since, answer |-> Unanswered]
            OBVIOUS
        <3>3. boardCalls' = [boardCalls EXCEPT ![s] = next] /\ DOMAIN boardCalls = Slots
            BY <3>1, <3>2 DEF GoesOn, BoardInv, CallsInv
        <3>4. boardCalls'[s].since = call.since
            BY <3>2, <3>3
        <3> QED BY <1>4, <1>7, <3>1, <3>4, LandSyncKeeps DEF Succeeds
    <2> QED BY <2>2, <2>3
<1> QED BY <1>4, <1>5, <1>6, <1>7, SettleArises

\* A handler that goes on does not end.
LEMMA GoingOnIsNoEnd ==
    ASSUME BoardInv, NEW s \in Slots, NEW op \in {"sync", "settle"}, NEW change, NEW since, GoesOn(s, op, change, since)
    PROVE  boardCalls'[s].op # "idle"
<1>1. PICK next : next = [op |-> op, of |-> change, since |-> since, answer |-> Unanswered]
    OBVIOUS
<1>2. boardCalls' = [boardCalls EXCEPT ![s] = next] /\ DOMAIN boardCalls = Slots
    BY <1>1 DEF GoesOn, BoardInv, CallsInv
<1>3. boardCalls'[s] = next /\ next.op = op
    BY <1>1, <1>2
<1> QED BY <1>3

\* The step of ChangesAreShown: only the handler of a change ends such a call.
LEMMA ChangesAreShownStep ==
    ASSUME BoardInv, RemovalInv, [BoardNext]_boardVars, NEW s \in Slots, NEW call, call = boardCalls[s],
           call.op \in {"edit", "remove", "sync", "settle"}, boardCalls'[s] = NoCall, EndsWell(call)
    PROVE  \/ stamp' >= Since(call)
           \/ link' = "open" /\ (dropped' \/ \E i \in DOMAIN frames' : frames'[i].at >= Since(call))
           \/ call.op = "settle" /\ call.answer.kind # "ok" /\ link' \in {"error", "dead"}
<1>1. boardCalls'[s].op = "idle"
    BY DEF NoCall
<1>2. LandChange(s) \/ LandSync(s) \/ LandSettle(s)
    BY <1>1, ChangeEnds DEF BoardChanges
<1>3. BoardCallOK(call, pileTable, now, tied) /\ now \in Nat
    BY DEF BoardInv, CallsInv, StreamInv
<1>4. ASSUME NEW moment \in Nat, moment <= now, link = "open", UNCHANGED <<link, frames, dropped, stamp>>
      PROVE  \/ stamp' >= moment
             \/ link' = "open" /\ (dropped' \/ \E i \in DOMAIN frames' : frames'[i].at >= moment)
    <2>1. CASE dropped
        BY <1>4, <2>1
    <2>2. CASE ~dropped /\ frames = <<>>
        <3>1. stamp = now
            BY <1>4, <2>2 DEF BoardInv, StreamInv, Newest
        <3> QED BY <1>3, <1>4, <3>1
    <2>3. CASE ~dropped /\ frames # <<>>
        <3>1. PICK S : frames \in Seq(S)
            BY DEF BoardInv, StreamInv, FramesFit
        <3>2. Len(frames) \in DOMAIN frames
            BY <2>3, <3>1
        <3>3. frames[Len(frames)].at = now
            BY <1>4, <2>3 DEF BoardInv, StreamInv, Newest
        <3> QED BY <1>3, <1>4, <3>2, <3>3
    <2> QED BY <2>1, <2>2, <2>3
<1>5. CASE LandSync(s)
    <2>1. call.op = "sync" /\ Succeeds(call)
        BY <1>5 DEF LandSync, Succeeds, EndsWell
    <2> QED BY <1>5, <2>1, LandSyncKeeps DEF Since
<1>6. CASE LandSettle(s)
    <2>1. call.op = "settle" /\ UNCHANGED <<link, frames, dropped>>
        BY <1>6 DEF LandSettle, stream
    <2>2. CASE Succeeds(call)
        BY <1>6, <2>1, <2>2, LandSettleKeeps DEF Since
    <2>3. CASE call.answer.kind # "ok" /\ link \in {"error", "dead"}
        BY <2>1, <2>3
    <2>4. CASE call.answer.kind # "ok" /\ link = "open"
        <3>1. Since(call) = call.since /\ call.since \in Nat /\ call.since <= now
            BY <1>3, <2>1 DEF Since, BoardCallOK
        <3>2. UNCHANGED stamp
            BY <1>6, <2>4 DEF LandSettle
        <3> QED BY <1>4, <2>1, <2>4, <3>1, <3>2
    <2>5. CASE call.answer.kind # "ok" /\ link \notin Opened
        <3>1. stamp >= call.since /\ Since(call) = call.since
            BY <2>1, <2>5 DEF RemovalInv, Since
        <3>2. UNCHANGED stamp
            BY <1>6, <2>5 DEF LandSettle
        <3> QED BY <3>1, <3>2
    <2> QED BY <2>2, <2>3, <2>4, <2>5 DEF Succeeds, Opened
<1>7. CASE LandChange(s)
    <2>1. call.op \in BoardChanges /\ UNCHANGED <<link, frames, dropped, shown, stamp>>
        BY <1>7 DEF LandChange, BoardChanges, stream
    <2>2. call.op # "settle" /\ call.op # "sync"
        BY <2>1 DEF BoardChanges
    <2>3. call.answer.kind = "ok"
        BY <2>2 DEF EndsWell
    <2>4. ~(Fetches \/ call.op = "remove")
        <3> SUFFICES ASSUME Fetches \/ call.op = "remove" PROVE FALSE
            OBVIOUS
        <3>1. PICK op \in {"sync", "settle"} : GoesOn(s, op, call.op, call.answer.body)
            BY <1>7, <2>3 DEF LandChange
        <3> QED BY <1>1, <3>1, GoingOnIsNoEnd
    <2>5. link = "open"
        BY <2>4 DEF Fetches
    <2>6. Since(call) = call.answer.body /\ call.answer.body \in Nat /\ call.answer.body <= now
        BY <1>3, <2>1, <2>2, <2>3 DEF Since, BoardCallOK, Succeeds
    <2> QED BY <1>4, <2>1, <2>5, <2>6
<1> QED BY <1>2, <1>5, <1>6, <1>7

-----------------------------------------------------------------------------
(* The session *)

Routes == {"home", "login", "register", "dashboard", "admin", "account"}
FormOps == FormRoutes \cup {"config", "captcha"}

\* One that was refused before its image was looked at.
Pardoned(call) ==
    call.op = "login" /\ call.answer.kind = "refused" /\ call.answer.code \notin NeedsCaptcha

\* A submission of the form that is shown, with the image it goes on to load.
IsChain(call) ==
    /\ call.op \in FormRoutes \cup {"captcha"} /\ call.here
    /\ call.op = "captcha" => call.submit

\* One that may have tried its image.
Tries(call) ==
    IsChain(call) /\ (call.op \in FormRoutes => call.answer # Unanswered /\ ~Pardoned(call))

ConsoleCallOK(call, made, tried) ==
    /\ call.op \in {"idle", "config", "captcha", "me", "snapshot", "logout"} \cup FormRoutes
    /\ IsCall(call, {"here", "cookie"})
    /\ call.op # "idle" => call.cookie \in 0..Len(made) /\ call.here \in BOOLEAN
    /\ call.op = "config" /\ Succeeds(call) => call.answer.body \in [open : BOOLEAN]
    /\ call.op = "captcha" =>
          /\ "submit" \in DOMAIN call /\ call.submit \in BOOLEAN
          /\ Succeeds(call) => call.answer.body \in 1..Len(tried) /\ tried[call.answer.body] = "open"
    /\ call.op \in FormRoutes =>
          /\ {"captcha", "typed"} \subseteq DOMAIN call /\ call.captcha \in 0..Len(tried)
          /\ call.answer.kind \in {"ok", "refused"} \/ call.answer \in {Lost, Unanswered}
          /\ Succeeds(call) => call.answer.body \in 1..Len(made) /\ made[call.answer.body].live
    /\ call.op \in {"me", "snapshot"} => "who" \in DOMAIN call
    /\ call.op = "me" /\ Succeeds(call) => call.answer.body \in Roles

CallsFit(calls, made, tried) ==
    DOMAIN calls = Slots /\ \A s \in Slots : ConsoleCallOK(calls[s], made, tried)

ImageOf(sheet) == IF sheet = None THEN 0 ELSE sheet.shown

\* An image that comes is no one's that was submitted, and another one than those that come.
ImageApart(call, other) ==
    call.op = "captcha" /\ Succeeds(call) =>
        /\ other.op = "captcha" /\ Succeeds(other) => other.answer.body # call.answer.body
        /\ other.op \in FormRoutes => other.captcha # call.answer.body

\* It was never shown, and what a form that was left submitted is shown no more.
ImageFits(call, image) ==
    /\ call.op = "captcha" /\ Succeeds(call) => call.answer.body # image
    /\ call.op \in FormRoutes /\ ~call.here => call.captcha = 0 \/ call.captcha # image

ImagesFit(calls, image) ==
    /\ \A s, t \in Slots : s # t => ImageApart(calls[s], calls[t])
    /\ \A s \in Slots : ImageFits(calls[s], image)

\* A session that was made for an answer is not in use.
SessionApart(call, other) ==
    call.op \in FormRoutes /\ Succeeds(call) =>
        /\ other.op \in FormRoutes /\ Succeeds(other) => other.answer.body # call.answer.body
        /\ other.op # "idle" => other.cookie # call.answer.body

SessionsFit(calls, jar) ==
    /\ \A s, t \in Slots : s # t => SessionApart(calls[s], calls[t])
    /\ \A s \in Slots : calls[s].op \in FormRoutes /\ Succeeds(calls[s]) => calls[s].answer.body # jar

IsSpent(sheet, tried) == sheet # None /\ sheet.shown # 0 /\ tried[sheet.shown] # "open"

\* One submission of the form at a time; an image that was tried is on its way out.
ChainFit(calls, sheet, tried) ==
    /\ \A s \in Slots : calls[s].op \in FormOps /\ calls[s].here => sheet # None
    /\ \A s \in Slots : IsChain(calls[s]) => sheet.submitting
    /\ \A s, t \in Slots : IsChain(calls[s]) /\ IsChain(calls[t]) => s = t
    /\ IsSpent(sheet, tried) => sheet.kept \/ \E s \in Slots : Tries(calls[s])

\* The load that DashboardSession waits for is one of its own.
IsLoader(call, state) ==
    /\ call.op \in {"me", "snapshot"} /\ call.here /\ call.who = "board"
    /\ call.op = "snapshot" => state.authorized

LoaderFit(calls, state, open) ==
    /\ open => state # None /\ state.authorized
    /\ state # None /\ state.loader # None => IsLoader(calls[state.loader], state)

Signed(jar, made, role) == jar # 0 /\ made[jar].live /\ made[jar].role = role

\* Before an answer was overtaken, those that come are about the session of the browser.
IdentityFit(calls, jar, made, user, met) ==
    ~met =>
        /\ \A s \in Slots : calls[s].op = "me" => calls[s].cookie = jar
        /\ (\A s \in Slots : calls[s].op # "logout") =>
              /\ user # None => Signed(jar, made, user)
              /\ \A s \in Slots : calls[s].op = "me" /\ Succeeds(calls[s])
                                      => Signed(jar, made, calls[s].answer.body)

PageInv ==
    /\ route \in Routes /\ currentUser \in Roles \cup {None} /\ cookie \in 0..Len(sessions)
    /\ sessions \in Seq([role : Roles, live : BOOLEAN]) /\ captchas \in Seq({"open", "spent"})
    /\ IF route \in FormRoutes
       THEN form \in FormStates /\ form.shown \in 0..Len(captchas) /\ form.typed \in 0..Len(captchas)
       ELSE form = None
    /\ board \in BoardStates \cup {None} /\ boardStream \in BOOLEAN
    /\ board # None => route = "dashboard" \/ (route = "account" /\ currentUser = "user")

SessionInv ==
    /\ PageInv /\ CallsFit(consoleCalls, sessions, captchas)
    /\ ImagesFit(consoleCalls, ImageOf(form)) /\ SessionsFit(consoleCalls, cookie)
    /\ ChainFit(consoleCalls, form, captchas) /\ LoaderFit(consoleCalls, board, boardStream)
    /\ IdentityFit(consoleCalls, cookie, sessions, currentUser, crossed)

-----------------------------------------------------------------------------
(* One slot changes *)

IsPut(calls, s, next, after) ==
    /\ DOMAIN after = Slots /\ after[s] = next
    /\ \A t \in Slots \ {s} : after[t] = calls[t]

\* A call put in its slot keeps the calls, when it is one of the console.
LEMMA PutCalls ==
    ASSUME NEW calls, NEW s \in Slots, NEW next, NEW after, IsPut(calls, s, next, after), NEW made, NEW tried,
           CallsFit(calls, made, tried), ConsoleCallOK(next, made, tried)
    PROVE  CallsFit(after, made, tried)
BY DEF IsPut, CallsFit

\* It brings no image, and is no submission.
LEMMA PutImages ==
    ASSUME NEW calls, NEW s \in Slots, NEW next, NEW after, IsPut(calls, s, next, after), NEW image,
           ImagesFit(calls, image), next.op = "captcha" => ~Succeeds(next), next.op \notin FormRoutes
    PROVE  ImagesFit(after, image)
<1>1. ASSUME NEW t \in Slots, NEW u \in Slots, t # u
      PROVE  ImageApart(after[t], after[u])
    <2>1. CASE t = s
        BY <2>1 DEF IsPut, ImageApart
    <2>2. CASE u = s /\ t # s
        BY <2>2 DEF IsPut, ImageApart, FormRoutes
    <2>3. CASE u # s /\ t # s
        BY <1>1, <2>3 DEF IsPut, ImagesFit
    <2> QED BY <2>1, <2>2, <2>3
<1>2. ASSUME NEW t \in Slots
      PROVE  ImageFits(after[t], image)
    <2>1. CASE t = s
        BY <2>1 DEF IsPut, ImageFits
    <2>2. CASE t # s
        BY <2>2 DEF IsPut, ImagesFit
    <2> QED BY <2>1, <2>2
<1> QED BY <1>1, <1>2 DEF ImagesFit

\* A submission that goes on, or begins with the image that is shown.
LEMMA PutSubmission ==
    ASSUME NEW calls, NEW s \in Slots, NEW next, NEW after, IsPut(calls, s, next, after), NEW image,
           ImagesFit(calls, image), next.op \in FormRoutes,
           \/ calls[s].op \in FormRoutes /\ next.captcha = calls[s].captcha /\ next.here = calls[s].here
           \/ next.here /\ next.captcha = image
    PROVE  ImagesFit(after, image)
<1>0. next.op # "captcha"
    BY DEF FormRoutes
<1>1. ASSUME NEW t \in Slots, NEW u \in Slots, t # u
      PROVE  ImageApart(after[t], after[u])
    <2>1. CASE t = s
        BY <1>0, <2>1 DEF IsPut, ImageApart
    <2>2. CASE u = s /\ t # s
        <3>1. ImageApart(calls[t], calls[s]) /\ ImageFits(calls[t], image)
            BY <2>2 DEF ImagesFit
        <3> QED BY <1>0, <2>2, <3>1 DEF IsPut, ImageApart, ImageFits
    <2>3. CASE u # s /\ t # s
        BY <1>1, <2>3 DEF IsPut, ImagesFit
    <2> QED BY <2>1, <2>2, <2>3
<1>2. ASSUME NEW t \in Slots
      PROVE  ImageFits(after[t], image)
    <2>1. CASE t = s
        <3>1. ImageFits(calls[s], image)
            BY DEF ImagesFit
        <3> QED BY <1>0, <2>1, <3>1 DEF IsPut, ImageFits
    <2>2. CASE t # s
        BY <2>2 DEF IsPut, ImagesFit
    <2> QED BY <2>1, <2>2
<1> QED BY <1>1, <1>2 DEF ImagesFit

\* It makes no session.
LEMMA PutSessions ==
    ASSUME NEW calls, NEW s \in Slots, NEW next, NEW after, IsPut(calls, s, next, after), NEW jar,
           SessionsFit(calls, jar), next.op \in FormRoutes => ~Succeeds(next),
           next.op = "idle" \/ next.cookie = jar \/ (calls[s].op # "idle" /\ next.cookie = calls[s].cookie)
    PROVE  SessionsFit(after, jar)
<1>1. ASSUME NEW t \in Slots, NEW u \in Slots, t # u
      PROVE  SessionApart(after[t], after[u])
    <2>1. CASE t = s
        BY <2>1 DEF IsPut, SessionApart
    <2>2. CASE u = s /\ t # s
        <3>1. /\ SessionApart(calls[t], calls[s])
              /\ calls[t].op \in FormRoutes /\ Succeeds(calls[t]) => calls[t].answer.body # jar
            BY <2>2 DEF SessionsFit
        <3> QED BY <2>2, <3>1 DEF IsPut, SessionApart
    <2>3. CASE u # s /\ t # s
        BY <1>1, <2>3 DEF IsPut, SessionsFit
    <2> QED BY <2>1, <2>2, <2>3
<1>2. ASSUME NEW t \in Slots, after[t].op \in FormRoutes, Succeeds(after[t])
      PROVE  after[t].answer.body # jar
    BY <1>2 DEF IsPut, SessionsFit
<1> QED BY <1>1, <1>2 DEF SessionsFit

\* The form is not concerned.
LEMMA PutAside ==
    ASSUME NEW calls, NEW s \in Slots, NEW next, NEW after, IsPut(calls, s, next, after), NEW sheet, NEW tried,
           ChainFit(calls, sheet, tried), ~IsChain(next), next.op \in FormOps /\ next.here => sheet # None,
           ~Tries(calls[s])
    PROVE  ChainFit(after, sheet, tried)
<1>1. \A t \in Slots : after[t].op \in FormOps /\ after[t].here => sheet # None
    BY DEF IsPut, ChainFit
<1>2. \A t \in Slots : IsChain(after[t]) => t # s /\ IsChain(calls[t])
    BY DEF IsPut
<1>3. \A t \in Slots : Tries(calls[t]) => Tries(after[t])
    BY DEF IsPut
<1> QED BY <1>1, <1>2, <1>3 DEF ChainFit

\* Neither is the load of the board, or it is over.
LEMMA PutLoader ==
    ASSUME NEW calls, NEW s \in Slots, NEW next, NEW after, IsPut(calls, s, next, after), NEW state, NEW open,
           LoaderFit(calls, state, open), state # None => state.loader \in Slots \cup {None},
           state = None \/ state.loader # s \/ IsLoader(next, state)
    PROVE  LoaderFit(after, state, open)
BY DEF LoaderFit, IsPut

\* Nothing is heard of the session.
LEMMA PutIdentity ==
    ASSUME NEW calls, NEW s \in Slots, NEW next, NEW after, IsPut(calls, s, next, after), NEW jar, NEW made,
           NEW user, NEW met, IdentityFit(calls, jar, made, user, met),
           next.op = "me" => next.cookie = jar /\ ~Succeeds(next),
           calls[s].op = "logout" => next.op = "logout"
    PROVE  IdentityFit(after, jar, made, user, met)
<1>1. \A t \in Slots : after[t].op = "me" => t = s \/ (calls[t].op = "me" /\ after[t] = calls[t])
    BY DEF IsPut
<1>2. (\A t \in Slots : after[t].op # "logout") => \A t \in Slots : calls[t].op # "logout"
    BY DEF IsPut
<1>3. after[s] = next
    BY DEF IsPut
<1> QED BY <1>1, <1>2, <1>3 DEF IdentityFit

\* What ends leaves the rest.
LEMMA EndPut ==
    ASSUME NEW calls, DOMAIN calls = Slots, NEW s \in Slots
    PROVE  IsPut(calls, s, NoCall, End(calls, s))
BY DEF IsPut, End

\* What begins takes a slot that nobody waits in.
LEMMA BeginPut ==
    ASSUME NEW calls, DOMAIN calls = Slots, Free(calls) # {}, NEW call
    PROVE  /\ NextSlot(calls) \in Slots /\ calls[NextSlot(calls)].op = "idle"
           /\ IsPut(calls, NextSlot(calls), call, Begin(calls, call))
<1>1. PICK after : after = Begin(calls, call)
    OBVIOUS
<1>2. PICK slot : slot = NextSlot(calls)
    OBVIOUS
<1>3. /\ DOMAIN after = Slots /\ slot \in Slots /\ calls[slot].op = "idle"
      /\ \A t \in Slots : after[t] = IF t = slot THEN call ELSE calls[t]
    BY <1>1, <1>2, BegunCalls
<1>4. IsPut(calls, slot, call, after)
    BY <1>3 DEF IsPut
<1> QED BY <1>1, <1>2, <1>3, <1>4

\* Nothing of a page is heard of in it.
LEMMA NoCallFits ==
    ASSUME NEW made, NEW tried
    PROVE  /\ ConsoleCallOK(NoCall, made, tried) /\ NoCall.op = "idle" /\ NoCall.op \notin FormOps
           /\ NoCall.op \notin FormRoutes /\ NoCall.op # "captcha" /\ ~IsChain(NoCall) /\ ~Tries(NoCall)
BY DEF NoCall, ConsoleCallOK, IsCall, IsChain, Tries, FormOps, FormRoutes

\* What stays of a call: all but whose state it changes.
IsAbandoned(calls, after) ==
    /\ DOMAIN after = Slots
    /\ \A s \in Slots :
          /\ DOMAIN after[s] = DOMAIN calls[s] /\ after[s].op = calls[s].op
          /\ \A f \in DOMAIN calls[s] \ {"here"} : after[s][f] = calls[s][f]
          /\ calls[s].op # "idle" => after[s].here = FALSE

\* A page that is left keeps its calls on their way, and hears none of them.
LEMMA AbandonedCalls ==
    ASSUME NEW calls, NEW made, NEW tried, CallsFit(calls, made, tried)
    PROVE  IsAbandoned(calls, Abandon(calls))
<1>1. PICK after : after = Abandon(calls)
    OBVIOUS
<1>2. DOMAIN after = Slots
    BY <1>1 DEF Abandon
<1>3. ASSUME NEW s \in Slots
      PROVE  /\ DOMAIN after[s] = DOMAIN calls[s] /\ after[s].op = calls[s].op
             /\ \A f \in DOMAIN calls[s] \ {"here"} : after[s][f] = calls[s][f]
             /\ calls[s].op # "idle" => after[s].here = FALSE
    <2>1. PICK call : call = calls[s]
        OBVIOUS
    <2>2. "op" \in DOMAIN call /\ (call.op # "idle" => "here" \in DOMAIN call)
        BY <2>1 DEF CallsFit, ConsoleCallOK, IsCall
    <2>3. CASE call.op = "idle"
        <3>1. after[s] = call
            BY <1>1, <2>1, <2>3 DEF Abandon
        <3> QED BY <2>1, <2>3, <3>1
    <2>4. CASE call.op # "idle"
        <3>1. PICK left : left = [call EXCEPT !.here = FALSE]
            OBVIOUS
        <3>2. after[s] = left
            BY <1>1, <2>1, <2>4, <3>1 DEF Abandon
        <3>3. /\ DOMAIN left = DOMAIN call /\ left.here = FALSE
              /\ \A f \in DOMAIN call \ {"here"} : left[f] = call[f]
            BY <2>2, <2>4, <3>1
        <3> QED BY <2>1, <2>2, <3>2, <3>3
    <2> QED BY <2>3, <2>4
<1>4. IsAbandoned(calls, after)
    BY <1>2, <1>3 DEF IsAbandoned
<1> QED BY <1>1, <1>4

\* A page that is left disturbs nothing that is said of the calls, and is no one's page.
LEMMA AbandonedFit ==
    ASSUME NEW calls, NEW after, IsAbandoned(calls, after), NEW made, NEW tried, CallsFit(calls, made, tried)
    PROVE  /\ CallsFit(after, made, tried)
           /\ \A s \in Slots : calls[s].op # "idle" => after[s].answer = calls[s].answer /\ after[s].cookie = calls[s].cookie
           /\ \A s \in Slots : calls[s].op \in FormRoutes => after[s].captcha = calls[s].captcha
           /\ \A s \in Slots : after[s].op # "idle" => ~after[s].here
<1>1. ASSUME NEW s \in Slots
      PROVE  /\ ConsoleCallOK(after[s], made, tried)
             /\ calls[s].op # "idle" => after[s].answer = calls[s].answer /\ after[s].cookie = calls[s].cookie
             /\ calls[s].op \in FormRoutes => after[s].captcha = calls[s].captcha
             /\ after[s].op # "idle" => ~after[s].here
    <2>1. PICK call : call = calls[s]
        OBVIOUS
    <2>2. PICK left : left = after[s]
        OBVIOUS
    <2>3. /\ DOMAIN left = DOMAIN call /\ left.op = call.op
          /\ \A f \in DOMAIN call \ {"here"} : left[f] = call[f]
          /\ call.op # "idle" => left.here = FALSE
        BY <2>1, <2>2 DEF IsAbandoned
    <2>4. ConsoleCallOK(call, made, tried)
        BY <2>1 DEF CallsFit
    <2>5. call.op # "idle" => left.answer = call.answer /\ left.cookie = call.cookie
        BY <2>3, <2>4 DEF ConsoleCallOK, IsCall
    <2>6. call.op = "captcha" => left.submit = call.submit
        BY <2>3, <2>4 DEF ConsoleCallOK
    <2>7. call.op \in FormRoutes => left.captcha = call.captcha
        BY <2>3, <2>4 DEF ConsoleCallOK
    <2>8. Succeeds(left) /\ call.op # "idle" => Succeeds(call)
        BY <2>5 DEF Succeeds
    <2>9. ConsoleCallOK(left, made, tried)
        <3>0. call.op \in FormRoutes => call.op # "idle"
            BY DEF FormRoutes
        <3> QED BY <2>3, <2>4, <2>5, <2>6, <2>7, <2>8, <3>0 DEF ConsoleCallOK, IsCall
    <2> QED BY <2>1, <2>2, <2>3, <2>5, <2>7, <2>9
<1>2. CallsFit(after, made, tried)
    BY <1>1 DEF CallsFit, IsAbandoned
<1> QED BY <1>1, <1>2

\* No form shows an image any more, and none is lost that a session needs.
LEMMA AbandonedImages ==
    ASSUME NEW calls, NEW after, IsAbandoned(calls, after), NEW made, NEW tried, CallsFit(calls, made, tried),
           NEW image, ImagesFit(calls, image), NEW jar, SessionsFit(calls, jar)
    PROVE  ImagesFit(after, 0) /\ SessionsFit(after, jar)
<1>1. /\ CallsFit(after, made, tried) /\ \A s \in Slots : after[s].op = calls[s].op
      /\ \A s \in Slots : calls[s].op # "idle" => after[s].answer = calls[s].answer /\ after[s].cookie = calls[s].cookie
      /\ \A s \in Slots : calls[s].op \in FormRoutes => after[s].captcha = calls[s].captcha
    <2>1. \A s \in Slots : after[s].op = calls[s].op
        BY DEF IsAbandoned
    <2> QED BY <2>1, AbandonedFit
<1>2. \A s \in Slots : calls[s].op # "idle" => (Succeeds(after[s]) <=> Succeeds(calls[s]))
    BY <1>1 DEF Succeeds
<1>3. ASSUME NEW s \in Slots, NEW t \in Slots, s # t
      PROVE  ImageApart(after[s], after[t]) /\ SessionApart(after[s], after[t])
    <2>1. ImageApart(calls[s], calls[t]) /\ SessionApart(calls[s], calls[t])
        BY <1>3 DEF ImagesFit, SessionsFit
    <2>2. \A x \in FormRoutes : x # "idle"
        BY DEF FormRoutes
    <2> QED BY <1>1, <1>2, <2>1, <2>2 DEF ImageApart, SessionApart
<1>4. ASSUME NEW s \in Slots
      PROVE  /\ ImageFits(after[s], 0)
             /\ after[s].op \in FormRoutes /\ Succeeds(after[s]) => after[s].answer.body # jar
    <2>1. ConsoleCallOK(after[s], made, tried)
        BY <1>1 DEF CallsFit
    <2>2. calls[s].op \in FormRoutes /\ Succeeds(calls[s]) => calls[s].answer.body # jar
        BY DEF SessionsFit
    <2>3. after[s].op = "captcha" /\ Succeeds(after[s]) => after[s].answer.body # 0
        BY <2>1 DEF ConsoleCallOK
    <2>4. \A x \in FormRoutes : x # "idle"
        BY DEF FormRoutes
    <2>5. after[s].op \in FormRoutes /\ Succeeds(after[s]) => after[s].answer.body # jar
        BY <1>1, <1>2, <2>2, <2>4
    <2> QED BY <2>3, <2>5 DEF ImageFits
<1> QED BY <1>3, <1>4 DEF ImagesFit, SessionsFit

\* The answers and sessions of the calls are theirs.
SameSubjects(calls, after) ==
    \A s \in Slots :
       /\ after[s].op = calls[s].op
       /\ calls[s].op # "idle" => after[s].answer = calls[s].answer /\ after[s].cookie = calls[s].cookie

\* Who is shown depends on no more of the calls than their subjects.
LEMMA SameIdentity ==
    ASSUME NEW calls, NEW after, SameSubjects(calls, after), NEW jar, NEW made, NEW user, NEW met,
           IdentityFit(calls, jar, made, user, met)
    PROVE  IdentityFit(after, jar, made, user, met)
<1>1. ASSUME NEW s \in Slots, after[s].op = "me"
      PROVE  /\ calls[s].op = "me" /\ after[s].cookie = calls[s].cookie
             /\ Succeeds(after[s]) => Succeeds(calls[s]) /\ after[s].answer.body = calls[s].answer.body
    <2>1. /\ after[s].op = calls[s].op
          /\ calls[s].op # "idle" => after[s].answer = calls[s].answer /\ after[s].cookie = calls[s].cookie
        BY DEF SameSubjects
    <2> QED BY <1>1, <2>1 DEF Succeeds
<1>2. (\A s \in Slots : after[s].op # "logout") => \A s \in Slots : calls[s].op # "logout"
    BY DEF SameSubjects
<1> QED BY <1>1, <1>2 DEF IdentityFit

\* An answer goes on with the same part.
LEMMA PutSame ==
    ASSUME NEW calls, NEW s \in Slots, NEW next, NEW after, IsPut(calls, s, next, after), NEW sheet, NEW tried,
           ChainFit(calls, sheet, tried), IsChain(next) => IsChain(calls[s]),
           next.op \in FormOps /\ next.here => calls[s].op \in FormOps /\ calls[s].here,
           Tries(calls[s]) => Tries(next)
    PROVE  ChainFit(after, sheet, tried)
<1>1. \A t \in Slots : after[t].op \in FormOps /\ after[t].here => sheet # None
    BY DEF IsPut, ChainFit
<1>2. \A t \in Slots : IsChain(after[t]) => IsChain(calls[t])
    BY DEF IsPut
<1>3. \A t \in Slots : Tries(calls[t]) => Tries(after[t])
    BY DEF IsPut
<1> QED BY <1>1, <1>2, <1>3 DEF ChainFit

\* The page that comes is of the user.
LEMMA EnteredPage ==
    ASSUME ConsoleAssumption, PageInv, NEW r \in Routes, NEW user \in Roles \cup {None}, Enter(r, user),
           currentUser' = user, cookie' \in 0..Len(sessions), sessions' = sessions, captchas' = captchas
    PROVE  /\ PageInv' /\ route' = r
           /\ r = route => /\ form' = form /\ boardStream' = (boardStream /\ board' # None)
                           /\ board' = board \/ (board' # None /\ board'.loader = None /\ board = None) \/ board' = None
           /\ r # route => /\ form' = None \/ form' = FreshForm
                           /\ board' = None \/ (board' # None /\ board'.loader = None)
                           /\ boardStream' = FALSE
<1>1. FreshBoard \in BoardStates /\ FreshBoard # None /\ FreshBoard.loader = None
    <2>1. FreshBoard \in BoardStates /\ FreshBoard.loader = None
        BY DEF FreshBoard, BoardStates
    <2> QED BY <2>1 DEF ConsoleAssumption
<1>2. FreshForm \in FormStates /\ FreshForm.shown = 0 /\ FreshForm.typed = 0
    BY DEF FreshForm, FormStates
<1>3. /\ BoardOn(r, user) \in BoardStates \cup {None}
      /\ BoardOn(r, user) # None => r = "dashboard" \/ (r = "account" /\ user = "user")
      /\ BoardOn(r, user) = None \/ BoardOn(r, user) = FreshBoard
    BY <1>1 DEF BoardOn
<1>4. CASE r = route
    <2>1. /\ route' = route /\ form' = form
          /\ board' = IF board = None THEN BoardOn(r, user) ELSE IF BoardOn(r, user) = None THEN None ELSE board
          /\ boardStream' = (boardStream /\ board' # None)
        BY <1>4 DEF Enter
    <2>2. /\ board' \in BoardStates \cup {None} /\ boardStream' \in BOOLEAN
          /\ board' # None => r = "dashboard" \/ (r = "account" /\ user = "user")
          /\ board' = board \/ (board' = FreshBoard /\ board = None) \/ board' = None
        BY <1>3, <2>1 DEF PageInv
    <2>3. PageInv'
        BY <1>4, <2>1, <2>2 DEF PageInv
    <2> QED BY <1>1, <1>4, <2>1, <2>2, <2>3
<1>5. CASE r # route
    <2>1. /\ route' = r /\ form' = (IF r \in FormRoutes THEN FreshForm ELSE None)
          /\ board' = BoardOn(r, user) /\ boardStream' = FALSE
        BY <1>5 DEF Enter
    <2>2. Len(captchas) \in Nat
        BY LenProperties DEF PageInv
    <2>3. PageInv'
        <3>1. IF route' \in FormRoutes
              THEN form' \in FormStates /\ form'.shown \in 0..Len(captchas') /\ form'.typed \in 0..Len(captchas')
              ELSE form' = None
            <4>1. PICK last : last = Len(captchas)
                OBVIOUS
            <4>2. 0 \in 0..last
                BY <2>2, <4>1
            <4> QED BY <1>2, <2>1, <4>1, <4>2
        <3>2. /\ board' \in BoardStates \cup {None} /\ boardStream' \in BOOLEAN
              /\ board' # None => r = "dashboard" \/ (r = "account" /\ user = "user")
            BY <1>3, <2>1
        <3> QED BY <2>1, <3>1, <3>2 DEF PageInv
    <2> QED BY <1>1, <1>3, <1>5, <2>1, <2>3
<1> QED BY <1>4, <1>5

\* What the calls that stay leave of the page that comes.
LEMMA EnteredCalls ==
    ASSUME ConsoleAssumption, PageInv, NEW r \in Routes, NEW user \in Roles \cup {None}, Enter(r, user),
           currentUser' = user, cookie' \in 0..Len(sessions), sessions' = sessions, captchas' = captchas,
           NEW calls, NEW jar, CallsFit(calls, sessions, captchas), ImagesFit(calls, ImageOf(form)),
           SessionsFit(calls, jar),
           r = route => ChainFit(calls, form, captchas) /\ LoaderFit(calls, board, boardStream),
           NEW after, after = Left(calls)
    PROVE  /\ CallsFit(after, sessions, captchas) /\ ImagesFit(after, ImageOf(form')) /\ SessionsFit(after, jar)
           /\ ChainFit(after, form', captchas) /\ LoaderFit(after, board', boardStream')
           /\ SameSubjects(calls, after)
<1>1. /\ PageInv' /\ route' = r
      /\ r = route => /\ form' = form /\ boardStream' = (boardStream /\ board' # None)
                      /\ board' = board \/ (board' # None /\ board'.loader = None /\ board = None) \/ board' = None
      /\ r # route => /\ form' = None \/ form' = FreshForm
                      /\ board' = None \/ (board' # None /\ board'.loader = None)
                      /\ boardStream' = FALSE
    BY EnteredPage
<1>2. CASE r = route
    <2>1. after = calls
        BY <1>1, <1>2 DEF Left
    <2>2. SameSubjects(calls, after)
        BY <2>1 DEF SameSubjects
    <2>3. LoaderFit(after, board', boardStream')
        <3>1. LoaderFit(calls, board, boardStream)
            BY <1>2
        <3>2. PICK open : open = boardStream
            OBVIOUS
        <3>3. boardStream' => open /\ board' # None
            BY <1>1, <1>2, <3>2
        <3>4. LoaderFit(calls, board, open)
            BY <3>1, <3>2
        <3> QED BY <1>1, <1>2, <2>1, <3>3, <3>4 DEF LoaderFit
    <2> QED BY <1>1, <1>2, <2>1, <2>2, <2>3
<1>3. CASE r # route
    <2>1. after = Abandon(calls)
        BY <1>1, <1>3 DEF Left
    <2>2. IsAbandoned(calls, after)
        BY <2>1, AbandonedCalls
    <2>3. CallsFit(after, sessions, captchas)
        BY <2>2, AbandonedFit
    <2>4. /\ \A s \in Slots : calls[s].op # "idle" => after[s].answer = calls[s].answer /\ after[s].cookie = calls[s].cookie
          /\ \A s \in Slots : after[s].op # "idle" => ~after[s].here
        BY <2>2, AbandonedFit
    <2>5. ImageOf(form') = 0 /\ ~IsSpent(form', captchas)
        BY <1>1, <1>3 DEF ImageOf, IsSpent, FreshForm
    <2>6. ImagesFit(after, 0) /\ SessionsFit(after, jar)
        BY <2>2, AbandonedImages
    <2>7. SameSubjects(calls, after)
        <3>1. \A s \in Slots : after[s].op = calls[s].op
            BY <2>2 DEF IsAbandoned
        <3> QED BY <2>4, <3>1 DEF SameSubjects
    <2>8. ChainFit(after, form', captchas)
        <3>1. \A s \in Slots : (after[s].op \in FormOps => ~after[s].here) /\ ~IsChain(after[s])
            BY <2>4 DEF FormOps, FormRoutes, IsChain
        <3> QED BY <2>5, <3>1 DEF ChainFit
    <2>9. LoaderFit(after, board', boardStream')
        BY <1>1, <1>3 DEF LoaderFit
    <2> QED BY <2>3, <2>5, <2>6, <2>7, <2>8, <2>9
<1> QED BY <1>2, <1>3

\* Another route: its page mounts, and the calls of the last one are left.
LEMMA Entered ==
    ASSUME ConsoleAssumption, PageInv, NEW r \in Routes, NEW user \in Roles \cup {None}, Enter(r, user),
           currentUser' = user, cookie' \in 0..Len(sessions), sessions' = sessions, captchas' = captchas,
           NEW calls, CallsFit(calls, sessions, captchas), ImagesFit(calls, ImageOf(form)),
           SessionsFit(calls, cookie'),
           r = route => ChainFit(calls, form, captchas) /\ LoaderFit(calls, board, boardStream),
           consoleCalls' = Left(calls), IdentityFit(calls, cookie', sessions, user, crossed')
    PROVE  SessionInv'
<1>1. PICK after : after = Left(calls)
    OBVIOUS
<1>2. PICK jar : jar = cookie'
    OBVIOUS
<1>3. PageInv'
    BY EnteredPage
<1>4. /\ CallsFit(after, sessions, captchas) /\ ImagesFit(after, ImageOf(form')) /\ SessionsFit(after, jar)
      /\ ChainFit(after, form', captchas) /\ LoaderFit(after, board', boardStream')
      /\ SameSubjects(calls, after)
    BY <1>1, <1>2, EnteredCalls
<1>5. IdentityFit(after, jar, sessions, user, crossed')
    <2>1. PICK met : met = crossed'
        OBVIOUS
    <2>2. IdentityFit(calls, jar, sessions, user, met)
        BY <1>2, <2>1
    <2> QED BY <1>4, <2>1, <2>2, SameIdentity
<1> QED BY <1>1, <1>2, <1>3, <1>4, <1>5 DEF SessionInv

\* An answer of 401 shows the form of the login to no one.
LEMMA ExpiredKeeps ==
    ASSUME ConsoleAssumption, PageInv, NEW calls, NEW jar \in 0..Len(sessions), cookie' = jar,
           sessions' = sessions, captchas' = captchas,
           CallsFit(calls, sessions, captchas), ImagesFit(calls, ImageOf(form)), SessionsFit(calls, jar),
           route = "login" => ChainFit(calls, form, captchas) /\ LoaderFit(calls, board, boardStream),
           Expired(calls, jar), IdentityFit(calls, jar, sessions, None, crossed')
    PROVE  SessionInv'
<1>1. Enter("login", None) /\ currentUser' = None
    BY DEF Expired
<1>2. PICK r : r = "login"
    OBVIOUS
<1>3. PICK user : user = None
    OBVIOUS
<1>4. /\ r \in Routes /\ user \in Roles \cup {None} /\ Enter(r, user) /\ currentUser' = user
      /\ cookie' \in 0..Len(sessions)
      /\ r = route => ChainFit(calls, form, captchas) /\ LoaderFit(calls, board, boardStream)
    BY <1>1, <1>2, <1>3 DEF Routes
<1>5. CASE consoleCalls' = Left(calls)
    <2>1. IdentityFit(calls, cookie', sessions, user, crossed') /\ SessionsFit(calls, cookie')
        BY <1>3
    <2> QED BY <1>4, <1>5, <2>1, Entered
<1>6. CASE consoleCalls' # Left(calls)
    <2>1. PICK after : after = Left(calls)
        OBVIOUS
    <2>2. PICK call : call = [op |-> "me", who |-> route, here |-> FALSE, cookie |-> jar, answer |-> Unanswered]
        OBVIOUS
    <2>3. Free(calls) # {} /\ consoleCalls' = Begin(after, call)
        BY <1>6, <2>1, <2>2 DEF Expired
    <2>4. PageInv' /\ (board' # None => board'.loader = None)
        <3>1. /\ PageInv'
              /\ r = route => /\ form' = form /\ boardStream' = (boardStream /\ board' # None)
                              /\ board' = board \/ (board' # None /\ board'.loader = None /\ board = None) \/ board' = None
              /\ r # route => /\ form' = None \/ form' = FreshForm
                              /\ board' = None \/ (board' # None /\ board'.loader = None)
                              /\ boardStream' = FALSE
            BY <1>4, EnteredPage
        <3>2. r = route => board = None
            BY <1>2 DEF PageInv
        <3> QED BY <3>1, <3>2
    <2>5. /\ CallsFit(after, sessions, captchas) /\ ImagesFit(after, ImageOf(form')) /\ SessionsFit(after, jar)
          /\ ChainFit(after, form', captchas) /\ LoaderFit(after, board', boardStream')
          /\ SameSubjects(calls, after)
        BY <1>4, <2>1, EnteredCalls
    <2>6. IdentityFit(after, jar, sessions, None, crossed')
        <3>1. PICK met : met = crossed'
            OBVIOUS
        <3>2. IdentityFit(calls, jar, sessions, user, met)
            BY <1>3, <3>1
        <3>3. IdentityFit(after, jar, sessions, user, met)
            BY <2>5, <3>2, SameIdentity
        <3> QED BY <1>3, <3>1, <3>3
    <2>7. DOMAIN after = Slots /\ Free(after) # {}
        <3>1. \A s \in Slots : after[s].op = calls[s].op
            BY <2>5 DEF SameSubjects
        <3>2. Free(after) = Free(calls)
            BY <3>1 DEF Free, Busy
        <3> QED BY <2>3, <2>5, <3>2 DEF CallsFit
    <2>8. PICK slot : slot = NextSlot(after)
        OBVIOUS
    <2>9. PICK next : next = consoleCalls'
        OBVIOUS
    <2>10. slot \in Slots /\ after[slot].op = "idle" /\ IsPut(after, slot, call, next)
        BY <2>3, <2>7, <2>8, <2>9, BeginPut
    <2>11. /\ DOMAIN call = {"op", "who", "here", "cookie", "answer"} /\ call.op = "me" /\ call.here = FALSE
           /\ call.cookie = jar /\ call.answer = Unanswered /\ ~Succeeds(call)
        BY <2>2 DEF Succeeds, Unanswered
    <2>12. ConsoleCallOK(call, sessions, captchas)
        BY <2>11 DEF ConsoleCallOK, IsCall, FormRoutes
    <2>13. /\ ~IsChain(call) /\ call.op \notin FormRoutes /\ call.op \notin FormOps /\ ~Tries(after[slot])
        BY <2>10, <2>11 DEF IsChain, FormRoutes, FormOps, Tries
    <2>14. CallsFit(next, sessions, captchas)
        BY <2>5, <2>10, <2>12, PutCalls
    <2>15. ImagesFit(next, ImageOf(form'))
        <3>1. PICK image : image = ImageOf(form')
            OBVIOUS
        <3>2. ImagesFit(after, image)
            BY <2>5, <3>1
        <3>3. ImagesFit(next, image)
            BY <2>10, <2>11, <2>13, <3>2, PutImages
        <3> QED BY <3>1, <3>3
    <2>16. SessionsFit(next, jar)
        BY <2>5, <2>10, <2>11, <2>13, PutSessions
    <2>17. ChainFit(next, form', captchas)
        BY <2>5, <2>10, <2>13, PutAside
    <2>18. LoaderFit(next, board', boardStream')
        <3>1. PICK state : state = board'
            OBVIOUS
        <3>2. \A open : LoaderFit(after, state, open) => LoaderFit(next, state, open)
            BY <2>4, <3>1 DEF LoaderFit
        <3> QED BY <2>5, <3>1, <3>2
    <2>19. IdentityFit(next, jar, sessions, None, crossed')
        <3>1. PICK met : met = crossed'
            OBVIOUS
        <3>2. IdentityFit(after, jar, sessions, user, met)
            BY <1>3, <2>6, <3>1
        <3>3. IdentityFit(next, jar, sessions, user, met)
            BY <2>10, <2>11, <3>2, PutIdentity
        <3> QED BY <1>3, <3>1, <3>3
    <2> QED BY <1>1, <2>4, <2>9, <2>14, <2>15, <2>16, <2>17, <2>18, <2>19 DEF SessionInv
<1> QED BY <1>5, <1>6

\* A step that ends the call of a slot, where neither the form nor the load of the board waits for it.
LEMMA EndKeeps ==
    ASSUME NEW calls, NEW s \in Slots, NEW after, after = End(calls, s), NEW made, NEW tried,
           CallsFit(calls, made, tried), NEW image, ImagesFit(calls, image), NEW jar, SessionsFit(calls, jar)
    PROVE  /\ IsPut(calls, s, NoCall, after) /\ CallsFit(after, made, tried) /\ ImagesFit(after, image)
           /\ SessionsFit(after, jar)
<1>1. IsPut(calls, s, NoCall, after)
    BY EndPut DEF CallsFit
<1>2. /\ ConsoleCallOK(NoCall, made, tried) /\ NoCall.op = "idle" /\ NoCall.op \notin FormOps
      /\ NoCall.op \notin FormRoutes /\ NoCall.op # "captcha"
    BY NoCallFits
<1>3. CallsFit(after, made, tried)
    BY <1>1, <1>2, PutCalls
<1>4. ImagesFit(after, image)
    BY <1>1, <1>2, PutImages
<1>5. SessionsFit(after, jar)
    BY <1>1, <1>2, PutSessions
<1> QED BY <1>1, <1>3, <1>4, <1>5

\* The end of a call that is no logout keeps who is shown.
LEMMA EndIdentity ==
    ASSUME NEW calls, NEW s \in Slots, calls[s].op # "logout", NEW after, IsPut(calls, s, NoCall, after),
           NEW jar, NEW made, NEW user, NEW met, IdentityFit(calls, jar, made, user, met)
    PROVE  IdentityFit(after, jar, made, user, met)
<1>1. NoCall.op = "idle"
    BY NoCallFits
<1> QED BY <1>1, PutIdentity

\* The end of a call of no chain keeps the image the form still needs.
LEMMA EndAside ==
    ASSUME NEW calls, NEW s \in Slots, ~Tries(calls[s]), NEW after, IsPut(calls, s, NoCall, after),
           NEW sheet, NEW tried, ChainFit(calls, sheet, tried)
    PROVE  ChainFit(after, sheet, tried)
<1>1. NoCall.op \notin FormOps /\ ~IsChain(NoCall)
    BY NoCallFits
<1> QED BY <1>1, PutAside

\* The end of another call keeps what the board waits for.
LEMMA EndLoader ==
    ASSUME NEW calls, NEW s \in Slots, NEW after, IsPut(calls, s, NoCall, after),
           NEW state, NEW open, LoaderFit(calls, state, open), state # None => state.loader \in Slots \cup {None},
           state = None \/ state.loader # s
    PROVE  LoaderFit(after, state, open)
BY PutLoader

\* The request that is sent, with the session of the browser.
IsSent(calls, call, jar, after) ==
    /\ NextSlot(calls) \in Slots /\ calls[NextSlot(calls)].op = "idle"
    /\ \E next :
          /\ IsPut(calls, NextSlot(calls), next, after)
          /\ DOMAIN next = DOMAIN call \cup {"answer", "here", "cookie"}
          /\ \A f \in DOMAIN call : next[f] = call[f]
          /\ next.answer = Unanswered /\ next.here = TRUE /\ next.cookie = jar

\* A request takes a slot, with the cookie of now.
LEMMA SentCall ==
    ASSUME DOMAIN consoleCalls = Slots, NEW call, {"answer", "here", "cookie"} \cap DOMAIN call = {},
           SendConsole(call)
    PROVE  IsSent(consoleCalls, call, cookie, consoleCalls')
<1>1. PICK common : common = [answer |-> Unanswered, here |-> TRUE, cookie |-> cookie]
    OBVIOUS
<1>2. PICK next : next = With(common, call)
    OBVIOUS
<1>3. Free(consoleCalls) # {} /\ consoleCalls' = Begin(consoleCalls, next)
    BY <1>1, <1>2 DEF SendConsole
<1>4. /\ NextSlot(consoleCalls) \in Slots /\ consoleCalls[NextSlot(consoleCalls)].op = "idle"
      /\ IsPut(consoleCalls, NextSlot(consoleCalls), next, consoleCalls')
    BY <1>3, BeginPut
<1>5. DOMAIN common = {"answer", "here", "cookie"}
    BY <1>1
<1>6. /\ DOMAIN next = DOMAIN call \cup DOMAIN common
      /\ \A f \in DOMAIN common : next[f] = common[f]
      /\ \A f \in DOMAIN call \ DOMAIN common : next[f] = call[f]
    BY <1>2 DEF With
<1>7. next.answer = Unanswered /\ next.here = TRUE /\ next.cookie = cookie
    BY <1>1, <1>5, <1>6
<1> QED BY <1>4, <1>5, <1>6, <1>7 DEF IsSent

\* A request that is no submission of the form.
LEMMA SentFits ==
    ASSUME NEW calls, NEW made, NEW tried, CallsFit(calls, made, tried), NEW call, NEW jar \in 0..Len(made),
           NEW after, IsSent(calls, call, jar, after),
           "op" \in DOMAIN call, call.op \in {"config", "captcha", "me", "snapshot", "logout"},
           call.op = "captcha" => "submit" \in DOMAIN call /\ call.submit = FALSE,
           call.op \in {"me", "snapshot"} => "who" \in DOMAIN call,
           NEW image, ImagesFit(calls, image), SessionsFit(calls, jar), NEW user, NEW met,
           IdentityFit(calls, jar, made, user, met), NEW sheet, ChainFit(calls, sheet, tried),
           call.op \in FormOps => sheet # None
    PROVE  /\ CallsFit(after, made, tried) /\ ImagesFit(after, image) /\ SessionsFit(after, jar)
           /\ ChainFit(after, sheet, tried) /\ IdentityFit(after, jar, made, user, met)
<1>1. PICK s : s = NextSlot(calls)
    OBVIOUS
<1>2. PICK next : /\ IsPut(calls, s, next, after) /\ DOMAIN next = DOMAIN call \cup {"answer", "here", "cookie"}
                  /\ \A f \in DOMAIN call : next[f] = call[f]
                  /\ next.answer = Unanswered /\ next.here = TRUE /\ next.cookie = jar
    BY <1>1 DEF IsSent
<1>3. s \in Slots /\ calls[s].op = "idle"
    BY <1>1 DEF IsSent
<1>4. next.op = call.op /\ ~Succeeds(next)
    BY <1>2 DEF Succeeds, Unanswered
<1>5. /\ next.op = "captcha" => "submit" \in DOMAIN next /\ next.submit = FALSE
      /\ next.op \in {"me", "snapshot"} => "who" \in DOMAIN next
    BY <1>2, <1>4
<1>6. next.op \notin FormRoutes /\ next.op # "idle" /\ ~IsChain(next) /\ ~Tries(calls[s])
    BY <1>3, <1>4, <1>5 DEF FormRoutes, IsChain, Tries
<1>7. ConsoleCallOK(next, made, tried)
    BY <1>2, <1>4, <1>5, <1>6 DEF ConsoleCallOK, IsCall
<1>8. CallsFit(after, made, tried)
    BY <1>2, <1>3, <1>7, PutCalls
<1>9. ImagesFit(after, image)
    BY <1>2, <1>3, <1>4, <1>6, PutImages
<1>10. SessionsFit(after, jar)
    BY <1>2, <1>3, <1>6, PutSessions
<1>11. ChainFit(after, sheet, tried)
    BY <1>2, <1>3, <1>4, <1>6, PutAside
<1>12. IdentityFit(after, jar, made, user, met)
    BY <1>2, <1>3, <1>4, PutIdentity
<1> QED BY <1>8, <1>9, <1>10, <1>11, <1>12

\* What waits in a slot is no one's that begins.
LEMMA SentLoader ==
    ASSUME NEW calls, NEW call, NEW jar, NEW after, IsSent(calls, call, jar, after),
           NEW state, NEW open, LoaderFit(calls, state, open), state # None => state.loader \in Slots \cup {None}
    PROVE  LoaderFit(after, state, open)
<1>1. PICK s : s = NextSlot(calls)
    OBVIOUS
<1>2. PICK next : IsPut(calls, s, next, after)
    BY <1>1 DEF IsSent
<1>3. s \in Slots /\ calls[s].op = "idle"
    BY <1>1 DEF IsSent
<1>4. \A t \in Slots \ {s} : after[t] = calls[t]
    BY <1>2 DEF IsPut
<1>5. state # None /\ state.loader # None => IsLoader(calls[state.loader], state) /\ state.loader # s
    BY <1>3 DEF LoaderFit, IsLoader
<1> QED BY <1>4, <1>5 DEF LoaderFit, IsPut

\* The board waits for a call or for none.
LEMMA LoaderSlots ==
    ASSUME PageInv
    PROVE  board # None => board.loader \in Slots \cup {None} /\ board.authorized \in BOOLEAN
BY DEF PageInv, BoardStates

\* What the form says of its image is what it said.
LEMMA SameSheet ==
    ASSUME NEW calls, NEW sheet, NEW tried, ChainFit(calls, sheet, tried), NEW other, other # None,
           sheet # None => /\ other.shown = sheet.shown /\ other.submitting = sheet.submitting
                           /\ other.kept = sheet.kept,
           sheet # None
    PROVE  ChainFit(calls, other, tried)
BY DEF ChainFit, IsSpent

\* A form is there on its own routes only.
LEMMA FormTouched ==
    ASSUME ConsoleAssumption, PageInv, form # None
    PROVE  route \in FormRoutes /\ form \in FormStates /\ \A x \in FormStates : x # None
BY DEF PageInv, ConsoleAssumption

\* The form that shows the same image.
LEMMA FormKeeps ==
    ASSUME ConsoleAssumption, PageInv, form # None, form' \in FormStates, form'.shown = form.shown,
           form'.typed \in 0..Len(captchas), UNCHANGED <<route, currentUser, board, boardStream, cookie, sessions, captchas>>
    PROVE  PageInv' /\ ImageOf(form') = ImageOf(form) /\ form' # None
<1>1. route \in FormRoutes /\ form' # None
    BY FormTouched
<1> QED BY <1>1 DEF PageInv, ImageOf

\* The form asks whether it is open.
LEMMA AskConfigKeeps ==
    ASSUME ConsoleAssumption, SessionInv, AskConfig
    PROVE  SessionInv'
<1>1. UNCHANGED <<mountedPage, cookie, doors, crossed>> /\ form # None
    BY DEF AskConfig
<1>2. PageInv'
    BY <1>1 DEF SessionInv, PageInv, mountedPage, doors
<1>3. PICK call : call = [op |-> "config"]
    OBVIOUS
<1>4. DOMAIN call = {"op"} /\ call.op = "config" /\ SendConsole(call)
    BY <1>3 DEF AskConfig
<1>5. PICK image : image = ImageOf(form)
    OBVIOUS
<1>6. PICK after : after = consoleCalls'
    OBVIOUS
<1>7. /\ CallsFit(consoleCalls, sessions, captchas) /\ ImagesFit(consoleCalls, image) /\ SessionsFit(consoleCalls, cookie)
      /\ ChainFit(consoleCalls, form, captchas) /\ LoaderFit(consoleCalls, board, boardStream)
      /\ IdentityFit(consoleCalls, cookie, sessions, currentUser, crossed) /\ cookie \in 0..Len(sessions)
      /\ DOMAIN consoleCalls = Slots
    BY <1>5 DEF SessionInv, PageInv, CallsFit
<1>8. IsSent(consoleCalls, call, cookie, after)
    BY <1>4, <1>6, <1>7, SentCall
<1>9. /\ CallsFit(after, sessions, captchas) /\ ImagesFit(after, image) /\ SessionsFit(after, cookie)
      /\ ChainFit(after, form, captchas) /\ IdentityFit(after, cookie, sessions, currentUser, crossed)
    <2>1. PICK sheet : sheet = form
        OBVIOUS
    <2>2. PICK met : met = crossed
        OBVIOUS
    <2>3. PICK made : made = sessions
        OBVIOUS
    <2>4. PICK tried : tried = captchas
        OBVIOUS
    <2>5. /\ CallsFit(consoleCalls, made, tried) /\ cookie \in 0..Len(made) /\ sheet # None
          /\ IdentityFit(consoleCalls, cookie, made, currentUser, met) /\ ChainFit(consoleCalls, sheet, tried)
        BY <1>1, <1>4, <1>7, <1>8, <2>1, <2>2, <2>3, <2>4
    <2>6. /\ CallsFit(after, made, tried) /\ ImagesFit(after, image) /\ SessionsFit(after, cookie)
          /\ ChainFit(after, sheet, tried) /\ IdentityFit(after, cookie, made, currentUser, met)
        BY <1>1, <1>4, <1>7, <1>8, <2>5, SentFits
    <2> QED BY <2>1, <2>2, <2>3, <2>4, <2>6
<1>10. LoaderFit(after, board, boardStream)
    BY <1>7, <1>8, SentLoader, LoaderSlots DEF SessionInv
<1> QED BY <1>1, <1>2, <1>5, <1>6, <1>9, <1>10 DEF SessionInv, mountedPage, doors

\* The form asks for an image.
LEMMA AskCaptchaKeeps ==
    ASSUME ConsoleAssumption, SessionInv, AskCaptcha
    PROVE  SessionInv'
<1>1. /\ UNCHANGED <<route, asking, currentUser, board, boardStream, cookie, doors, crossed>> /\ form # None
      /\ form' = [form EXCEPT !.loading = TRUE, !.typed = 0]
    BY DEF AskCaptcha
<1>2. form \in FormStates /\ PageInv
    BY <1>1, FormTouched DEF SessionInv
<1>3. /\ form' \in FormStates /\ form'.typed = 0
      /\ form'.shown = form.shown /\ form'.submitting = form.submitting /\ form'.kept = form.kept
    BY <1>1, <1>2 DEF FormStates
<1>4. 0 \in 0..Len(captchas)
    BY <1>2, LenProperties DEF PageInv
<1>5. PageInv' /\ ImageOf(form') = ImageOf(form) /\ form' # None
    BY <1>1, <1>2, <1>3, <1>4, FormKeeps DEF doors
<1>6. PICK call : call = [op |-> "captcha", submit |-> FALSE]
    OBVIOUS
<1>7. /\ DOMAIN call = {"op", "submit"} /\ call.op = "captcha" /\ call.submit = FALSE
      /\ SendConsole(call)
    BY <1>6 DEF AskCaptcha, CaptchaCall
<1>8. PICK image : image = ImageOf(form)
    OBVIOUS
<1>9. PICK after : after = consoleCalls'
    OBVIOUS
<1>10. /\ CallsFit(consoleCalls, sessions, captchas) /\ ImagesFit(consoleCalls, image) /\ SessionsFit(consoleCalls, cookie)
       /\ ChainFit(consoleCalls, form, captchas) /\ LoaderFit(consoleCalls, board, boardStream)
       /\ IdentityFit(consoleCalls, cookie, sessions, currentUser, crossed) /\ cookie \in 0..Len(sessions)
       /\ DOMAIN consoleCalls = Slots
    BY <1>8 DEF SessionInv, PageInv, CallsFit
<1>11. IsSent(consoleCalls, call, cookie, after)
    BY <1>7, <1>9, <1>10, SentCall
<1>12. /\ CallsFit(after, sessions, captchas) /\ ImagesFit(after, image) /\ SessionsFit(after, cookie)
       /\ ChainFit(after, form, captchas) /\ IdentityFit(after, cookie, sessions, currentUser, crossed)
    <2>1. PICK sheet : sheet = form
        OBVIOUS
    <2>2. PICK met : met = crossed
        OBVIOUS
    <2>3. PICK made : made = sessions
        OBVIOUS
    <2>4. PICK tried : tried = captchas
        OBVIOUS
    <2>5. /\ CallsFit(consoleCalls, made, tried) /\ cookie \in 0..Len(made) /\ sheet # None
          /\ IdentityFit(consoleCalls, cookie, made, currentUser, met) /\ ChainFit(consoleCalls, sheet, tried)
        BY <1>1, <1>7, <1>10, <1>11, <2>1, <2>2, <2>3, <2>4
    <2>6. /\ CallsFit(after, made, tried) /\ ImagesFit(after, image) /\ SessionsFit(after, cookie)
          /\ ChainFit(after, sheet, tried) /\ IdentityFit(after, cookie, made, currentUser, met)
        BY <1>1, <1>7, <1>10, <1>11, <2>5, SentFits
    <2> QED BY <2>1, <2>2, <2>3, <2>4, <2>6
<1>13. LoaderFit(after, board, boardStream)
    BY <1>10, <1>11, SentLoader, LoaderSlots DEF SessionInv
<1>14. ChainFit(after, form', captchas)
    <2>1. PICK sheet : sheet = form'
        OBVIOUS
    <2> QED BY <1>1, <1>3, <1>5, <1>12, <2>1, SameSheet
<1> QED BY <1>1, <1>5, <1>8, <1>9, <1>12, <1>13, <1>14 DEF SessionInv, doors

\* The image is typed off.
LEMMA TypeCaptchaKeeps ==
    ASSUME ConsoleAssumption, SessionInv, TypeCaptcha
    PROVE  SessionInv'
<1>1. /\ UNCHANGED <<route, asking, currentUser, board, boardStream, cookie, doors, consoleCalls, consoleSteps, crossed>>
      /\ form # None /\ form' = [form EXCEPT !.typed = form.shown]
    BY DEF TypeCaptcha
<1>2. form \in FormStates /\ PageInv
    BY <1>1, FormTouched DEF SessionInv
<1>3. /\ form' \in FormStates /\ form'.typed = form.shown
      /\ form'.shown = form.shown /\ form'.submitting = form.submitting /\ form'.kept = form.kept
    BY <1>1, <1>2 DEF FormStates
<1>4. form.shown \in 0..Len(captchas)
    BY <1>1, <1>2 DEF PageInv
<1>5. PageInv' /\ ImageOf(form') = ImageOf(form) /\ form' # None
    BY <1>1, <1>2, <1>3, <1>4, FormKeeps DEF doors
<1>6. ChainFit(consoleCalls, form', captchas)
    <2>1. PICK sheet : sheet = form'
        OBVIOUS
    <2>2. ChainFit(consoleCalls, form, captchas)
        BY DEF SessionInv
    <2> QED BY <1>1, <1>3, <1>5, <2>1, <2>2, SameSheet
<1> QED BY <1>1, <1>5, <1>6 DEF SessionInv, doors

\* The form is submitted with the image it shows.
LEMMA SubmitFormKeeps ==
    ASSUME ConsoleAssumption, SessionInv, SubmitForm
    PROVE  SessionInv'
<1>1. /\ UNCHANGED <<route, asking, currentUser, board, boardStream, cookie, doors, crossed>> /\ form # None
      /\ form' = [form EXCEPT !.submitting = TRUE] /\ form.submitting = FALSE
    <2>1. form # None
        BY DEF SubmitForm
    <2>2. form \in FormStates
        BY <2>1, FormTouched DEF SessionInv
    <2>3. form.submitting \in BOOLEAN /\ ~form.submitting
        BY <2>2 DEF SubmitForm, SubmitEnabled, FormStates
    <2> QED BY <2>3 DEF SubmitForm
<1>2. form \in FormStates /\ PageInv /\ route \in FormRoutes
    BY <1>1, FormTouched DEF SessionInv
<1>3. /\ form' \in FormStates /\ form'.typed = form.typed
      /\ form'.shown = form.shown /\ form'.submitting = TRUE /\ form'.kept = form.kept
    BY <1>1, <1>2 DEF FormStates
<1>4. form.typed \in 0..Len(captchas) /\ form.shown \in 0..Len(captchas)
    BY <1>1, <1>2 DEF PageInv
<1>5. PageInv' /\ ImageOf(form') = ImageOf(form) /\ form' # None
    BY <1>1, <1>2, <1>3, <1>4, FormKeeps DEF doors
<1>6. PICK call : call = [op |-> route, captcha |-> form.shown, typed |-> form.typed]
    OBVIOUS
<1>7. /\ DOMAIN call = {"op", "captcha", "typed"} /\ call.op = route /\ call.captcha = form.shown
      /\ SendConsole(call)
    BY <1>6 DEF SubmitForm
<1>8. PICK image : image = ImageOf(form)
    OBVIOUS
<1>9. PICK after : after = consoleCalls'
    OBVIOUS
<1>10. /\ CallsFit(consoleCalls, sessions, captchas) /\ ImagesFit(consoleCalls, image) /\ SessionsFit(consoleCalls, cookie)
       /\ ChainFit(consoleCalls, form, captchas) /\ LoaderFit(consoleCalls, board, boardStream)
       /\ IdentityFit(consoleCalls, cookie, sessions, currentUser, crossed) /\ cookie \in 0..Len(sessions)
       /\ DOMAIN consoleCalls = Slots
    BY <1>8 DEF SessionInv, PageInv, CallsFit
<1>11. IsSent(consoleCalls, call, cookie, after)
    BY <1>7, <1>9, <1>10, SentCall
<1>12. PICK s : s = NextSlot(consoleCalls)
    OBVIOUS
<1>13. PICK next : /\ IsPut(consoleCalls, s, next, after) /\ DOMAIN next = DOMAIN call \cup {"answer", "here", "cookie"}
                   /\ \A f \in DOMAIN call : next[f] = call[f]
                   /\ next.answer = Unanswered /\ next.here = TRUE /\ next.cookie = cookie
    BY <1>11, <1>12 DEF IsSent
<1>14. s \in Slots /\ consoleCalls[s].op = "idle"
    BY <1>11, <1>12 DEF IsSent
<1>15. next.op = route /\ next.captcha = image /\ next.op \in FormRoutes /\ ~Succeeds(next)
    BY <1>1, <1>2, <1>7, <1>8, <1>13 DEF Succeeds, Unanswered, ImageOf
<1>16. ConsoleCallOK(next, sessions, captchas)
    BY <1>1, <1>4, <1>7, <1>8, <1>10, <1>13, <1>15 DEF ConsoleCallOK, IsCall, FormRoutes, ImageOf
<1>17. CallsFit(after, sessions, captchas)
    BY <1>10, <1>13, <1>14, <1>16, PutCalls
<1>18. ImagesFit(after, image)
    BY <1>10, <1>13, <1>14, <1>15, PutSubmission
<1>19. SessionsFit(after, cookie)
    BY <1>10, <1>13, <1>14, <1>15, PutSessions
<1>20. LoaderFit(after, board, boardStream)
    BY <1>10, <1>11, SentLoader, LoaderSlots DEF SessionInv
<1>21. IdentityFit(after, cookie, sessions, currentUser, crossed)
    <2>1. next.op # "me" /\ consoleCalls[s].op # "logout"
        BY <1>14, <1>15 DEF FormRoutes
    <2> QED BY <1>10, <1>13, <1>14, <2>1, PutIdentity
<1>22. ChainFit(after, form', captchas)
    <2>1. \A t \in Slots : ~IsChain(consoleCalls[t]) /\ ~Tries(consoleCalls[t])
        BY <1>1, <1>10 DEF ChainFit, Tries
    <2>2. IsSpent(form', captchas) => form'.kept
        BY <1>1, <1>3, <1>10, <2>1 DEF ChainFit, IsSpent
    <2>3. \A t \in Slots : IsChain(after[t]) => t = s
        BY <1>13, <2>1 DEF IsPut
    <2> QED BY <1>3, <1>5, <2>2, <2>3 DEF ChainFit
<1> QED BY <1>1, <1>5, <1>8, <1>9, <1>17, <1>18, <1>19, <1>20, <1>21, <1>22 DEF SessionInv, doors

\* The handler that goes on with another image.
IsImageCall(next, submit, here) ==
    next.op = "captcha" /\ next.submit = submit /\ next.here = here /\ ~Succeeds(next)

\* A request that goes on to load an image becomes the call of that image.
LEMMA ThenFits ==
    ASSUME NEW s \in Slots, NEW submit \in BOOLEAN, ThenCaptcha(s, submit), NEW made, NEW tried,
           CallsFit(consoleCalls, made, tried), consoleCalls[s].op \in FormOps, cookie \in 0..Len(made),
           NEW image, ImagesFit(consoleCalls, image), SessionsFit(consoleCalls, cookie), NEW user, NEW met,
           IdentityFit(consoleCalls, cookie, made, user, met)
    PROVE  /\ \E next : IsPut(consoleCalls, s, next, consoleCalls') /\ IsImageCall(next, submit, consoleCalls[s].here)
           /\ CallsFit(consoleCalls', made, tried) /\ ImagesFit(consoleCalls', image)
           /\ SessionsFit(consoleCalls', cookie) /\ IdentityFit(consoleCalls', cookie, made, user, met)
<1>1. PICK common : common = [answer |-> Unanswered, here |-> consoleCalls[s].here, cookie |-> cookie]
    OBVIOUS
<1>2. PICK call : call = [op |-> "captcha", submit |-> submit]
    OBVIOUS
<1>3. PICK next : next = With(common, call)
    OBVIOUS
<1>4. consoleCalls' = [consoleCalls EXCEPT ![s] = next]
    BY <1>1, <1>2, <1>3 DEF ThenCaptcha, CaptchaCall, Here
<1>5. IsPut(consoleCalls, s, next, consoleCalls')
    BY <1>4 DEF CallsFit, IsPut
<1>6. DOMAIN common = {"answer", "here", "cookie"} /\ DOMAIN call = {"op", "submit"}
    BY <1>1, <1>2
<1>7. /\ DOMAIN next = DOMAIN common \cup DOMAIN call
      /\ \A f \in DOMAIN common : next[f] = common[f]
      /\ \A f \in DOMAIN call \ DOMAIN common : next[f] = call[f]
    BY <1>3 DEF With
<1>8. /\ next.answer = Unanswered /\ next.here = consoleCalls[s].here /\ next.cookie = cookie
      /\ next.op = "captcha" /\ next.submit = submit /\ DOMAIN next = {"answer", "here", "cookie", "op", "submit"}
    BY <1>1, <1>2, <1>6, <1>7
<1>9. consoleCalls[s].here \in BOOLEAN /\ consoleCalls[s].op # "logout"
    BY DEF CallsFit, ConsoleCallOK, FormOps, FormRoutes
<1>10. ~Succeeds(next) /\ next.op \notin FormRoutes
    BY <1>8 DEF Succeeds, Unanswered, FormRoutes
<1>11. ConsoleCallOK(next, made, tried)
    BY <1>8, <1>9, <1>10 DEF ConsoleCallOK, IsCall
<1>12. CallsFit(consoleCalls', made, tried)
    BY <1>5, <1>11, PutCalls
<1>13. ImagesFit(consoleCalls', image)
    BY <1>5, <1>10, PutImages
<1>14. SessionsFit(consoleCalls', cookie)
    BY <1>5, <1>8, <1>10, PutSessions
<1>15. IdentityFit(consoleCalls', cookie, made, user, met)
    BY <1>5, <1>8, <1>9, <1>10, PutIdentity
<1>16. IsImageCall(next, submit, consoleCalls[s].here)
    BY <1>8, <1>10 DEF IsImageCall
<1> QED BY <1>5, <1>12, <1>13, <1>14, <1>15, <1>16

\* The load of the board waits for none of the form.
LEMMA FormLoader ==
    ASSUME NEW calls, NEW s \in Slots, calls[s].op \in FormOps, NEW next, NEW after, IsPut(calls, s, next, after),
           NEW state, NEW open, LoaderFit(calls, state, open), state # None => state.loader \in Slots \cup {None}
    PROVE  LoaderFit(after, state, open)
<1>1. state = None \/ state.loader # s
    <2>1. s # None
        BY ConsoleAssumption
    <2>2. calls[s].op \notin {"me", "snapshot"}
        BY DEF FormOps, FormRoutes
    <2> QED BY <2>1, <2>2 DEF LoaderFit, IsLoader
<1> QED BY <1>1, PutLoader

\* Whether it is open comes.
LEMMA LandConfigKeeps ==
    ASSUME ConsoleAssumption, SessionInv, NEW s \in Slots, LandConfig(s)
    PROVE  SessionInv'
<1>1. /\ UNCHANGED <<route, asking, currentUser, board, boardStream, cookie, doors, consoleSteps, crossed>>
      /\ consoleCalls[s].op = "config" /\ consoleCalls[s].op \in FormOps /\ consoleCalls[s].op # "logout"
    BY DEF LandConfig, FormOps
<1>2. PICK call : call = consoleCalls[s]
    OBVIOUS
<1>3. PICK image : image = ImageOf(form)
    OBVIOUS
<1>4. /\ CallsFit(consoleCalls, sessions, captchas) /\ ImagesFit(consoleCalls, image) /\ SessionsFit(consoleCalls, cookie)
      /\ ChainFit(consoleCalls, form, captchas) /\ LoaderFit(consoleCalls, board, boardStream)
      /\ IdentityFit(consoleCalls, cookie, sessions, currentUser, crossed) /\ cookie \in 0..Len(sessions) /\ PageInv
      /\ board # None => board.loader \in Slots \cup {None}
    BY <1>3, LoaderSlots DEF SessionInv, PageInv
<1>5. call.op = "config" /\ ~IsChain(call) /\ ~Tries(call) /\ call.here \in BOOLEAN
    BY <1>1, <1>2, <1>4 DEF IsChain, Tries, FormRoutes, CallsFit, ConsoleCallOK
<1>6. call.here => form # None
    BY <1>1, <1>2, <1>4 DEF ChainFit
<1>7. PICK after : after = consoleCalls'
    OBVIOUS
<1>8. \/ after = End(consoleCalls, s)
      \/ call.here /\ ThenCaptcha(s, FALSE)
    BY <1>2, <1>5, <1>7 DEF LandConfig
<1>9. /\ CallsFit(after, sessions, captchas) /\ ImagesFit(after, image) /\ SessionsFit(after, cookie)
      /\ ChainFit(after, form, captchas) /\ LoaderFit(after, board, boardStream)
      /\ IdentityFit(after, cookie, sessions, currentUser, crossed)
    <2>1. PICK met : met = crossed
        OBVIOUS
    <2>2. IdentityFit(consoleCalls, cookie, sessions, currentUser, met)
        BY <1>4, <2>1
    <2>3. CASE after = End(consoleCalls, s)
        <3>1. /\ IsPut(consoleCalls, s, NoCall, after) /\ CallsFit(after, sessions, captchas)
              /\ ImagesFit(after, image) /\ SessionsFit(after, cookie)
            BY <1>4, <2>3, EndKeeps
        <3>2. IdentityFit(after, cookie, sessions, currentUser, met)
            BY <1>1, <2>2, <3>1, EndIdentity
        <3>3. ChainFit(after, form, captchas)
            BY <1>2, <1>4, <1>5, <3>1, EndAside
        <3>4. LoaderFit(after, board, boardStream)
            BY <1>1, <1>4, <3>1, FormLoader
        <3> QED BY <2>1, <3>1, <3>2, <3>3, <3>4
    <2>4. CASE call.here /\ ThenCaptcha(s, FALSE)
        <3>1. PICK submit : submit = FALSE
            OBVIOUS
        <3>2. submit \in BOOLEAN /\ ThenCaptcha(s, submit)
            BY <2>4, <3>1
        <3>3. /\ \E next : IsPut(consoleCalls, s, next, consoleCalls') /\ IsImageCall(next, submit, consoleCalls[s].here)
              /\ CallsFit(consoleCalls', sessions, captchas) /\ ImagesFit(consoleCalls', image)
              /\ SessionsFit(consoleCalls', cookie) /\ IdentityFit(consoleCalls', cookie, sessions, currentUser, met)
            BY <1>1, <1>4, <2>2, <3>2, ThenFits
        <3>4. PICK next : IsPut(consoleCalls, s, next, after) /\ IsImageCall(next, submit, call.here)
            BY <1>2, <1>7, <3>3
        <3>5. ~IsChain(next) /\ form # None
            BY <1>6, <2>4, <3>1, <3>4 DEF IsImageCall, IsChain
        <3>6. ChainFit(after, form, captchas)
            BY <1>2, <1>4, <1>5, <3>4, <3>5, PutAside
        <3>7. LoaderFit(after, board, boardStream)
            BY <1>1, <1>4, <3>4, FormLoader
        <3> QED BY <1>7, <2>1, <3>3, <3>6, <3>7
    <2> QED BY <1>8, <2>3, <2>4
<1>10. CASE form' = form
    <2>1. PageInv'
        BY <1>1, <1>4, <1>10 DEF PageInv, doors
    <2> QED BY <1>1, <1>3, <1>7, <1>9, <1>10, <2>1 DEF SessionInv, doors
<1>11. CASE form' # form
    <2>1. call.here /\ form # None
        BY <1>2, <1>5, <1>6, <1>11 DEF LandConfig
    <2>2. form \in FormStates
        BY <1>4, <2>1, FormTouched
    <2>3. call.answer.kind = "ok" => call.answer.body \in [open : BOOLEAN]
        BY <1>2, <1>4, <1>5 DEF CallsFit, ConsoleCallOK, Succeeds
    <2>4. /\ form' \in FormStates /\ form'.shown = form.shown /\ form'.submitting = form.submitting
          /\ form'.kept = form.kept /\ form'.typed \in {form.typed, 0}
        <3>1. CASE call.answer.kind # "ok"
            <4>1. form' = [form EXCEPT !.failed = TRUE]
                BY <1>2, <2>1, <3>1 DEF LandConfig
            <4> QED BY <2>2, <4>1 DEF FormStates
        <3>2. CASE call.answer.kind = "ok"
            <4>1. \/ form' = [form EXCEPT !.config = call.answer.body, !.failed = FALSE, !.loading = TRUE, !.typed = 0]
                  \/ form' = [form EXCEPT !.config = call.answer.body, !.failed = FALSE]
                BY <1>2, <2>1, <3>2 DEF LandConfig
            <4>2. PICK body : body = call.answer.body /\ body \in [open : BOOLEAN]
                BY <2>3, <3>2
            <4>3. CASE form' = [form EXCEPT !.config = call.answer.body, !.failed = FALSE]
                <5>1. form' = [form EXCEPT !.config = body, !.failed = FALSE]
                    BY <4>2, <4>3
                <5> QED BY <2>2, <4>2, <5>1 DEF FormStates
            <4>4. CASE form' = [form EXCEPT !.config = call.answer.body, !.failed = FALSE, !.loading = TRUE, !.typed = 0]
                <5>1. form' = [form EXCEPT !.config = body, !.failed = FALSE, !.loading = TRUE, !.typed = 0]
                    BY <4>2, <4>4
                <5> QED BY <2>2, <4>2, <5>1 DEF FormStates
            <4> QED BY <4>1, <4>3, <4>4
        <3> QED BY <3>1, <3>2
    <2>5. form.typed \in 0..Len(captchas) /\ 0 \in 0..Len(captchas)
        BY <1>4, <2>1, LenProperties DEF PageInv
    <2>6. PageInv' /\ ImageOf(form') = ImageOf(form) /\ form' # None
        BY <1>1, <1>4, <2>1, <2>4, <2>5, FormKeeps DEF doors
    <2>7. ChainFit(after, form', captchas)
        <3>1. PICK sheet : sheet = form'
            OBVIOUS
        <3> QED BY <1>9, <2>1, <2>4, <2>6, <3>1, SameSheet
    <2> QED BY <1>1, <1>3, <1>7, <1>9, <2>6, <2>7 DEF SessionInv, doors
<1> QED BY <1>10, <1>11

\* An image comes, which no form has shown.
LEMMA LandCaptchaKeeps ==
    ASSUME ConsoleAssumption, SessionInv, NEW s \in Slots, LandCaptcha(s)
    PROVE  SessionInv'
<1>1. /\ UNCHANGED <<route, asking, currentUser, board, boardStream, cookie, doors, consoleSteps, crossed>>
      /\ consoleCalls[s].op = "captcha" /\ consoleCalls[s].op \in FormOps /\ consoleCalls[s].op # "logout"
    BY DEF LandCaptcha, FormOps
<1>2. PICK call : call = consoleCalls[s]
    OBVIOUS
<1>3. PICK image : image = ImageOf(form)
    OBVIOUS
<1>4. /\ CallsFit(consoleCalls, sessions, captchas) /\ ImagesFit(consoleCalls, image) /\ SessionsFit(consoleCalls, cookie)
      /\ ChainFit(consoleCalls, form, captchas) /\ LoaderFit(consoleCalls, board, boardStream)
      /\ IdentityFit(consoleCalls, cookie, sessions, currentUser, crossed) /\ cookie \in 0..Len(sessions) /\ PageInv
      /\ board # None => board.loader \in Slots \cup {None}
    BY <1>3, LoaderSlots DEF SessionInv, PageInv
<1>5. call.op = "captcha" /\ call.here \in BOOLEAN /\ call.submit \in BOOLEAN /\ ConsoleCallOK(call, sessions, captchas)
    BY <1>1, <1>2, <1>4 DEF CallsFit, ConsoleCallOK
<1>6. call.here => form # None
    BY <1>1, <1>2, <1>4 DEF ChainFit
<1>7. PICK after : after = End(consoleCalls, s)
    OBVIOUS
<1>8. consoleCalls' = after
    BY <1>7 DEF LandCaptcha
<1>9. /\ IsPut(consoleCalls, s, NoCall, after) /\ CallsFit(after, sessions, captchas)
      /\ ImagesFit(after, image) /\ SessionsFit(after, cookie)
    BY <1>4, <1>7, EndKeeps
<1>10. IdentityFit(after, cookie, sessions, currentUser, crossed)
    <2>1. PICK met : met = crossed
        OBVIOUS
    <2>2. IdentityFit(after, cookie, sessions, currentUser, met)
        BY <1>1, <1>4, <1>9, <2>1, EndIdentity
    <2> QED BY <2>1, <2>2
<1>11. LoaderFit(after, board, boardStream)
    BY <1>1, <1>4, <1>9, FormLoader
<1>12. CASE ~call.here
    <2>1. form' = form
        BY <1>2, <1>12 DEF LandCaptcha
    <2>2. PageInv'
        BY <1>1, <1>4, <2>1 DEF PageInv, doors
    <2>3. ~Tries(call)
        BY <1>12 DEF Tries, IsChain
    <2>4. ChainFit(after, form, captchas)
        BY <1>2, <1>4, <1>9, <2>3, EndAside
    <2> QED BY <1>1, <1>3, <1>8, <1>9, <1>10, <1>11, <2>1, <2>2, <2>4 DEF SessionInv, doors
<1>13. CASE call.here
    <2>1. PICK next : next = IF call.answer.kind = "ok" THEN call.answer.body ELSE 0
        OBVIOUS
    <2>2. form' = [form EXCEPT !.shown = next, !.kept = FALSE, !.loading = FALSE,
                               !.submitting = IF call.submit THEN FALSE ELSE form.submitting]
        BY <1>2, <1>13, <2>1 DEF LandCaptcha
    <2>3. form \in FormStates /\ form # None
        BY <1>4, <1>6, <1>13, FormTouched
    <2>4. Len(captchas) \in Nat
        BY <1>4, LenProperties DEF PageInv
    <2>5. /\ next \in 0..Len(captchas) /\ next \in Nat
          /\ next # 0 => captchas[next] = "open"
        <3>1. CASE call.answer.kind = "ok"
            BY <1>5, <2>1, <2>4, <3>1 DEF ConsoleCallOK, Succeeds
        <3>2. CASE call.answer.kind # "ok"
            BY <2>1, <2>4, <3>2
        <3> QED BY <3>1, <3>2
    <2>6. /\ form' \in FormStates /\ form'.shown = next /\ form'.typed = form.typed
          /\ form'.submitting = IF call.submit THEN FALSE ELSE form.submitting
        <3>1. PICK submitting : submitting = IF call.submit THEN FALSE ELSE form.submitting
            OBVIOUS
        <3>2. submitting \in BOOLEAN
            BY <2>3, <3>1 DEF FormStates
        <3>3. form' = [form EXCEPT !.shown = next, !.kept = FALSE, !.loading = FALSE, !.submitting = submitting]
            BY <2>2, <3>1
        <3> QED BY <2>3, <2>5, <3>1, <3>2, <3>3 DEF FormStates
    <2>7. form' # None /\ ImageOf(form') = next
        BY <2>6 DEF ConsoleAssumption, ImageOf
    <2>8. PageInv'
        <3>1. route \in FormRoutes /\ form.typed \in 0..Len(captchas)
            BY <1>4, <2>3 DEF PageInv
        <3> QED BY <1>1, <1>4, <2>5, <2>6, <3>1 DEF PageInv, doors
    <2>9. ImagesFit(after, next)
        <3>1. \A t \in Slots : ImageFits(after[t], next)
            <4>1. ASSUME NEW t \in Slots
                  PROVE  ImageFits(after[t], next)
                <5>1. CASE t = s
                    BY <1>9, <5>1, NoCallFits DEF IsPut, ImageFits
                <5>2. CASE t # s
                    <6>1. after[t] = consoleCalls[t]
                        BY <1>9, <5>2 DEF IsPut
                    <6>2. ImageApart(call, consoleCalls[t]) /\ ImageApart(consoleCalls[t], call) /\ ConsoleCallOK(consoleCalls[t], sessions, captchas)
                        BY <1>2, <1>4, <5>2 DEF ImagesFit, CallsFit
                    <6> QED BY <1>5, <2>1, <5>2, <6>1, <6>2 DEF ImageApart, ImageFits, ConsoleCallOK, Succeeds
                <5> QED BY <5>1, <5>2
            <4> QED BY <4>1
        <3> QED BY <1>9, <3>1 DEF ImagesFit
    <2>10. ChainFit(after, form', captchas)
        <3>1. \A t \in Slots : IsChain(after[t]) => t # s /\ IsChain(consoleCalls[t])
            BY <1>9, NoCallFits DEF IsPut
        <3>2. ~IsSpent(form', captchas)
            BY <2>5, <2>6 DEF IsSpent
        <3>3. \A t \in Slots : IsChain(after[t]) => form'.submitting
            <4>1. call.submit => IsChain(call)
                BY <1>5, <1>13 DEF IsChain
            <4>2. \A t \in Slots : IsChain(after[t]) => ~call.submit /\ form.submitting
                BY <1>2, <1>4, <3>1, <4>1 DEF ChainFit
            <4> QED BY <2>6, <4>2
        <3>4. \A t, u \in Slots : IsChain(after[t]) /\ IsChain(after[u]) => t = u
            BY <1>4, <3>1 DEF ChainFit
        <3> QED BY <2>7, <3>2, <3>3, <3>4 DEF ChainFit
    <2> QED BY <1>1, <1>8, <1>9, <1>10, <1>11, <2>7, <2>8, <2>9, <2>10 DEF SessionInv, doors
<1> QED BY <1>5, <1>12, <1>13

\* What every step finds of the calls.
LEMMA CallsFound ==
    ASSUME SessionInv
    PROVE  /\ CallsFit(consoleCalls, sessions, captchas) /\ ImagesFit(consoleCalls, ImageOf(form))
           /\ SessionsFit(consoleCalls, cookie)
           /\ ChainFit(consoleCalls, form, captchas) /\ LoaderFit(consoleCalls, board, boardStream)
           /\ IdentityFit(consoleCalls, cookie, sessions, currentUser, crossed) /\ PageInv
           /\ cookie \in 0..Len(sessions) /\ route \in Routes /\ currentUser \in Roles \cup {None}
           /\ board # None => board.loader \in Slots \cup {None}
           /\ Len(sessions) \in Nat /\ Len(captchas) \in Nat
<1>1. PageInv
    BY DEF SessionInv
<1>2. Len(sessions) \in Nat /\ Len(captchas) \in Nat
    BY <1>1, LenProperties DEF PageInv
<1> QED BY <1>1, <1>2, LoaderSlots DEF SessionInv, PageInv

\* The submission is accepted.
LandAccepted(s) ==
    /\ consoleCalls[s].op \in FormRoutes /\ consoleCalls[s].answer.kind = "ok"
    /\ cookie' = consoleCalls[s].answer.body
    /\ currentUser' = sessions[cookie'].role
    /\ Enter(HomeRoute(currentUser'), currentUser')
    /\ consoleCalls' = Left(End(consoleCalls, s))
    /\ crossed' = (crossed \/ Overtakes)
    /\ UNCHANGED doors

\* The form is accepted: its user is shown on the page of his role.
LEMMA AcceptedKeeps ==
    ASSUME ConsoleAssumption, SessionInv, NEW s \in Slots, LandAccepted(s)
    PROVE  SessionInv'
<1>1. PICK call : call = consoleCalls[s]
    OBVIOUS
<1>2. /\ CallsFit(consoleCalls, sessions, captchas) /\ ImagesFit(consoleCalls, ImageOf(form))
      /\ SessionsFit(consoleCalls, cookie)
      /\ ChainFit(consoleCalls, form, captchas) /\ LoaderFit(consoleCalls, board, boardStream)
      /\ IdentityFit(consoleCalls, cookie, sessions, currentUser, crossed) /\ PageInv
      /\ cookie \in 0..Len(sessions) /\ route \in Routes /\ currentUser \in Roles \cup {None}
      /\ board # None => board.loader \in Slots \cup {None}
      /\ Len(sessions) \in Nat /\ Len(captchas) \in Nat
    BY CallsFound
<1>3. call.op \in FormRoutes /\ call.op # "me" /\ call.op # "logout" /\ call.op \in FormOps /\ Succeeds(call)
    BY <1>1 DEF LandAccepted, FormRoutes, FormOps, Succeeds
<1>4. PICK body : body = call.answer.body
    OBVIOUS
<1>5. body \in 1..Len(sessions) /\ sessions[body].live
    BY <1>1, <1>2, <1>3, <1>4 DEF CallsFit, ConsoleCallOK
<1>6. sessions[body] \in [role : Roles, live : BOOLEAN]
    BY <1>2, <1>5, ElementOfSeq DEF PageInv
<1>7. PICK role : role = sessions[body].role
    OBVIOUS
<1>8. /\ role \in Roles /\ Signed(body, sessions, role)
    BY <1>2, <1>5, <1>6, <1>7 DEF Signed
<1>9. PICK r : r = HomeRoute(role)
    OBVIOUS
<1>10. r \in {"admin", "dashboard"} /\ r \in Routes /\ r \notin FormRoutes
    BY <1>8, <1>9 DEF HomeRoute, Roles, Routes, FormRoutes
<1>11. /\ cookie' = body /\ currentUser' = role /\ Enter(r, role) /\ cookie' \in 0..Len(sessions)
       /\ sessions' = sessions /\ captchas' = captchas /\ role \in Roles \cup {None}
    BY <1>1, <1>2, <1>4, <1>5, <1>7, <1>8, <1>9 DEF LandAccepted, doors
<1>12. PICK calls : calls = End(consoleCalls, s)
    OBVIOUS
<1>13. /\ IsPut(consoleCalls, s, NoCall, calls) /\ CallsFit(calls, sessions, captchas)
       /\ ImagesFit(calls, ImageOf(form)) /\ SessionsFit(calls, cookie)
    BY <1>2, <1>12, EndKeeps
<1>14. SessionsFit(calls, body)
    <2>1. ASSUME NEW t \in Slots, calls[t].op \in FormRoutes, Succeeds(calls[t])
          PROVE  calls[t].answer.body # body
        <3>1. t # s /\ calls[t] = consoleCalls[t]
            BY <1>13, <2>1, NoCallFits DEF IsPut
        <3>2. SessionApart(consoleCalls[t], call)
            BY <1>1, <1>2, <3>1 DEF SessionsFit
        <3> QED BY <1>3, <1>4, <2>1, <3>1, <3>2 DEF SessionApart
    <2> QED BY <1>13, <2>1 DEF SessionsFit
<1>15. ASSUME r = route
       PROVE  ChainFit(calls, form, captchas) /\ LoaderFit(calls, board, boardStream)
    <2>1. form = None
        BY <1>2, <1>10, <1>15 DEF PageInv
    <2>2. ~Tries(call)
        BY <1>1, <1>2, <1>3, <2>1 DEF ChainFit, Tries, IsChain
    <2>3. ChainFit(calls, form, captchas)
        BY <1>1, <1>2, <1>13, <2>2, EndAside
    <2>4. LoaderFit(calls, board, boardStream)
        BY <1>1, <1>2, <1>3, <1>13, FormLoader
    <2> QED BY <2>3, <2>4
<1>16. IdentityFit(calls, body, sessions, role, crossed')
    <2>1. \A t \in Slots : calls[t].op = "me" => consoleCalls[t].op = "me"
        BY <1>13, NoCallFits DEF IsPut
    <2>2. ~crossed' => \A t \in Slots : calls[t].op # "me"
        BY <2>1 DEF LandAccepted, Overtakes
    <2> QED BY <1>8, <2>2 DEF IdentityFit
<1>17. consoleCalls' = Left(calls)
    BY <1>12 DEF LandAccepted
<1> QED BY <1>2, <1>10, <1>11, <1>13, <1>14, <1>15, <1>16, <1>17, Entered

\* Another image is asked for.
LandAgain(s) ==
    LET call == consoleCalls[s] IN
    /\ call.op \in FormRoutes /\ call.answer # Unanswered
    /\ call.op = "register" \/ (call.answer.kind = "refused" /\ call.answer.code \in NeedsCaptcha)
    /\ form' = IF ~call.here THEN form
               ELSE [form EXCEPT !.need = @ \/ call.op = "login", !.loading = TRUE, !.typed = 0]
    /\ ThenCaptcha(s, TRUE)
    /\ UNCHANGED <<route, asking, currentUser, board, boardStream, cookie, crossed, doors>>

\* It is refused, and loads another image.
LEMMA AgainKeeps ==
    ASSUME ConsoleAssumption, SessionInv, NEW s \in Slots, LandAgain(s)
    PROVE  SessionInv'
<1>1. PICK call : call = consoleCalls[s]
    OBVIOUS
<1>2. PICK image : image = ImageOf(form)
    OBVIOUS
<1>3. /\ CallsFit(consoleCalls, sessions, captchas) /\ ImagesFit(consoleCalls, image)
      /\ SessionsFit(consoleCalls, cookie)
      /\ ChainFit(consoleCalls, form, captchas) /\ LoaderFit(consoleCalls, board, boardStream)
      /\ IdentityFit(consoleCalls, cookie, sessions, currentUser, crossed) /\ PageInv
      /\ cookie \in 0..Len(sessions)
      /\ board # None => board.loader \in Slots \cup {None}
      /\ Len(captchas) \in Nat
    BY <1>2, CallsFound
<1>4. /\ call.op \in FormRoutes /\ call.op \in FormOps /\ call.here \in BOOLEAN
      /\ UNCHANGED <<route, asking, currentUser, board, boardStream, cookie, crossed, doors>>
    <2>1. call.op \in FormRoutes /\ call.op # "idle"
        BY <1>1 DEF LandAgain, FormRoutes
    <2> QED BY <1>1, <1>3, <2>1 DEF LandAgain, FormOps, CallsFit, ConsoleCallOK
<1>5. PICK submit : submit = TRUE
    OBVIOUS
<1>6. submit \in BOOLEAN /\ ThenCaptcha(s, submit)
    BY <1>5 DEF LandAgain
<1>7. PICK met : met = crossed
    OBVIOUS
<1>8. PICK after : after = consoleCalls'
    OBVIOUS
<1>9. /\ \E next : IsPut(consoleCalls, s, next, consoleCalls') /\ IsImageCall(next, submit, consoleCalls[s].here)
      /\ CallsFit(consoleCalls', sessions, captchas) /\ ImagesFit(consoleCalls', image)
      /\ SessionsFit(consoleCalls', cookie) /\ IdentityFit(consoleCalls', cookie, sessions, currentUser, met)
    <2>1. IdentityFit(consoleCalls, cookie, sessions, currentUser, met)
        BY <1>3, <1>7
    <2> QED BY <1>1, <1>3, <1>4, <1>6, <2>1, ThenFits
<1>10. PICK next : IsPut(consoleCalls, s, next, after) /\ IsImageCall(next, submit, call.here)
    BY <1>1, <1>8, <1>9
<1>11. next.op = "captcha" /\ next.submit = TRUE /\ next.here = call.here
    BY <1>5, <1>10 DEF IsImageCall
<1>12. ChainFit(after, form, captchas)
    <2>1. IsChain(next) => IsChain(call)
        BY <1>4, <1>11 DEF IsChain, FormRoutes
    <2>2. next.op \in FormOps /\ next.here => call.op \in FormOps /\ call.here
        BY <1>4, <1>11
    <2>3. Tries(call) => Tries(next)
        BY <1>11 DEF Tries, IsChain, FormRoutes
    <2> QED BY <1>1, <1>3, <1>10, <2>1, <2>2, <2>3, PutSame
<1>13. LoaderFit(after, board, boardStream)
    BY <1>1, <1>3, <1>4, <1>10, FormLoader
<1>14. CASE ~call.here
    <2>1. form' = form
        BY <1>1, <1>14 DEF LandAgain
    <2>2. PageInv'
        BY <1>3, <1>4, <2>1 DEF PageInv, doors
    <2> QED BY <1>2, <1>4, <1>7, <1>8, <1>9, <1>12, <1>13, <2>1, <2>2 DEF SessionInv, doors
<1>15. CASE call.here
    <2>1. form # None
        BY <1>1, <1>3, <1>4, <1>15 DEF ChainFit
    <2>2. form \in FormStates
        BY <1>3, <2>1, FormTouched
    <2>3. form' = [form EXCEPT !.need = form.need \/ call.op = "login", !.loading = TRUE, !.typed = 0]
        BY <1>1, <1>15 DEF LandAgain
    <2>4. PICK need : need = (form.need \/ call.op = "login")
        OBVIOUS
    <2>5. need \in BOOLEAN /\ form' = [form EXCEPT !.need = need, !.loading = TRUE, !.typed = 0]
        BY <2>2, <2>3, <2>4 DEF FormStates
    <2>6. /\ form' \in FormStates /\ form'.shown = form.shown /\ form'.submitting = form.submitting
          /\ form'.kept = form.kept /\ form'.typed = 0
        BY <2>2, <2>5 DEF FormStates
    <2>7. 0 \in 0..Len(captchas)
        BY <1>3
    <2>8. PageInv' /\ ImageOf(form') = ImageOf(form) /\ form' # None
        BY <1>3, <1>4, <2>1, <2>6, <2>7, FormKeeps DEF doors
    <2>9. ChainFit(after, form', captchas)
        <3>1. PICK sheet : sheet = form'
            OBVIOUS
        <3> QED BY <1>12, <2>1, <2>6, <2>8, <3>1, SameSheet
    <2> QED BY <1>2, <1>4, <1>7, <1>8, <1>9, <1>13, <2>8, <2>9 DEF SessionInv, doors
<1> QED BY <1>4, <1>14, <1>15

\* The form may be sent again as it is.
LandRefused(s) ==
    LET call == consoleCalls[s] IN
    /\ call.op \in FormRoutes /\ call.answer # Unanswered /\ call.answer.kind # "ok"
    /\ ~(call.op = "register" \/ (call.answer.kind = "refused" /\ call.answer.code \in NeedsCaptcha))
    /\ form' = IF ~call.here THEN form
               ELSE [form EXCEPT !.submitting = FALSE, !.kept = @ \/ call.answer.kind = "lost"]
    /\ consoleCalls' = End(consoleCalls, s)
    /\ UNCHANGED <<route, asking, currentUser, board, boardStream, cookie, crossed, doors>>

\* It is refused for a reason that needs no other image.
LEMMA RefusedKeeps ==
    ASSUME ConsoleAssumption, SessionInv, NEW s \in Slots, LandRefused(s)
    PROVE  SessionInv'
<1>1. PICK call : call = consoleCalls[s]
    OBVIOUS
<1>2. PICK image : image = ImageOf(form)
    OBVIOUS
<1>3. /\ CallsFit(consoleCalls, sessions, captchas) /\ ImagesFit(consoleCalls, image)
      /\ SessionsFit(consoleCalls, cookie)
      /\ ChainFit(consoleCalls, form, captchas) /\ LoaderFit(consoleCalls, board, boardStream)
      /\ IdentityFit(consoleCalls, cookie, sessions, currentUser, crossed) /\ PageInv
      /\ cookie \in 0..Len(sessions)
      /\ board # None => board.loader \in Slots \cup {None}
      /\ Len(captchas) \in Nat
    BY <1>2, CallsFound
<1>4. /\ call.op = "login" /\ call.op \in FormRoutes /\ call.op \in FormOps /\ call.op # "logout" /\ call.here \in BOOLEAN
      /\ UNCHANGED <<route, asking, currentUser, board, boardStream, cookie, crossed, doors>>
    <2>1. call.op = "login" /\ call.op \in FormRoutes /\ call.op # "idle"
        BY <1>1 DEF LandRefused, FormRoutes
    <2> QED BY <1>1, <1>3, <2>1 DEF LandRefused, FormOps, CallsFit, ConsoleCallOK
<1>5. PICK after : after = consoleCalls'
    OBVIOUS
<1>6. /\ IsPut(consoleCalls, s, NoCall, after) /\ CallsFit(after, sessions, captchas)
      /\ ImagesFit(after, image) /\ SessionsFit(after, cookie)
    <2>1. after = End(consoleCalls, s)
        BY <1>5 DEF LandRefused
    <2> QED BY <1>3, <2>1, EndKeeps
<1>7. IdentityFit(after, cookie, sessions, currentUser, crossed)
    <2>1. PICK met : met = crossed
        OBVIOUS
    <2>2. IdentityFit(after, cookie, sessions, currentUser, met)
        BY <1>1, <1>3, <1>4, <1>6, <2>1, EndIdentity
    <2> QED BY <2>1, <2>2
<1>8. LoaderFit(after, board, boardStream)
    BY <1>1, <1>3, <1>4, <1>6, FormLoader
<1>9. CASE ~call.here
    <2>1. form' = form
        BY <1>1, <1>9 DEF LandRefused
    <2>2. PageInv'
        BY <1>3, <1>4, <2>1 DEF PageInv, doors
    <2>3. ~Tries(call)
        BY <1>9 DEF Tries, IsChain
    <2>4. ChainFit(after, form, captchas)
        BY <1>1, <1>3, <1>6, <2>3, EndAside
    <2> QED BY <1>2, <1>4, <1>5, <1>6, <1>7, <1>8, <2>1, <2>2, <2>4 DEF SessionInv, doors
<1>10. CASE call.here
    <2>1. form # None
        BY <1>1, <1>3, <1>4, <1>10 DEF ChainFit
    <2>2. form \in FormStates
        BY <1>3, <2>1, FormTouched
    <2>3. form' = [form EXCEPT !.submitting = FALSE, !.kept = form.kept \/ call.answer.kind = "lost"]
        BY <1>1, <1>10 DEF LandRefused
    <2>4. PICK kept : kept = (form.kept \/ call.answer.kind = "lost")
        OBVIOUS
    <2>5. kept \in BOOLEAN /\ form' = [form EXCEPT !.submitting = FALSE, !.kept = kept]
        BY <2>2, <2>3, <2>4 DEF FormStates
    <2>6. /\ form' \in FormStates /\ form'.shown = form.shown /\ form'.kept = kept /\ form'.typed = form.typed
        BY <2>2, <2>5 DEF FormStates
    <2>7. form.typed \in 0..Len(captchas)
        BY <1>3, <2>1 DEF PageInv
    <2>8. PageInv' /\ ImageOf(form') = ImageOf(form) /\ form' # None
        BY <1>3, <1>4, <2>1, <2>6, <2>7, FormKeeps DEF doors
    <2>9. ChainFit(after, form', captchas)
        <3>1. IsChain(call)
            BY <1>4, <1>10 DEF IsChain, FormRoutes
        <3>2. \A t \in Slots : ~IsChain(after[t])
            BY <1>1, <1>3, <1>6, <3>1, NoCallFits DEF IsPut, ChainFit
        <3>3. ASSUME IsSpent(form, captchas), ~form.kept
              PROVE  kept
            <4>1. PICK t \in Slots : Tries(consoleCalls[t])
                BY <1>3, <3>3 DEF ChainFit
            <4>2. t = s
                BY <1>1, <1>3, <3>1, <4>1 DEF ChainFit, Tries
            <4>3. Tries(call)
                BY <1>1, <4>1, <4>2
            <4>4. ~Pardoned(call)
                BY <1>4, <4>3 DEF Tries
            <4>5. call.answer.kind # "refused"
                BY <1>1, <1>4, <4>4 DEF Pardoned, LandRefused
            <4>6. call.answer = Lost
                <5>1. ConsoleCallOK(call, sessions, captchas)
                    BY <1>1, <1>3 DEF CallsFit
                <5> QED BY <1>1, <1>4, <4>5, <5>1 DEF ConsoleCallOK, LandRefused
            <4>7. call.answer.kind = "lost"
                BY <4>6 DEF Lost
            <4> QED BY <2>4, <4>7
        <3>4. IsSpent(form', captchas) => form'.kept
            BY <2>1, <2>4, <2>6, <3>3 DEF IsSpent
        <3> QED BY <2>8, <3>2, <3>4 DEF ChainFit
    <2> QED BY <1>2, <1>4, <1>5, <1>6, <1>7, <1>8, <2>8, <2>9 DEF SessionInv, doors
<1> QED BY <1>4, <1>9, <1>10

\* One of the three ends a submission.
LEMMA LandSubmitKeeps ==
    ASSUME ConsoleAssumption, SessionInv, NEW s \in Slots, LandSubmit(s)
    PROVE  SessionInv'
<1>1. LandAccepted(s) \/ LandAgain(s) \/ LandRefused(s)
    BY DEF LandSubmit, LandAccepted, LandAgain, LandRefused
<1> QED BY <1>1, AcceptedKeeps, AgainKeeps, RefusedKeeps

\* A link or a redirection to another page.
LEMMA LeftKeeps ==
    ASSUME ConsoleAssumption, SessionInv, NEW r \in Routes, r # route, Enter(r, currentUser),
           consoleCalls' = Abandon(consoleCalls), UNCHANGED <<currentUser, cookie, doors, crossed>>
    PROVE  SessionInv'
<1>1. PICK calls : calls = consoleCalls
    OBVIOUS
<1>2. PICK user : user = currentUser
    OBVIOUS
<1>3. /\ CallsFit(calls, sessions, captchas) /\ ImagesFit(calls, ImageOf(form))
      /\ SessionsFit(calls, cookie)
      /\ IdentityFit(calls, cookie, sessions, user, crossed) /\ PageInv
      /\ cookie \in 0..Len(sessions) /\ user \in Roles \cup {None}
    BY <1>1, <1>2, CallsFound
<1>4. route' = r
    BY DEF Enter
<1>5. consoleCalls' = Left(calls)
    BY <1>1, <1>4 DEF Left
<1>6. /\ Enter(r, user) /\ currentUser' = user /\ cookie' \in 0..Len(sessions) /\ sessions' = sessions
      /\ captchas' = captchas /\ SessionsFit(calls, cookie')
    BY <1>2, <1>3 DEF doors
<1>7. IdentityFit(calls, cookie', sessions, user, crossed')
    BY <1>3
<1> QED BY <1>3, <1>5, <1>6, <1>7, Entered

\* The link to the other form.
LEMMA SwitchFormKeeps ==
    ASSUME ConsoleAssumption, SessionInv, SwitchForm
    PROVE  SessionInv'
<1>1. route \in FormRoutes
    BY FormTouched DEF SwitchForm, SessionInv
<1>2. PICK r : r = CHOOSE x \in FormRoutes : x # route
    OBVIOUS
<1>3. \E x \in FormRoutes : x # route
    BY DEF FormRoutes
<1>4. r \in FormRoutes /\ r # route
    BY <1>2, <1>3
<1>5. r \in Routes
    BY <1>4 DEF Routes, FormRoutes
<1>6. Enter(r, currentUser)
    BY <1>2 DEF SwitchForm
<1>7. consoleCalls' = Abandon(consoleCalls) /\ UNCHANGED <<currentUser, cookie, doors, crossed>>
    BY DEF SwitchForm
<1> QED BY <1>4, <1>5, <1>6, <1>7, LeftKeeps

\* An administrator is led from the board to his own page.
LEMMA TurnAwayAdminKeeps ==
    ASSUME ConsoleAssumption, SessionInv, TurnAwayAdmin
    PROVE  SessionInv'
<1>1. PICK r : r = "admin"
    OBVIOUS
<1>2. r \in Routes /\ r # route
    BY <1>1 DEF TurnAwayAdmin, SessionInv, PageInv, Routes
<1>3. Enter(r, currentUser)
    BY <1>1 DEF TurnAwayAdmin
<1>4. consoleCalls' = Abandon(consoleCalls) /\ UNCHANGED <<currentUser, cookie, doors, crossed>>
    BY DEF TurnAwayAdmin
<1> QED BY <1>2, <1>3, <1>4, LeftKeeps

\* A link of the frame is followed.
LEMMA FollowKeeps ==
    ASSUME ConsoleAssumption, SessionInv, NEW r \in Framed, Follow(r)
    PROVE  SessionInv'
<1>1. r \in Routes /\ r # route /\ Enter(r, currentUser)
    BY DEF Follow, Framed, Routes
<1>2. consoleCalls' = Abandon(consoleCalls) /\ UNCHANGED <<currentUser, cookie, doors, crossed>>
    BY DEF Follow
<1> QED BY <1>1, <1>2, LeftKeeps

\* The check of the session is tried again.
LEMMA RetryAuthorizeKeeps ==
    ASSUME SessionInv, RetryAuthorize
    PROVE  SessionInv'
BY DEF RetryAuthorize, SessionInv, PageInv, doors

\* A request about the session changes nothing that is shown.
LEMMA SentMeKeeps ==
    ASSUME ConsoleAssumption, SessionInv, NEW who, SendConsole([op |-> "me", who |-> who]),
           UNCHANGED <<route, currentUser, form, board, boardStream, cookie, doors, crossed>>
    PROVE  SessionInv'
<1>1. PICK call : call = [op |-> "me", who |-> who]
    OBVIOUS
<1>2. DOMAIN call = {"op", "who"} /\ call.op = "me" /\ SendConsole(call)
    BY <1>1
<1>3. PICK image : image = ImageOf(form)
    OBVIOUS
<1>4. PICK after : after = consoleCalls'
    OBVIOUS
<1>5. PICK met : met = crossed
    OBVIOUS
<1>6. /\ CallsFit(consoleCalls, sessions, captchas) /\ ImagesFit(consoleCalls, image)
      /\ SessionsFit(consoleCalls, cookie)
      /\ ChainFit(consoleCalls, form, captchas) /\ LoaderFit(consoleCalls, board, boardStream)
      /\ IdentityFit(consoleCalls, cookie, sessions, currentUser, met) /\ PageInv
      /\ cookie \in 0..Len(sessions)
      /\ board # None => board.loader \in Slots \cup {None}
    BY <1>3, <1>5, CallsFound
<1>7. IsSent(consoleCalls, call, cookie, after)
    BY <1>2, <1>4, <1>6, SentCall DEF CallsFit
<1>8. call.op \notin FormOps
    BY <1>2 DEF FormOps, FormRoutes
<1>9. /\ CallsFit(after, sessions, captchas) /\ ImagesFit(after, image) /\ SessionsFit(after, cookie)
      /\ ChainFit(after, form, captchas) /\ IdentityFit(after, cookie, sessions, currentUser, met)
    <2>1. PICK sheet : sheet = form
        OBVIOUS
    <2>2. ChainFit(consoleCalls, sheet, captchas)
        BY <1>6, <2>1
    <2>3. PICK made : made = sessions
        OBVIOUS
    <2>4. PICK tried : tried = captchas
        OBVIOUS
    <2>5. /\ CallsFit(consoleCalls, made, tried) /\ cookie \in 0..Len(made)
          /\ IdentityFit(consoleCalls, cookie, made, currentUser, met) /\ ChainFit(consoleCalls, sheet, tried)
        BY <1>6, <2>2, <2>3, <2>4
    <2>6. /\ CallsFit(after, made, tried) /\ ImagesFit(after, image) /\ SessionsFit(after, cookie)
          /\ ChainFit(after, sheet, tried) /\ IdentityFit(after, cookie, made, currentUser, met)
        BY <1>2, <1>6, <1>7, <1>8, <2>5, SentFits
    <2> QED BY <2>1, <2>3, <2>4, <2>6
<1>10. LoaderFit(after, board, boardStream)
    BY <1>6, <1>7, SentLoader
<1>11. PageInv'
    BY <1>6 DEF PageInv, doors
<1> QED BY <1>3, <1>4, <1>5, <1>9, <1>10, <1>11 DEF SessionInv, doors

\* The board asks who is signed in.
LEMMA AuthorizeKeeps ==
    ASSUME ConsoleAssumption, SessionInv, Authorize
    PROVE  SessionInv'
<1>1. UNCHANGED <<currentUser, cookie, doors, crossed>>
    BY DEF Authorize
<1>2. CASE currentUser = None \/ route = "home"
    <2>1. SendConsole([op |-> "me", who |-> route]) /\ UNCHANGED <<route, form, board, boardStream>>
        BY <1>2 DEF Authorize
    <2>2. PICK who : who = route
        OBVIOUS
    <2>3. SendConsole([op |-> "me", who |-> who])
        BY <2>1, <2>2
    <2> QED BY <1>1, <2>1, <2>3, SentMeKeeps
<1>3. CASE ~(currentUser = None \/ route = "home")
    <2>1. consoleCalls' = consoleCalls
        BY <1>3 DEF Authorize
    <2>2. CASE route = "admin" /\ currentUser # "admin"
        <3>1. route' = "dashboard" /\ board' = FreshBoard /\ form' = form /\ boardStream' = boardStream
            BY <1>3, <2>2 DEF Authorize
        <3>2. PageInv /\ board = None /\ form = None
            BY <2>2 DEF SessionInv, PageInv, FormRoutes
        <3>3. FreshBoard \in BoardStates /\ FreshBoard.loader = None
            BY DEF FreshBoard, BoardStates
        <3>4. PageInv'
            BY <1>1, <3>1, <3>2, <3>3 DEF PageInv, doors, FormRoutes, Routes
        <3>5. LoaderFit(consoleCalls, board', boardStream')
            BY <3>1, <3>2, <3>3 DEF SessionInv, LoaderFit
        <3> QED BY <1>1, <2>1, <3>1, <3>4, <3>5 DEF SessionInv, doors
    <2>3. CASE ~(route = "admin" /\ currentUser # "admin")
        <3>1. UNCHANGED <<route, form, board, boardStream>>
            BY <1>3, <2>3 DEF Authorize
        <3> QED BY <1>1, <2>1, <3>1 DEF SessionInv, PageInv, doors
    <2> QED BY <2>2, <2>3
<1> QED BY <1>2, <1>3

\* The board asks for its piles.
LEMMA LoadBoardKeeps ==
    ASSUME ConsoleAssumption, SessionInv, LoadBoard
    PROVE  SessionInv'
<1>1. /\ UNCHANGED <<route, asking, currentUser, form, boardStream, cookie, doors, crossed>>
      /\ board # None /\ currentUser # "admin"
    BY DEF LoadBoard
<1>2. PICK call : call = [op |-> IF currentUser = None THEN "me" ELSE "snapshot", who |-> "board"]
    OBVIOUS
<1>3. /\ DOMAIN call = {"op", "who"} /\ call.op = (IF currentUser = None THEN "me" ELSE "snapshot")
      /\ call.who = "board" /\ SendConsole(call)
    BY <1>2 DEF LoadBoard
<1>4. PICK image : image = ImageOf(form)
    OBVIOUS
<1>5. PICK after : after = consoleCalls'
    OBVIOUS
<1>6. PICK met : met = crossed
    OBVIOUS
<1>7. /\ CallsFit(consoleCalls, sessions, captchas) /\ ImagesFit(consoleCalls, image)
      /\ SessionsFit(consoleCalls, cookie)
      /\ ChainFit(consoleCalls, form, captchas) /\ LoaderFit(consoleCalls, board, boardStream)
      /\ IdentityFit(consoleCalls, cookie, sessions, currentUser, met) /\ PageInv
      /\ cookie \in 0..Len(sessions) /\ currentUser \in Roles \cup {None}
      /\ board # None => board.loader \in Slots \cup {None}
    BY <1>4, <1>6, CallsFound
<1>8. IsSent(consoleCalls, call, cookie, after)
    BY <1>3, <1>5, <1>7, SentCall DEF CallsFit
<1>9. call.op \in {"me", "snapshot"} /\ call.op \notin FormOps
    BY <1>3 DEF FormOps, FormRoutes
<1>10. /\ CallsFit(after, sessions, captchas) /\ ImagesFit(after, image) /\ SessionsFit(after, cookie)
       /\ ChainFit(after, form, captchas) /\ IdentityFit(after, cookie, sessions, currentUser, met)
    <2>1. PICK sheet : sheet = form
        OBVIOUS
    <2>2. PICK made : made = sessions
        OBVIOUS
    <2>3. PICK tried : tried = captchas
        OBVIOUS
    <2>4. /\ CallsFit(consoleCalls, made, tried) /\ cookie \in 0..Len(made)
          /\ IdentityFit(consoleCalls, cookie, made, currentUser, met) /\ ChainFit(consoleCalls, sheet, tried)
        BY <1>7, <2>1, <2>2, <2>3
    <2>5. /\ CallsFit(after, made, tried) /\ ImagesFit(after, image) /\ SessionsFit(after, cookie)
          /\ ChainFit(after, sheet, tried) /\ IdentityFit(after, cookie, made, currentUser, met)
        BY <1>3, <1>7, <1>8, <1>9, <2>4, SentFits
    <2> QED BY <2>1, <2>2, <2>3, <2>5
<1>11. PICK s : s = NextSlot(consoleCalls)
    OBVIOUS
<1>12. PICK next : /\ IsPut(consoleCalls, s, next, after) /\ DOMAIN next = DOMAIN call \cup {"answer", "here", "cookie"}
                   /\ \A f \in DOMAIN call : next[f] = call[f]
                   /\ next.answer = Unanswered /\ next.here = TRUE /\ next.cookie = cookie
    BY <1>8, <1>11 DEF IsSent
<1>13. s \in Slots
    BY <1>8, <1>11 DEF IsSent
<1>14. board \in BoardStates
    BY <1>1, <1>7 DEF PageInv
<1>15. PICK authorized : authorized = (board.authorized \/ currentUser = "user")
    OBVIOUS
<1>16. board' = [board EXCEPT !.started = TRUE, !.loader = s, !.error = FALSE, !.authorized = authorized]
    BY <1>11, <1>15 DEF LoadBoard
<1>17. /\ board' \in BoardStates /\ board'.loader = s /\ board'.authorized = authorized
       /\ authorized \in BOOLEAN
    BY <1>13, <1>14, <1>15, <1>16 DEF BoardStates
<1>18. board' # None
    BY <1>17 DEF ConsoleAssumption
<1>19. PageInv'
    BY <1>1, <1>7, <1>17 DEF PageInv, doors
<1>20. IsLoader(next, board')
    <2>1. next.op = call.op /\ next.who = "board"
        BY <1>3, <1>12
    <2>2. call.op = "snapshot" => authorized
        BY <1>1, <1>3, <1>7, <1>15 DEF Roles
    <2> QED BY <1>9, <1>12, <1>17, <2>1, <2>2 DEF IsLoader
<1>21. LoaderFit(after, board', boardStream')
    <2>1. after[s] = next
        BY <1>12 DEF IsPut
    <2>2. boardStream' => board'.authorized
        BY <1>1, <1>7, <1>15, <1>17 DEF LoaderFit
    <2> QED BY <1>17, <1>18, <1>20, <2>1, <2>2 DEF LoaderFit
<1> QED BY <1>1, <1>4, <1>5, <1>6, <1>10, <1>19, <1>21 DEF SessionInv, doors

\* A handler that ends and is no submission of the form.
LEMMA EndedQuiet ==
    ASSUME SessionInv, NEW s \in Slots, consoleCalls[s].op \in {"me", "snapshot", "logout"},
           NEW ends, ends = End(consoleCalls, s)
    PROVE  /\ IsPut(consoleCalls, s, NoCall, ends) /\ CallsFit(ends, sessions, captchas)
           /\ ImagesFit(ends, ImageOf(form)) /\ SessionsFit(ends, cookie) /\ ChainFit(ends, form, captchas)
           /\ consoleCalls[s].op # "logout" => IdentityFit(ends, cookie, sessions, currentUser, crossed)
           /\ board = None \/ board.loader # s => LoaderFit(ends, board, boardStream)
<1>1. PICK image : image = ImageOf(form)
    OBVIOUS
<1>2. PICK met : met = crossed
    OBVIOUS
<1>3. PICK open : open = boardStream
    OBVIOUS
<1>4. /\ CallsFit(consoleCalls, sessions, captchas) /\ ImagesFit(consoleCalls, image)
      /\ SessionsFit(consoleCalls, cookie)
      /\ ChainFit(consoleCalls, form, captchas) /\ LoaderFit(consoleCalls, board, open)
      /\ IdentityFit(consoleCalls, cookie, sessions, currentUser, met)
      /\ board # None => board.loader \in Slots \cup {None}
    BY <1>1, <1>2, <1>3, CallsFound
<1>5. /\ IsPut(consoleCalls, s, NoCall, ends) /\ CallsFit(ends, sessions, captchas)
      /\ ImagesFit(ends, image) /\ SessionsFit(ends, cookie)
    BY <1>4, EndKeeps
<1>6. ~Tries(consoleCalls[s])
    BY DEF Tries, IsChain, FormRoutes
<1>7. ChainFit(ends, form, captchas)
    BY <1>4, <1>5, <1>6, EndAside
<1>8. ASSUME consoleCalls[s].op # "logout"
      PROVE  IdentityFit(ends, cookie, sessions, currentUser, met)
    BY <1>4, <1>5, <1>8, EndIdentity
<1>9. ASSUME board = None \/ board.loader # s
      PROVE  LoaderFit(ends, board, open)
    BY <1>4, <1>5, <1>9, EndLoader
<1> QED BY <1>1, <1>2, <1>3, <1>5, <1>7, <1>8, <1>9

\* No one may always be shown.
LEMMA NobodyFits ==
    ASSUME NEW calls, NEW jar, NEW made, NEW user, NEW met, IdentityFit(calls, jar, made, user, met)
    PROVE  IdentityFit(calls, jar, made, None, met)
BY DEF IdentityFit

\* Whom an answer shows is who is signed in.
LEMMA ToldFits ==
    ASSUME NEW calls, NEW s \in Slots, calls[s].op = "me", Succeeds(calls[s]), NEW ends, IsPut(calls, s, NoCall, ends),
           NEW jar, NEW made, NEW user, NEW met, IdentityFit(calls, jar, made, user, met),
           IdentityFit(ends, jar, made, user, met)
    PROVE  IdentityFit(ends, jar, made, calls[s].answer.body, met)
<1>1. ASSUME \A t \in Slots : ends[t].op # "logout"
      PROVE  \A t \in Slots : calls[t].op # "logout"
    BY <1>1 DEF IsPut
<1> QED BY <1>1 DEF IdentityFit

\* The call the board waits for is heard by the board.
LEMMA LoaderIsCurrent ==
    ASSUME SessionInv, NEW s \in Slots, board # None, board.loader = s
    PROVE  IsCurrent(s) /\ consoleCalls[s].who = "board"
<1>1. s # None
    BY ConsoleAssumption
<1> QED BY <1>1 DEF SessionInv, LoaderFit, IsLoader, IsCurrent, Here

\* Who is signed in comes.
LEMMA LandMeOk ==
    ASSUME ConsoleAssumption, SessionInv, NEW s \in Slots, LandMe(s), consoleCalls[s].answer.kind = "ok"
    PROVE  SessionInv'
<1>1. PICK call : call = consoleCalls[s]
    OBVIOUS
<1>2. PICK ends : ends = End(consoleCalls, s)
    OBVIOUS
<1>3. PICK user : user = call.answer.body
    OBVIOUS
<1>4. call.op = "me" /\ Succeeds(call) /\ UNCHANGED <<cookie, sessions, captchas, crossed>> /\ currentUser' = user
    BY <1>1, <1>3 DEF LandMe, Succeeds, doors
<1>5. user \in Roles /\ user \in Roles \cup {None}
    BY <1>1, <1>3, <1>4, CallsFound DEF CallsFit, ConsoleCallOK
<1>6. /\ IsPut(consoleCalls, s, NoCall, ends) /\ CallsFit(ends, sessions, captchas)
      /\ ImagesFit(ends, ImageOf(form)) /\ SessionsFit(ends, cookie) /\ ChainFit(ends, form, captchas)
      /\ IdentityFit(ends, cookie, sessions, currentUser, crossed)
      /\ board = None \/ board.loader # s => LoaderFit(ends, board, boardStream)
    BY <1>1, <1>2, <1>4, EndedQuiet
<1>7. IdentityFit(ends, cookie, sessions, user, crossed)
    <2>1. PICK met : met = crossed
        OBVIOUS
    <2>2. IdentityFit(consoleCalls, cookie, sessions, currentUser, met)
        BY <2>1, CallsFound
    <2>3. IdentityFit(ends, cookie, sessions, currentUser, met)
        BY <1>6, <2>1
    <2>4. IdentityFit(ends, cookie, sessions, user, met)
        BY <1>1, <1>3, <1>4, <1>6, <2>2, <2>3, ToldFits
    <2> QED BY <2>1, <2>4
<1>8. IdentityFit(ends, cookie', sessions, user, crossed') /\ SessionsFit(ends, cookie')
    BY <1>4, <1>6, <1>7
<1>9. PageInv /\ cookie' \in 0..Len(sessions) /\ route \in Routes
    BY <1>4, CallsFound
<1>10. CASE call.who = "board" /\ ~IsCurrent(s)
    <2>1. Enter(route, user) /\ consoleCalls' = ends
        BY <1>1, <1>2, <1>4, <1>10 DEF LandMe
    <2>2. PICK r : r = route
        OBVIOUS
    <2>3. r \in Routes /\ Enter(r, user)
        BY <1>9, <2>1, <2>2
    <2>4. route' = route
        BY <2>1 DEF Enter
    <2>5. consoleCalls' = Left(ends)
        BY <2>1, <2>4 DEF Left
    <2>6. LoaderFit(ends, board, boardStream)
        BY <1>6, <1>10, LoaderIsCurrent
    <2> QED BY <1>4, <1>5, <1>6, <1>8, <1>9, <2>3, <2>5, <2>6, Entered
<1>11. CASE call.who = "board" /\ IsCurrent(s) /\ user = "user"
    <2>1. /\ board' = [board EXCEPT !.authorized = TRUE]
          /\ consoleCalls' = [consoleCalls EXCEPT ![s].op = "snapshot", ![s].answer = Unanswered, ![s].cookie = cookie]
          /\ UNCHANGED <<route, asking, form, boardStream>>
        <3>1. \/ call.who = "board" /\ ~IsCurrent(s) /\ Enter(route, user) /\ consoleCalls' = ends
              \/ /\ board' = [board EXCEPT !.authorized = TRUE]
                 /\ consoleCalls' = [consoleCalls EXCEPT ![s].op = "snapshot", ![s].answer = Unanswered, ![s].cookie = cookie]
                 /\ UNCHANGED <<route, asking, form, boardStream>>
            BY <1>1, <1>2, <1>4, <1>11 DEF LandMe
        <3> QED BY <1>11, <3>1
    <2>2. board # None /\ board.loader = s /\ call.here
        BY <1>1, <1>11 DEF IsCurrent, Here
    <2>3. board \in BoardStates
        BY <1>9, <2>2 DEF PageInv
    <2>4. board' \in BoardStates /\ board'.loader = s /\ board'.authorized = TRUE
        BY <2>1, <2>2, <2>3 DEF BoardStates
    <2>5. PageInv'
        BY <1>4, <1>5, <1>9, <1>11, <2>1, <2>2, <2>4 DEF PageInv
    <2>6. PICK next : next = [call EXCEPT !.op = "snapshot", !.answer = Unanswered, !.cookie = cookie]
        OBVIOUS
    <2>7. PICK after : after = consoleCalls'
        OBVIOUS
    <2>8. DOMAIN consoleCalls = Slots /\ ConsoleCallOK(call, sessions, captchas)
        BY <1>1, CallsFound DEF CallsFit
    <2>9. IsPut(consoleCalls, s, next, after)
        BY <1>1, <2>1, <2>6, <2>7, <2>8 DEF IsPut
    <2>10. /\ DOMAIN next = DOMAIN call /\ next.op = "snapshot" /\ next.answer = Unanswered /\ next.cookie = cookie
           /\ next.here = call.here /\ next.who = call.who /\ {"op", "answer", "here", "cookie", "who"} \subseteq DOMAIN call
        BY <1>4, <2>6, <2>8 DEF ConsoleCallOK, IsCall
    <2>11. next.op \notin FormRoutes /\ next.op \notin FormOps /\ ~IsChain(next) /\ ~Succeeds(next) /\ ~Tries(call)
        BY <1>4, <2>10 DEF FormRoutes, FormOps, IsChain, Tries, Succeeds, Unanswered
    <2>12. ConsoleCallOK(next, sessions, captchas)
        BY <1>4, <1>9, <2>8, <2>10, <2>11 DEF ConsoleCallOK, IsCall
    <2>13. CallsFit(after, sessions, captchas)
        BY <2>9, <2>12, CallsFound, PutCalls
    <2>14. ImagesFit(after, ImageOf(form))
        <3>1. PICK image : image = ImageOf(form)
            OBVIOUS
        <3>2. ImagesFit(consoleCalls, image)
            BY <3>1, CallsFound
        <3>3. ImagesFit(after, image)
            BY <2>9, <2>10, <2>11, <3>2, PutImages
        <3> QED BY <3>1, <3>3
    <2>15. SessionsFit(after, cookie)
        <3>1. SessionsFit(consoleCalls, cookie)
            BY CallsFound
        <3> QED BY <2>9, <2>10, <2>11, <3>1, PutSessions
    <2>16. ChainFit(after, form, captchas)
        <3>1. ChainFit(consoleCalls, form, captchas)
            BY CallsFound
        <3> QED BY <1>1, <2>9, <2>11, <3>1, PutAside
    <2>17. LoaderFit(after, board', boardStream')
        <3>1. after[s] = next
            BY <2>9 DEF IsPut
        <3>2. board' # None
            BY <2>4 DEF ConsoleAssumption
        <3>3. IsLoader(next, board')
            BY <1>11, <2>2, <2>4, <2>10 DEF IsLoader
        <3> QED BY <2>4, <3>1, <3>2, <3>3 DEF LoaderFit
    <2>18. IdentityFit(after, cookie, sessions, user, crossed)
        <3>1. PICK met : met = crossed
            OBVIOUS
        <3>2. IdentityFit(ends, cookie, sessions, user, met)
            BY <1>7, <3>1
        <3>3. IsPut(ends, s, next, after)
            BY <1>6, <2>9 DEF IsPut
        <3>4. ends[s].op # "logout"
            BY <1>6, NoCallFits DEF IsPut
        <3>5. IdentityFit(after, cookie, sessions, user, met)
            BY <2>10, <3>2, <3>3, <3>4, PutIdentity
        <3> QED BY <3>1, <3>5
    <2> QED BY <1>4, <2>1, <2>5, <2>7, <2>13, <2>14, <2>15, <2>16, <2>17, <2>18 DEF SessionInv
<1>12. CASE ~(call.who = "board" /\ ~IsCurrent(s)) /\ ~(call.who = "board" /\ IsCurrent(s) /\ user = "user")
    <2>1. PICK r : r = IF call.who = "account" THEN route
                       ELSE IF call.who = "admin" /\ user = "admin" THEN route ELSE HomeRoute(user)
        OBVIOUS
    <2>2. Enter(r, user) /\ consoleCalls' = Left(ends)
        BY <1>1, <1>2, <1>4, <1>12, <2>1 DEF LandMe
    <2>3. r \in Routes
        BY <1>5, <1>9, <2>1 DEF HomeRoute, Routes, Roles
    <2>4. ASSUME r = route
          PROVE  board = None \/ board.loader # s
        <3>1. SUFFICES ASSUME board # None, board.loader = s
                       PROVE  FALSE
            OBVIOUS
        <3>2. call.who = "board" /\ user = "admin"
            BY <1>1, <1>5, <1>12, <3>1, LoaderIsCurrent DEF Roles
        <3>3. r = "admin"
            BY <2>1, <3>2 DEF HomeRoute
        <3> QED BY <1>9, <2>4, <3>1, <3>3 DEF PageInv
    <2> QED BY <1>4, <1>5, <1>6, <1>8, <1>9, <2>2, <2>3, <2>4, Entered
<1> QED BY <1>10, <1>11, <1>12

\* No one is.
LEMMA LandMeRefused ==
    ASSUME ConsoleAssumption, SessionInv, NEW s \in Slots, LandMe(s), consoleCalls[s].answer.kind = "refused"
    PROVE  SessionInv'
<1>1. PICK ends : ends = End(consoleCalls, s)
    OBVIOUS
<1>2. consoleCalls[s].op = "me" /\ UNCHANGED <<cookie, sessions, captchas, crossed>>
    BY DEF LandMe, doors
<1>3. /\ IsPut(consoleCalls, s, NoCall, ends) /\ CallsFit(ends, sessions, captchas)
      /\ ImagesFit(ends, ImageOf(form)) /\ SessionsFit(ends, cookie) /\ ChainFit(ends, form, captchas)
      /\ IdentityFit(ends, cookie, sessions, currentUser, crossed)
      /\ board = None \/ board.loader # s => LoaderFit(ends, board, boardStream)
    BY <1>1, <1>2, EndedQuiet
<1>4. IdentityFit(ends, cookie, sessions, None, crossed)
    <2>1. PICK met : met = crossed
        OBVIOUS
    <2>2. IdentityFit(ends, cookie, sessions, None, met)
        BY <1>3, <2>1, NobodyFits
    <2> QED BY <2>1, <2>2
<1>5. PageInv /\ cookie \in 0..Len(sessions)
    BY CallsFound
<1>6. route \notin {"dashboard", "account"} => board = None
    BY <1>5 DEF PageInv
<1>7. CASE Expired(ends, cookie)
    <2>1. PICK jar : jar = cookie
        OBVIOUS
    <2>2. /\ jar \in 0..Len(sessions) /\ cookie' = jar /\ SessionsFit(ends, jar) /\ Expired(ends, jar)
          /\ IdentityFit(ends, jar, sessions, None, crossed')
        BY <1>2, <1>3, <1>4, <1>5, <1>7, <2>1
    <2> QED BY <1>2, <1>3, <1>5, <1>6, <2>2, ExpiredKeeps
<1>8. CASE ~Expired(ends, cookie)
    <2>1. /\ route \notin Framed /\ ~IsCurrent(s) /\ currentUser' = None /\ consoleCalls' = ends
          /\ UNCHANGED <<route, asking, form, board, boardStream>>
        BY <1>1, <1>8 DEF LandMe
    <2>2. board = None
        BY <1>6, <2>1 DEF Framed
    <2>3. PageInv'
        BY <1>2, <1>5, <2>1, <2>2 DEF PageInv
    <2>4. LoaderFit(ends, board, boardStream)
        BY <1>3, <2>2
    <2> QED BY <1>2, <1>3, <1>4, <2>1, <2>3, <2>4 DEF SessionInv
<1> QED BY <1>7, <1>8

\* The answer is lost, and the board offers another try.
LEMMA LandMeLost ==
    ASSUME ConsoleAssumption, SessionInv, NEW s \in Slots, LandMe(s), consoleCalls[s].answer.kind = "lost"
    PROVE  SessionInv'
<1>1. PICK ends : ends = End(consoleCalls, s)
    OBVIOUS
<1>2. /\ consoleCalls[s].op = "me" /\ UNCHANGED <<cookie, sessions, captchas, crossed>> /\ consoleCalls' = ends
      /\ UNCHANGED <<route, asking, currentUser, form, boardStream>>
    BY <1>1 DEF LandMe, doors
<1>3. /\ IsPut(consoleCalls, s, NoCall, ends) /\ CallsFit(ends, sessions, captchas)
      /\ ImagesFit(ends, ImageOf(form)) /\ SessionsFit(ends, cookie) /\ ChainFit(ends, form, captchas)
      /\ IdentityFit(ends, cookie, sessions, currentUser, crossed)
      /\ board = None \/ board.loader # s => LoaderFit(ends, board, boardStream)
    BY <1>1, <1>2, EndedQuiet
<1>4. PageInv /\ LoaderFit(consoleCalls, board, boardStream)
    BY CallsFound
<1>5. CASE board = None \/ board.loader # s
    <2>1. board' = board
        BY <1>5 DEF LandMe, IsCurrent
    <2>2. PageInv'
        BY <1>2, <1>4, <2>1 DEF PageInv
    <2> QED BY <1>2, <1>3, <1>5, <2>1, <2>2 DEF SessionInv
<1>6. CASE board # None /\ board.loader = s
    <2>1. board' = [board EXCEPT !.loader = None, !.error = TRUE]
        BY <1>6, LoaderIsCurrent DEF LandMe
    <2>2. board \in BoardStates
        BY <1>4, <1>6 DEF PageInv
    <2>3. board' \in BoardStates /\ board'.loader = None /\ board'.authorized = board.authorized
        BY <2>1, <2>2 DEF BoardStates
    <2>4. board' # None
        BY <2>3 DEF ConsoleAssumption
    <2>5. PageInv'
        BY <1>2, <1>4, <1>6, <2>3 DEF PageInv
    <2>6. LoaderFit(ends, board', boardStream')
        BY <1>2, <1>4, <2>3, <2>4 DEF LoaderFit
    <2> QED BY <1>2, <1>3, <2>5, <2>6 DEF SessionInv
<1> QED BY <1>5, <1>6

\* One of the three ends the check.
LEMMA LandMeKeeps ==
    ASSUME ConsoleAssumption, SessionInv, NEW s \in Slots, LandMe(s)
    PROVE  SessionInv'
<1>1. consoleCalls[s].answer.kind \in {"ok", "refused", "lost"}
    BY DEF LandMe
<1> QED BY <1>1, LandMeOk, LandMeRefused, LandMeLost

\* The first answer about the piles comes, and the board connects.
LEMMA LandSnapshotKeeps ==
    ASSUME ConsoleAssumption, SessionInv, NEW s \in Slots, LandSnapshot(s)
    PROVE  SessionInv'
<1>1. PICK ends : ends = End(consoleCalls, s)
    OBVIOUS
<1>2. consoleCalls[s].op = "snapshot" /\ UNCHANGED <<cookie, sessions, captchas, crossed>>
    BY DEF LandSnapshot, doors
<1>3. /\ IsPut(consoleCalls, s, NoCall, ends) /\ CallsFit(ends, sessions, captchas)
      /\ ImagesFit(ends, ImageOf(form)) /\ SessionsFit(ends, cookie) /\ ChainFit(ends, form, captchas)
      /\ IdentityFit(ends, cookie, sessions, currentUser, crossed)
      /\ board = None \/ board.loader # s => LoaderFit(ends, board, boardStream)
    BY <1>1, <1>2, EndedQuiet
<1>4. IdentityFit(ends, cookie, sessions, None, crossed)
    <2>1. PICK met : met = crossed
        OBVIOUS
    <2>2. IdentityFit(ends, cookie, sessions, None, met)
        BY <1>3, <2>1, NobodyFits
    <2> QED BY <2>1, <2>2
<1>5. PageInv /\ cookie \in 0..Len(sessions) /\ LoaderFit(consoleCalls, board, boardStream)
    BY CallsFound
<1>6. CASE Expired(ends, cookie)
    <2>1. PICK jar : jar = cookie
        OBVIOUS
    <2>2. /\ jar \in 0..Len(sessions) /\ cookie' = jar /\ SessionsFit(ends, jar) /\ Expired(ends, jar)
          /\ IdentityFit(ends, jar, sessions, None, crossed')
        BY <1>2, <1>3, <1>4, <1>5, <1>6, <2>1
    <2>3. route = "login" => board = None
        BY <1>5 DEF PageInv
    <2> QED BY <1>2, <1>3, <1>5, <2>2, <2>3, ExpiredKeeps
<1>7. CASE ~Expired(ends, cookie)
    <2>1. consoleCalls' = ends /\ UNCHANGED <<route, asking, currentUser, form>>
        BY <1>1, <1>7 DEF LandSnapshot
    <2>2. CASE MayConnect(s)
        <3>1. board # None /\ board.loader = s
            BY <2>2 DEF MayConnect, IsCurrent
        <3>2. boardStream' = TRUE /\ board' = [board EXCEPT !.loader = None, !.error = consoleCalls[s].answer.kind # "ok"]
            BY <1>1, <1>7, <2>2, <3>1 DEF LandSnapshot
        <3>3. board \in BoardStates /\ board.authorized
            <4>1. board \in BoardStates
                BY <1>5, <3>1 DEF PageInv
            <4>2. s # None
                BY ConsoleAssumption
            <4> QED BY <1>2, <1>5, <3>1, <4>1, <4>2 DEF LoaderFit, IsLoader
        <3>4. PICK error : error = (consoleCalls[s].answer.kind # "ok")
            OBVIOUS
        <3>5. error \in BOOLEAN /\ board' = [board EXCEPT !.loader = None, !.error = error]
            BY <3>2, <3>4
        <3>6. board' \in BoardStates /\ board'.loader = None /\ board'.authorized = board.authorized
            BY <3>3, <3>5 DEF BoardStates
        <3>7. board' # None
            BY <3>6 DEF ConsoleAssumption
        <3>8. PageInv'
            BY <1>2, <1>5, <2>1, <3>1, <3>2, <3>6 DEF PageInv
        <3>9. LoaderFit(ends, board', boardStream')
            BY <3>3, <3>6, <3>7 DEF LoaderFit
        <3> QED BY <1>2, <1>3, <2>1, <3>8, <3>9 DEF SessionInv
    <2>3. CASE ~MayConnect(s)
        <3>1. UNCHANGED <<board, boardStream>>
            BY <1>1, <1>7, <2>3 DEF LandSnapshot
        <3>2. board = None \/ board.loader # s
            BY <2>3, LoaderIsCurrent DEF MayConnect
        <3>3. PageInv'
            BY <1>2, <1>5, <2>1, <3>1 DEF PageInv
        <3> QED BY <1>2, <1>3, <2>1, <3>1, <3>2, <3>3 DEF SessionInv
    <2> QED BY <2>2, <2>3
<1> QED BY <1>6, <1>7

\* The user signs out.
LEMMA LogoutKeeps ==
    ASSUME ConsoleAssumption, SessionInv, Logout
    PROVE  SessionInv'
<1>1. UNCHANGED <<mountedPage, cookie, doors, crossed>>
    BY DEF Logout
<1>2. PICK call : call = [op |-> "logout"]
    OBVIOUS
<1>3. DOMAIN call = {"op"} /\ call.op = "logout" /\ SendConsole(call)
    BY <1>2 DEF Logout
<1>4. PICK image : image = ImageOf(form)
    OBVIOUS
<1>5. PICK after : after = consoleCalls'
    OBVIOUS
<1>6. PICK met : met = crossed
    OBVIOUS
<1>7. PICK sheet : sheet = form
    OBVIOUS
<1>8. PICK made : made = sessions
    OBVIOUS
<1>9. PICK tried : tried = captchas
    OBVIOUS
<1>10. /\ CallsFit(consoleCalls, made, tried) /\ ImagesFit(consoleCalls, image)
       /\ SessionsFit(consoleCalls, cookie)
       /\ ChainFit(consoleCalls, sheet, tried) /\ LoaderFit(consoleCalls, board, boardStream)
       /\ IdentityFit(consoleCalls, cookie, made, currentUser, met) /\ PageInv
       /\ cookie \in 0..Len(made)
       /\ board # None => board.loader \in Slots \cup {None}
    BY <1>4, <1>6, <1>7, <1>8, <1>9, CallsFound
<1>11. IsSent(consoleCalls, call, cookie, after)
    BY <1>3, <1>5, <1>10, SentCall DEF CallsFit
<1>12. call.op \notin FormOps
    BY <1>3 DEF FormOps, FormRoutes
<1>13. /\ CallsFit(after, made, tried) /\ ImagesFit(after, image) /\ SessionsFit(after, cookie)
       /\ ChainFit(after, sheet, tried) /\ IdentityFit(after, cookie, made, currentUser, met)
    BY <1>3, <1>10, <1>11, <1>12, SentFits
<1>14. LoaderFit(after, board, boardStream)
    BY <1>10, <1>11, SentLoader
<1>15. PageInv'
    BY <1>1, <1>10 DEF PageInv, mountedPage, doors
<1> QED BY <1>1, <1>4, <1>5, <1>6, <1>7, <1>8, <1>9, <1>13, <1>14, <1>15 DEF SessionInv, mountedPage, doors

\* The answer to it comes.
LEMMA LandLogoutKeeps ==
    ASSUME ConsoleAssumption, SessionInv, NEW s \in Slots, LandLogout(s)
    PROVE  SessionInv'
<1>1. PICK ends : ends = End(consoleCalls, s)
    OBVIOUS
<1>2. consoleCalls[s].op = "logout" /\ UNCHANGED <<sessions, captchas>>
    BY DEF LandLogout, doors
<1>3. /\ IsPut(consoleCalls, s, NoCall, ends) /\ CallsFit(ends, sessions, captchas)
      /\ ImagesFit(ends, ImageOf(form)) /\ SessionsFit(ends, cookie) /\ ChainFit(ends, form, captchas)
      /\ board = None \/ board.loader # s => LoaderFit(ends, board, boardStream)
    BY <1>1, <1>2, EndedQuiet
<1>4. PageInv /\ cookie \in 0..Len(sessions) /\ Len(sessions) \in Nat
    BY CallsFound
<1>5. board = None \/ board.loader # s
    BY <1>2, <1>4, ConsoleAssumption DEF SessionInv, LoaderFit, IsLoader
<1>6. CASE consoleCalls[s].answer.kind = "ok"
    <2>1. cookie' = 0 /\ Expired(ends, 0) /\ crossed' = (crossed \/ Overtakes)
        BY <1>1, <1>6 DEF LandLogout, SignOut
    <2>2. PICK jar : jar = 0
        OBVIOUS
    <2>3. jar \in 0..Len(sessions) /\ cookie' = jar /\ Expired(ends, jar)
        BY <1>4, <2>1, <2>2
    <2>4. SessionsFit(ends, jar)
        <3>1. ASSUME NEW t \in Slots, ends[t].op \in FormRoutes, Succeeds(ends[t])
              PROVE  ends[t].answer.body # jar
            BY <1>3, <1>4, <2>2, <3>1 DEF CallsFit, ConsoleCallOK
        <3> QED BY <1>3, <3>1 DEF SessionsFit
    <2>5. IdentityFit(ends, jar, sessions, None, crossed')
        <3>1. \A t \in Slots : ends[t].op = "me" => consoleCalls[t].op = "me"
            BY <1>3, NoCallFits DEF IsPut
        <3>2. ~crossed' => \A t \in Slots : ends[t].op # "me"
            BY <2>1, <3>1 DEF Overtakes
        <3> QED BY <3>2 DEF IdentityFit
    <2> QED BY <1>2, <1>3, <1>4, <1>5, <2>3, <2>4, <2>5, ExpiredKeeps
<1>7. CASE consoleCalls[s].answer.kind # "ok"
    <2>1. consoleCalls' = ends /\ crossed' = TRUE /\ UNCHANGED <<mountedPage, cookie>>
        BY <1>1, <1>7 DEF LandLogout
    <2>2. PageInv'
        BY <1>2, <1>4, <2>1 DEF PageInv, mountedPage
    <2>3. IdentityFit(consoleCalls', cookie', sessions', currentUser', crossed')
        BY <2>1 DEF IdentityFit
    <2> QED BY <1>2, <1>3, <1>5, <2>1, <2>2, <2>3 DEF SessionInv, mountedPage
<1> QED BY <1>6, <1>7

\* The call with its answer.
SessionTold(call, answer, next) ==
    /\ DOMAIN next = DOMAIN call /\ next.op = call.op /\ next.answer = answer
    /\ \A f \in DOMAIN call \ {"answer"} : next[f] = call[f]
    /\ next.here = call.here /\ next.cookie = call.cookie
    /\ call.op = "captcha" => next.submit = call.submit
    /\ call.op \in FormRoutes => next.captcha = call.captcha
    /\ call.op \in {"me", "snapshot"} /\ "who" \in DOMAIN call => next.who = call.who

\* An answer changes one call, and nothing of it but the answer.
LEMMA ToldPut ==
    ASSUME NEW calls, NEW made, NEW tried, CallsFit(calls, made, tried), NEW s \in Slots, calls[s].op # "idle",
           NEW answer, NEW after, after = [calls EXCEPT ![s].answer = answer]
    PROVE  \E next : SessionTold(calls[s], answer, next) /\ IsPut(calls, s, next, after)
<1>1. PICK call : call = calls[s]
    OBVIOUS
<1>2. PICK next : next = [call EXCEPT !.answer = answer]
    OBVIOUS
<1>3. ConsoleCallOK(call, made, tried) /\ DOMAIN calls = Slots
    BY <1>1 DEF CallsFit
<1>4. after = [calls EXCEPT ![s] = next]
    BY <1>1, <1>2
<1>5. IsPut(calls, s, next, after)
    BY <1>3, <1>4 DEF IsPut
<1>6. {"op", "answer", "here", "cookie"} \subseteq DOMAIN call
    BY <1>1, <1>3 DEF ConsoleCallOK, IsCall
<1>7. /\ DOMAIN next = DOMAIN call /\ next.answer = answer
      /\ \A f \in DOMAIN call \ {"answer"} : next[f] = call[f]
    BY <1>2, <1>6
<1>8. /\ call.op = "captcha" => "submit" \in DOMAIN call
      /\ call.op \in FormRoutes => "captcha" \in DOMAIN call
    BY <1>3 DEF ConsoleCallOK
<1>9. SessionTold(call, answer, next)
    BY <1>6, <1>7, <1>8 DEF SessionTold
<1> QED BY <1>1, <1>5, <1>9

\* One that brings no image and makes no session.
LEMMA ToldKeeps ==
    ASSUME NEW calls, NEW made, NEW tried, CallsFit(calls, made, tried), NEW s \in Slots, calls[s].op # "idle",
           NEW answer, NEW next, SessionTold(calls[s], answer, next), NEW after, IsPut(calls, s, next, after),
           calls[s].op \in FormRoutes \cup {"captcha"} => answer.kind # "ok",
           Tries(calls[s]) => Tries(next), NEW image, ImagesFit(calls, image), NEW jar, SessionsFit(calls, jar),
           NEW sheet, ChainFit(calls, sheet, tried)
    PROVE  ImagesFit(after, image) /\ SessionsFit(after, jar) /\ ChainFit(after, sheet, tried)
<1>1. next.op = calls[s].op /\ next.answer = answer /\ next.here = calls[s].here /\ next.cookie = calls[s].cookie
    BY DEF SessionTold
<1>2. next.op \in FormRoutes \cup {"captcha"} => ~Succeeds(next)
    BY <1>1 DEF Succeeds
<1>3. ImagesFit(after, image)
    <2>1. CASE next.op \in FormRoutes
        <3>1. calls[s].op \in FormRoutes /\ next.captcha = calls[s].captcha
            BY <1>1, <2>1 DEF SessionTold
        <3> QED BY <1>1, <2>1, <3>1, PutSubmission
    <2>2. CASE next.op \notin FormRoutes
        BY <1>2, <2>2, PutImages
    <2> QED BY <2>1, <2>2
<1>4. SessionsFit(after, jar)
    BY <1>1, <1>2, PutSessions
<1>5. ChainFit(after, sheet, tried)
    <2>1. IsChain(next) => IsChain(calls[s])
        BY <1>1 DEF IsChain, SessionTold
    <2> QED BY <1>1, <2>1, PutSame
<1> QED BY <1>3, <1>4, <1>5

\* The board waits for it still.
LEMMA ToldLoader ==
    ASSUME NEW calls, NEW made, NEW tried, CallsFit(calls, made, tried), NEW s \in Slots, calls[s].op # "idle",
           NEW answer, NEW next, SessionTold(calls[s], answer, next), NEW after, IsPut(calls, s, next, after),
           NEW state, NEW open, LoaderFit(calls, state, open), state # None => state.loader \in Slots \cup {None}
    PROVE  LoaderFit(after, state, open)
<1>1. s # None
    BY ConsoleAssumption
<1>2. ASSUME state # None, state.loader = s
      PROVE  IsLoader(next, state)
    <2>1. IsLoader(calls[s], state)
        BY <1>1, <1>2 DEF LoaderFit
    <2>2. "who" \in DOMAIN calls[s]
        BY <2>1 DEF IsLoader, CallsFit, ConsoleCallOK
    <2> QED BY <2>1, <2>2 DEF IsLoader, SessionTold
<1> QED BY <1>2, PutLoader

\* What is heard of the session is true.
LEMMA ToldIdentity ==
    ASSUME NEW calls, NEW s \in Slots, NEW answer, NEW next, SessionTold(calls[s], answer, next), NEW after,
           IsPut(calls, s, next, after), NEW jar, NEW made, NEW user, NEW met,
           IdentityFit(calls, jar, made, user, met),
           calls[s].op = "me" /\ answer.kind = "ok" /\ calls[s].cookie = jar => Signed(jar, made, answer.body)
    PROVE  IdentityFit(after, jar, made, user, met)
<1>1. next.op = calls[s].op /\ next.cookie = calls[s].cookie /\ next.answer = answer /\ after[s] = next
    BY DEF SessionTold, IsPut
<1>2. \A t \in Slots : after[t].op = calls[t].op /\ (t # s => after[t] = calls[t])
    BY <1>1 DEF IsPut
<1>3. SUFFICES ASSUME ~met
      PROVE  /\ \A t \in Slots : after[t].op = "me" => after[t].cookie = jar
             /\ (\A t \in Slots : after[t].op # "logout") =>
                   /\ user # None => Signed(jar, made, user)
                   /\ \A t \in Slots : after[t].op = "me" /\ Succeeds(after[t]) => Signed(jar, made, after[t].answer.body)
    BY DEF IdentityFit
<1>4. \A t \in Slots : calls[t].op = "me" => calls[t].cookie = jar
    BY <1>3 DEF IdentityFit
<1>5. (\A t \in Slots : calls[t].op # "logout") =>
          /\ user # None => Signed(jar, made, user)
          /\ \A t \in Slots : calls[t].op = "me" /\ Succeeds(calls[t]) => Signed(jar, made, calls[t].answer.body)
    BY <1>3 DEF IdentityFit
<1>6. after[s].op = "me" /\ Succeeds(after[s]) => Signed(jar, made, after[s].answer.body)
    BY <1>1, <1>2, <1>4 DEF Succeeds
<1> QED BY <1>1, <1>2, <1>4, <1>5, <1>6

\* It stays a call of the console when its answer is one of its operation.
LEMMA ToldOK ==
    ASSUME NEW call, NEW made, NEW tried, ConsoleCallOK(call, made, tried), call.op # "idle",
           NEW answer, NEW next, SessionTold(call, answer, next),
           answer.kind = "ok" => /\ call.op = "config" => answer.body \in [open : BOOLEAN]
                                 /\ call.op = "captcha" => answer.body \in 1..Len(tried) /\ tried[answer.body] = "open"
                                 /\ call.op \in FormRoutes => answer.body \in 1..Len(made) /\ made[answer.body].live
                                 /\ call.op = "me" => answer.body \in Roles,
           answer = Lost \/ answer.kind \in {"ok", "refused"}
    PROVE  ConsoleCallOK(next, made, tried)
<1>1. /\ DOMAIN next = DOMAIN call /\ next.op = call.op /\ next.answer = answer
      /\ next.here = call.here /\ next.cookie = call.cookie
      /\ call.op = "captcha" => next.submit = call.submit
      /\ call.op \in FormRoutes => next.captcha = call.captcha
    BY DEF SessionTold
<1>2. Succeeds(next) <=> answer.kind = "ok"
    BY <1>1 DEF Succeeds
<1>3. IsCall(next, {"here", "cookie"})
    BY <1>1 DEF ConsoleCallOK, IsCall
<1> QED BY <1>1, <1>2, <1>3 DEF ConsoleCallOK

\* The tables of the backend change.
LEMMA CallsGrow ==
    ASSUME NEW calls, NEW made, NEW tried, CallsFit(calls, made, tried), NEW more, NEW looked,
           Len(made) \in Nat, Len(more) \in Nat, Len(made) <= Len(more),
           Len(tried) \in Nat, Len(looked) \in Nat, Len(tried) <= Len(looked),
           \A s \in Slots : calls[s].op = "captcha" /\ Succeeds(calls[s]) => looked[calls[s].answer.body] = "open",
           \A s \in Slots : calls[s].op \in FormRoutes /\ Succeeds(calls[s]) => more[calls[s].answer.body].live
    PROVE  CallsFit(calls, more, looked)
<1>1. ASSUME NEW s \in Slots
      PROVE  ConsoleCallOK(calls[s], more, looked)
    <2>1. PICK call : call = calls[s]
        OBVIOUS
    <2>2. ConsoleCallOK(call, made, tried)
        BY <2>1 DEF CallsFit
    <2>3. 1..Len(made) \subseteq 1..Len(more) /\ 0..Len(made) \subseteq 0..Len(more)
        OBVIOUS
    <2>4. 1..Len(tried) \subseteq 1..Len(looked) /\ 0..Len(tried) \subseteq 0..Len(looked)
        OBVIOUS
    <2>5. /\ call.op = "captcha" /\ Succeeds(call) => looked[call.answer.body] = "open"
          /\ call.op \in FormRoutes /\ Succeeds(call) => more[call.answer.body].live
        BY <2>1
    <2>6. ConsoleCallOK(call, more, looked)
        BY <2>2, <2>3, <2>4, <2>5 DEF ConsoleCallOK
    <2> QED BY <2>1, <2>6
<1> QED BY <1>1 DEF CallsFit

\* An answer is lost.
LEMMA LoseConsoleAnswerKeeps ==
    ASSUME ConsoleAssumption, SessionInv, NEW s \in Slots, LoseConsoleAnswer(s)
    PROVE  SessionInv'
<1>1. /\ consoleCalls[s].op # "idle" /\ UNCHANGED <<mountedPage, cookie, doors, consoleSteps, crossed>>
      /\ consoleCalls' = [consoleCalls EXCEPT ![s].answer = Lost]
    BY DEF LoseConsoleAnswer, Busy, LoseAnswer
<1>2. PICK image : image = ImageOf(form)
    OBVIOUS
<1>3. PICK met : met = crossed
    OBVIOUS
<1>4. PICK open : open = boardStream
    OBVIOUS
<1>5. /\ CallsFit(consoleCalls, sessions, captchas) /\ ImagesFit(consoleCalls, image)
      /\ SessionsFit(consoleCalls, cookie)
      /\ ChainFit(consoleCalls, form, captchas) /\ LoaderFit(consoleCalls, board, open)
      /\ IdentityFit(consoleCalls, cookie, sessions, currentUser, met) /\ PageInv
      /\ board # None => board.loader \in Slots \cup {None}
    BY <1>2, <1>3, <1>4, CallsFound
<1>6. PICK answer : answer = Lost
    OBVIOUS
<1>7. answer.kind = "lost" /\ answer # Unanswered
    BY <1>6 DEF Lost, Unanswered
<1>8. PICK after : after = consoleCalls'
    OBVIOUS
<1>9. PICK next : SessionTold(consoleCalls[s], answer, next) /\ IsPut(consoleCalls, s, next, after)
    <2>1. after = [consoleCalls EXCEPT ![s].answer = answer]
        BY <1>1, <1>6, <1>8
    <2> QED BY <1>1, <1>5, <2>1, ToldPut
<1>10. ConsoleCallOK(next, sessions, captchas)
    <2>1. ConsoleCallOK(consoleCalls[s], sessions, captchas)
        BY <1>5 DEF CallsFit
    <2> QED BY <1>1, <1>6, <1>7, <1>9, <2>1, ToldOK
<1>11. CallsFit(after, sessions, captchas)
    BY <1>5, <1>9, <1>10, PutCalls
<1>12. Tries(consoleCalls[s]) => Tries(next)
    BY <1>7, <1>9 DEF Tries, IsChain, Pardoned, SessionTold
<1>13. ImagesFit(after, image) /\ SessionsFit(after, cookie) /\ ChainFit(after, form, captchas)
    BY <1>1, <1>5, <1>7, <1>9, <1>12, ToldKeeps
<1>14. LoaderFit(after, board, open)
    BY <1>1, <1>5, <1>9, ToldLoader
<1>15. IdentityFit(after, cookie, sessions, currentUser, met)
    BY <1>5, <1>7, <1>9, ToldIdentity
<1>16. PageInv'
    BY <1>1, <1>5 DEF PageInv, mountedPage, doors
<1> QED BY <1>1, <1>2, <1>3, <1>4, <1>8, <1>11, <1>13, <1>14, <1>15, <1>16 DEF SessionInv, mountedPage, doors

\* An answer that makes nothing, of a request that is no submission.
LEMMA AnsweredKeeps ==
    ASSUME ConsoleAssumption, SessionInv, NEW s \in Slots, NEW answer, AnswerConsole(s, answer), UNCHANGED doors,
           consoleCalls[s].op \in {"config", "me", "snapshot", "logout"}, answer.kind \in {"ok", "refused"},
           answer.kind = "ok" => /\ consoleCalls[s].op = "config" => answer.body \in [open : BOOLEAN]
                                 /\ consoleCalls[s].op = "me" =>
                                       answer.body \in Roles /\ Signed(consoleCalls[s].cookie, sessions, answer.body)
    PROVE  SessionInv'
<1>1. /\ consoleCalls[s].op # "idle" /\ consoleCalls[s].op \notin FormRoutes /\ consoleCalls[s].op # "captcha"
      /\ UNCHANGED <<mountedPage, cookie, doors, consoleSteps, crossed>>
      /\ consoleCalls' = [consoleCalls EXCEPT ![s].answer = answer]
    BY DEF AnswerConsole, FormRoutes
<1>2. PICK image : image = ImageOf(form)
    OBVIOUS
<1>3. PICK met : met = crossed
    OBVIOUS
<1>4. PICK open : open = boardStream
    OBVIOUS
<1>5. /\ CallsFit(consoleCalls, sessions, captchas) /\ ImagesFit(consoleCalls, image)
      /\ SessionsFit(consoleCalls, cookie)
      /\ ChainFit(consoleCalls, form, captchas) /\ LoaderFit(consoleCalls, board, open)
      /\ IdentityFit(consoleCalls, cookie, sessions, currentUser, met) /\ PageInv
      /\ board # None => board.loader \in Slots \cup {None}
    BY <1>2, <1>3, <1>4, CallsFound
<1>6. PICK after : after = consoleCalls'
    OBVIOUS
<1>7. PICK next : SessionTold(consoleCalls[s], answer, next) /\ IsPut(consoleCalls, s, next, after)
    <2>1. after = [consoleCalls EXCEPT ![s].answer = answer]
        BY <1>1, <1>6
    <2> QED BY <1>1, <1>5, <2>1, ToldPut
<1>8. ConsoleCallOK(next, sessions, captchas)
    <2>1. ConsoleCallOK(consoleCalls[s], sessions, captchas)
        BY <1>5 DEF CallsFit
    <2> QED BY <1>1, <1>7, <2>1, ToldOK
<1>9. CallsFit(after, sessions, captchas)
    BY <1>5, <1>7, <1>8, PutCalls
<1>10. ~Tries(consoleCalls[s])
    BY <1>1 DEF Tries, IsChain
<1>11. ImagesFit(after, image) /\ SessionsFit(after, cookie) /\ ChainFit(after, form, captchas)
    BY <1>1, <1>5, <1>7, <1>10, ToldKeeps
<1>12. LoaderFit(after, board, open)
    BY <1>1, <1>5, <1>7, ToldLoader
<1>13. IdentityFit(after, cookie, sessions, currentUser, met)
    BY <1>5, <1>7, ToldIdentity
<1>14. PageInv'
    BY <1>1, <1>5 DEF PageInv, mountedPage, doors
<1> QED BY <1>1, <1>2, <1>3, <1>4, <1>6, <1>9, <1>11, <1>12, <1>13, <1>14 DEF SessionInv, mountedPage, doors

\* The backend says whether it is open.
LEMMA ServeSettingsKeeps ==
    ASSUME ConsoleAssumption, SessionInv, NEW s \in Slots, ServeSettings(s)
    PROVE  SessionInv'
<1>1. PICK open \in BOOLEAN : AnswerConsole(s, Ok([open |-> open]))
    BY DEF ServeSettings
<1>2. PICK answer : answer = Ok([open |-> open])
    OBVIOUS
<1>3. answer.kind = "ok" /\ answer.body \in [open : BOOLEAN] /\ AnswerConsole(s, answer)
    BY <1>1, <1>2 DEF Ok
<1>4. consoleCalls[s].op = "config" /\ UNCHANGED doors
    BY DEF ServeSettings
<1> QED BY <1>3, <1>4, AnsweredKeeps

\* It says who is signed in, serves the piles, or ends the session of the cookie.
LEMMA ServeSessionKeeps ==
    ASSUME ConsoleAssumption, SessionInv, NEW s \in Slots, ServeSession(s)
    PROVE  SessionInv'
<1>1. PICK call : call = consoleCalls[s]
    OBVIOUS
<1>2. CallsFit(consoleCalls, sessions, captchas) /\ PageInv /\ Len(sessions) \in Nat
    BY CallsFound
<1>3. call.op \in {"me", "snapshot", "logout"} /\ call.cookie \in 0..Len(sessions)
    <2>1. call.op \in {"me", "snapshot", "logout"}
        BY <1>1 DEF ServeSession
    <2> QED BY <1>1, <1>2, <2>1 DEF CallsFit, ConsoleCallOK
<1>4. CASE call.op \in {"me", "snapshot"}
    <2>1. PICK answer : answer = IF Alive(call.cookie) THEN Ok(sessions[call.cookie].role) ELSE Refused("UNAUTHORIZED")
        OBVIOUS
    <2>2. AnswerConsole(s, answer) /\ UNCHANGED doors
        BY <1>1, <1>4, <2>1 DEF ServeSession, doors
    <2>3. answer.kind \in {"ok", "refused"}
        BY <2>1 DEF Ok, Refused
    <2>4. ASSUME answer.kind = "ok"
          PROVE  answer.body \in Roles /\ Signed(call.cookie, sessions, answer.body)
        <3>1. Alive(call.cookie) /\ answer.body = sessions[call.cookie].role
            BY <2>1, <2>4 DEF Ok, Refused
        <3>2. call.cookie \in 1..Len(sessions)
            BY <1>2, <1>3, <3>1 DEF Alive
        <3>3. sessions[call.cookie] \in [role : Roles, live : BOOLEAN]
            BY <1>2, <3>2, ElementOfSeq DEF PageInv
        <3> QED BY <3>1, <3>3 DEF Alive, Signed
    <2> QED BY <1>1, <1>4, <2>2, <2>3, <2>4, AnsweredKeeps
<1>5. CASE call.op = "logout"
    <2>1. /\ UNCHANGED <<mountedPage, cookie, consoleSteps, crossed, captchas>>
          /\ sessions' = IF call.cookie = 0 THEN sessions ELSE [sessions EXCEPT ![call.cookie].live = FALSE]
        BY <1>1, <1>5 DEF ServeSession, AnswerConsole
    <2>2. PICK answer : answer = Ok(None)
        OBVIOUS
    <2>3. answer.kind = "ok" /\ consoleCalls' = [consoleCalls EXCEPT ![s].answer = answer]
        BY <1>1, <1>5, <2>2 DEF ServeSession, AnswerConsole, Ok
    <2>4. PICK made : made = sessions'
        OBVIOUS
    <2>5. /\ made \in Seq([role : Roles, live : BOOLEAN]) /\ Len(made) = Len(sessions)
          /\ \A i \in 1..Len(sessions) : i # call.cookie => made[i] = sessions[i]
        <3>1. CASE call.cookie = 0
            BY <1>2, <2>1, <2>4, <3>1 DEF PageInv
        <3>2. CASE call.cookie # 0
            <4>1. call.cookie \in 1..Len(sessions)
                BY <1>2, <1>3, <3>2
            <4>2. PICK e : e = [sessions[call.cookie] EXCEPT !.live = FALSE]
                OBVIOUS
            <4>3. sessions[call.cookie] \in [role : Roles, live : BOOLEAN]
                BY <1>2, <4>1, ElementOfSeq DEF PageInv
            <4>4. e \in [role : Roles, live : BOOLEAN]
                BY <4>2, <4>3
            <4>5. made = [sessions EXCEPT ![call.cookie] = e]
                BY <2>1, <2>4, <3>2, <4>2
            <4>6. \E S : sessions \in Seq(S) /\ e \in S /\ S = [role : Roles, live : BOOLEAN]
                BY <1>2, <4>4 DEF PageInv
            <4>7. PICK S : sessions \in Seq(S) /\ e \in S /\ S = [role : Roles, live : BOOLEAN]
                BY <4>6
            <4> QED BY <4>1, <4>5, <4>7, ExceptSeq
        <3> QED BY <3>1, <3>2
    <2>6. CallsFit(consoleCalls, made, captchas)
        <3>1. ASSUME NEW t \in Slots, consoleCalls[t].op \in FormRoutes, Succeeds(consoleCalls[t])
              PROVE  made[consoleCalls[t].answer.body].live
            <4>1. consoleCalls[t].answer.body \in 1..Len(sessions) /\ sessions[consoleCalls[t].answer.body].live
                BY <1>2, <3>1 DEF CallsFit, ConsoleCallOK
            <4>2. t # s
                BY <1>1, <1>5, <3>1 DEF FormRoutes
            <4>3. SessionApart(consoleCalls[t], call)
                BY <1>1, <4>2 DEF SessionInv, SessionsFit
            <4>4. consoleCalls[t].answer.body # call.cookie
                BY <1>5, <3>1, <4>3 DEF SessionApart
            <4> QED BY <2>5, <4>1, <4>4
        <3>2. \A t \in Slots : consoleCalls[t].op = "captcha" /\ Succeeds(consoleCalls[t])
                                   => captchas[consoleCalls[t].answer.body] = "open"
            BY <1>2 DEF CallsFit, ConsoleCallOK
        <3>3. Len(captchas) \in Nat /\ Len(captchas) <= Len(captchas)
            BY CallsFound
        <3> QED BY <1>2, <2>5, <3>1, <3>2, <3>3, CallsGrow
    <2>7. PICK after : after = consoleCalls'
        OBVIOUS
    <2>8. PICK image : image = ImageOf(form)
        OBVIOUS
    <2>9. PICK open : open = boardStream
        OBVIOUS
    <2>10. PICK next : SessionTold(call, answer, next) /\ IsPut(consoleCalls, s, next, after)
        <3>1. after = [consoleCalls EXCEPT ![s].answer = answer]
            BY <2>3, <2>7
        <3>2. \E x : SessionTold(consoleCalls[s], answer, x) /\ IsPut(consoleCalls, s, x, after)
            BY <1>1, <1>2, <1>5, <3>1, ToldPut
        <3> QED BY <1>1, <3>2
    <2>11. ConsoleCallOK(next, made, captchas)
        <3>1. ConsoleCallOK(call, made, captchas)
            BY <1>1, <2>6 DEF CallsFit
        <3>2. call.op # "captcha" /\ call.op \notin FormRoutes /\ call.op # "me" /\ call.op # "config"
            BY <1>5 DEF FormRoutes
        <3> QED BY <1>5, <2>3, <2>10, <3>1, <3>2, ToldOK
    <2>12. CallsFit(after, made, captchas)
        BY <2>6, <2>10, <2>11, PutCalls
    <2>13. ImagesFit(after, image) /\ SessionsFit(after, cookie) /\ ChainFit(after, form, captchas)
        <3>1. ImagesFit(consoleCalls, image) /\ SessionsFit(consoleCalls, cookie) /\ ChainFit(consoleCalls, form, captchas)
            BY <2>8, CallsFound
        <3>2. ~Tries(consoleCalls[s]) /\ consoleCalls[s].op # "idle" /\ consoleCalls[s].op \notin FormRoutes \cup {"captcha"}
            BY <1>1, <1>5 DEF Tries, IsChain, FormRoutes
        <3>3. SessionTold(consoleCalls[s], answer, next)
            BY <1>1, <2>10
        <3> QED BY <1>2, <2>10, <3>1, <3>2, <3>3, ToldKeeps
    <2>14. LoaderFit(after, board, open)
        <3>1. LoaderFit(consoleCalls, board, open) /\ (board # None => board.loader \in Slots \cup {None})
            BY <2>9, CallsFound
        <3>2. SessionTold(consoleCalls[s], answer, next) /\ consoleCalls[s].op # "idle"
            BY <1>1, <1>5, <2>10
        <3> QED BY <1>2, <2>10, <3>1, <3>2, ToldLoader
    <2>15. IdentityFit(after, cookie, made, currentUser, crossed)
        <3>1. after[s].op = "logout"
            BY <1>5, <2>10 DEF SessionTold, IsPut
        <3>2. ~crossed => \A t \in Slots : after[t].op = "me" => after[t].cookie = cookie
            <4>1. ~crossed => \A t \in Slots : consoleCalls[t].op = "me" => consoleCalls[t].cookie = cookie
                BY DEF SessionInv, IdentityFit
            <4>2. \A t \in Slots : after[t].op = "me" => after[t] = consoleCalls[t]
                BY <2>10, <3>1 DEF IsPut
            <4> QED BY <4>1, <4>2
        <3> QED BY <3>1, <3>2 DEF IdentityFit
    <2>16. PageInv'
        <3>1. cookie \in 0..Len(sessions')
            BY <2>4, <2>5, CallsFound
        <3> QED BY <1>2, <2>1, <2>4, <2>5, <3>1 DEF PageInv, mountedPage
    <2> QED BY <2>1, <2>4, <2>7, <2>8, <2>9, <2>12, <2>13, <2>14, <2>15, <2>16 DEF SessionInv, mountedPage
<1> QED BY <1>3, <1>4, <1>5

\* A session ends elsewhere, or with time.
LEMMA EndSessionKeeps ==
    ASSUME ConsoleAssumption, SessionInv, EndSession
    PROVE  SessionInv'
<1>1. /\ UNCHANGED <<mountedPage, cookie, captchas, strict, consoleCalls, consoleSteps>> /\ crossed' = TRUE
      /\ sessions' = [sessions EXCEPT ![cookie].live = FALSE] /\ cookie # 0
    BY DEF EndSession, Alive
<1>2. CallsFit(consoleCalls, sessions, captchas) /\ PageInv /\ Len(sessions) \in Nat
    BY CallsFound
<1>3. cookie \in 1..Len(sessions)
    BY <1>1, <1>2, CallsFound
<1>4. PICK made : made = sessions'
    OBVIOUS
<1>5. /\ made \in Seq([role : Roles, live : BOOLEAN]) /\ Len(made) = Len(sessions)
      /\ \A i \in 1..Len(sessions) : i # cookie => made[i] = sessions[i]
    <2>1. PICK e : e = [sessions[cookie] EXCEPT !.live = FALSE]
        OBVIOUS
    <2>2. sessions[cookie] \in [role : Roles, live : BOOLEAN]
        BY <1>2, <1>3, ElementOfSeq DEF PageInv
    <2>3. e \in [role : Roles, live : BOOLEAN]
        BY <2>1, <2>2
    <2>4. made = [sessions EXCEPT ![cookie] = e]
        BY <1>1, <1>4, <2>1
    <2>5. \E S : sessions \in Seq(S) /\ e \in S /\ S = [role : Roles, live : BOOLEAN]
        BY <1>2, <2>3 DEF PageInv
    <2>6. PICK S : sessions \in Seq(S) /\ e \in S /\ S = [role : Roles, live : BOOLEAN]
        BY <2>5
    <2> QED BY <1>3, <2>4, <2>6, ExceptSeq
<1>6. CallsFit(consoleCalls, made, captchas)
    <2>1. ASSUME NEW t \in Slots, consoleCalls[t].op \in FormRoutes, Succeeds(consoleCalls[t])
          PROVE  made[consoleCalls[t].answer.body].live
        <3>1. consoleCalls[t].answer.body \in 1..Len(sessions) /\ sessions[consoleCalls[t].answer.body].live
            BY <1>2, <2>1 DEF CallsFit, ConsoleCallOK
        <3>2. consoleCalls[t].answer.body # cookie
            BY <2>1 DEF SessionInv, SessionsFit
        <3> QED BY <1>5, <3>1, <3>2
    <2>2. \A t \in Slots : consoleCalls[t].op = "captcha" /\ Succeeds(consoleCalls[t])
                               => captchas[consoleCalls[t].answer.body] = "open"
        BY <1>2 DEF CallsFit, ConsoleCallOK
    <2>3. Len(captchas) \in Nat /\ Len(captchas) <= Len(captchas)
        BY CallsFound
    <2> QED BY <1>2, <1>5, <2>1, <2>2, <2>3, CallsGrow
<1>7. PageInv'
    <2>1. cookie \in 0..Len(sessions')
        BY <1>4, <1>5, CallsFound
    <2> QED BY <1>1, <1>2, <1>4, <1>5, <2>1 DEF PageInv, mountedPage
<1>8. IdentityFit(consoleCalls', cookie', sessions', currentUser', crossed')
    BY <1>1 DEF IdentityFit
<1> QED BY <1>1, <1>4, <1>6, <1>7, <1>8 DEF SessionInv, mountedPage

\* It makes an image, which is a new one.
LEMMA ServeCaptchaKeeps ==
    ASSUME ConsoleAssumption, SessionInv, NEW s \in Slots, ServeCaptcha(s)
    PROVE  SessionInv'
<1>1. PICK call : call = consoleCalls[s]
    OBVIOUS
<1>2. PICK answer : answer = Ok(Len(captchas) + 1)
    OBVIOUS
<1>3. PICK looked : looked = Append(captchas, "open")
    OBVIOUS
<1>4. PICK after : after = consoleCalls'
    OBVIOUS
<1>5. /\ call.op = "captcha" /\ UNCHANGED <<mountedPage, cookie, consoleSteps, crossed, sessions, strict>>
      /\ captchas' = looked /\ after = [consoleCalls EXCEPT ![s].answer = answer] /\ call.answer = Unanswered
    BY <1>1, <1>2, <1>3, <1>4 DEF ServeCaptcha, AnswerConsole
<1>6. answer.kind = "ok" /\ answer.body = Len(captchas) + 1
    BY <1>2 DEF Ok
<1>7. PICK image : image = ImageOf(form)
    OBVIOUS
<1>8. PICK met : met = crossed
    OBVIOUS
<1>9. PICK open : open = boardStream
    OBVIOUS
<1>10. /\ CallsFit(consoleCalls, sessions, captchas) /\ ImagesFit(consoleCalls, image)
       /\ SessionsFit(consoleCalls, cookie)
       /\ ChainFit(consoleCalls, form, captchas) /\ LoaderFit(consoleCalls, board, open)
       /\ IdentityFit(consoleCalls, cookie, sessions, currentUser, met) /\ PageInv
       /\ board # None => board.loader \in Slots \cup {None}
       /\ Len(sessions) \in Nat /\ Len(captchas) \in Nat
    BY <1>7, <1>8, <1>9, CallsFound
<1>11. PICK last : last = Len(captchas)
    OBVIOUS
<1>12. /\ looked \in Seq({"open", "spent"}) /\ Len(looked) = last + 1 /\ looked[last + 1] = "open"
       /\ \A i \in 1..last : looked[i] = captchas[i]
    <2>1. captchas \in Seq({"open", "spent"}) /\ "open" \in {"open", "spent"}
        BY <1>10 DEF PageInv
    <2>2. PICK S : captchas \in Seq(S) /\ "open" \in S /\ S = {"open", "spent"}
        BY <2>1
    <2>3. PICK e : e = "open"
        OBVIOUS
    <2>4. /\ Append(captchas, e) \in Seq(S) /\ Len(Append(captchas, e)) = Len(captchas) + 1
          /\ \A i \in 1..Len(captchas) : Append(captchas, e)[i] = captchas[i]
          /\ Append(captchas, e)[Len(captchas) + 1] = e
        BY <2>2, <2>3, AppendProperties
    <2> QED BY <1>3, <1>11, <2>2, <2>3, <2>4
<1>13. last \in Nat /\ image \in 0..last /\ (form # None => form.shown \in 0..last)
    BY <1>7, <1>10, <1>11 DEF PageInv, ImageOf
<1>14. CallsFit(consoleCalls, sessions, looked)
    <2>1. \A t \in Slots : consoleCalls[t].op = "captcha" /\ Succeeds(consoleCalls[t])
                               => looked[consoleCalls[t].answer.body] = "open"
        BY <1>10, <1>11, <1>12 DEF CallsFit, ConsoleCallOK
    <2>2. \A t \in Slots : consoleCalls[t].op \in FormRoutes /\ Succeeds(consoleCalls[t])
                               => sessions[consoleCalls[t].answer.body].live
        BY <1>10 DEF CallsFit, ConsoleCallOK
    <2>3. Len(captchas) <= Len(looked) /\ Len(looked) \in Nat /\ Len(sessions) <= Len(sessions)
        BY <1>10, <1>11, <1>12, <1>13
    <2> QED BY <1>10, <2>1, <2>2, <2>3, CallsGrow
<1>15. PICK next : SessionTold(call, answer, next) /\ IsPut(consoleCalls, s, next, after)
    <2>1. \E x : SessionTold(consoleCalls[s], answer, x) /\ IsPut(consoleCalls, s, x, after)
        <3>1. consoleCalls[s].op # "idle"
            BY <1>1, <1>5
        <3> QED BY <1>5, <1>10, <3>1, ToldPut
    <2> QED BY <1>1, <2>1
<1>16. /\ next.op = "captcha" /\ Succeeds(next) /\ next.answer.body = last + 1 /\ next.op \notin FormRoutes
       /\ next.op # "me" /\ next.op # "logout"
    BY <1>5, <1>6, <1>11, <1>15 DEF SessionTold, Succeeds, FormRoutes
<1>17. ConsoleCallOK(next, sessions, looked)
    <2>1. ConsoleCallOK(call, sessions, looked)
        BY <1>1, <1>14 DEF CallsFit
    <2>2. answer.body \in 1..Len(looked) /\ looked[answer.body] = "open" /\ call.op \notin FormRoutes
        BY <1>5, <1>6, <1>11, <1>12, <1>13 DEF FormRoutes
    <2> QED BY <1>5, <1>6, <1>15, <2>1, <2>2, ToldOK
<1>18. CallsFit(after, sessions, looked)
    BY <1>14, <1>15, <1>17, PutCalls
<1>19. ImagesFit(after, image)
    <2>1. \A t \in Slots : /\ consoleCalls[t].op = "captcha" /\ Succeeds(consoleCalls[t]) => consoleCalls[t].answer.body \in 1..last
                           /\ consoleCalls[t].op \in FormRoutes => consoleCalls[t].captcha \in 0..last
        BY <1>10, <1>11 DEF CallsFit, ConsoleCallOK
    <2>2. ASSUME NEW t \in Slots, NEW u \in Slots, t # u
          PROVE  ImageApart(after[t], after[u])
        <3>1. CASE t = s
            <4>1. after[t] = next /\ after[u] = consoleCalls[u]
                BY <1>15, <2>2, <3>1 DEF IsPut
            <4> QED BY <1>13, <1>16, <2>1, <4>1 DEF ImageApart
        <3>2. CASE u = s /\ t # s
            <4>1. after[u] = next /\ after[t] = consoleCalls[t]
                BY <1>15, <3>2 DEF IsPut
            <4> QED BY <1>13, <1>16, <2>1, <4>1 DEF ImageApart
        <3>3. CASE u # s /\ t # s
            BY <1>10, <1>15, <2>2, <3>3 DEF IsPut, ImagesFit
        <3> QED BY <3>1, <3>2, <3>3
    <2>3. ASSUME NEW t \in Slots
          PROVE  ImageFits(after[t], image)
        <3>1. CASE t = s
            <4>1. after[t] = next
                BY <1>15, <3>1 DEF IsPut
            <4> QED BY <1>13, <1>16, <4>1 DEF ImageFits
        <3>2. CASE t # s
            BY <1>10, <1>15, <3>2 DEF IsPut, ImagesFit
        <3> QED BY <3>1, <3>2
    <2> QED BY <2>2, <2>3 DEF ImagesFit
<1>20. SessionsFit(after, cookie)
    <2>1. next.cookie = consoleCalls[s].cookie /\ consoleCalls[s].op # "idle"
        BY <1>1, <1>5, <1>15 DEF SessionTold
    <2> QED BY <1>10, <1>15, <1>16, <2>1, PutSessions
<1>21. ChainFit(after, form, looked)
    <2>1. ChainFit(consoleCalls, form, looked)
        <3>1. IsSpent(form, looked) => IsSpent(form, captchas)
            <4>1. form # None /\ form.shown # 0 => form.shown \in 1..last
                BY <1>13
            <4> QED BY <1>12, <4>1 DEF IsSpent
        <3> QED BY <1>10, <3>1 DEF ChainFit
    <2>2. /\ IsChain(next) => IsChain(call)
          /\ next.op \in FormOps /\ next.here => call.op \in FormOps /\ call.here
          /\ Tries(call) => Tries(next)
        BY <1>5, <1>15 DEF SessionTold, IsChain, Tries, FormRoutes
    <2> QED BY <1>1, <1>15, <2>1, <2>2, PutSame
<1>22. LoaderFit(after, board, open)
    BY <1>1, <1>5, <1>10, <1>15, FormLoader DEF FormOps
<1>23. IdentityFit(after, cookie, sessions, currentUser, met)
    <2>1. consoleCalls[s].op # "logout"
        BY <1>1, <1>5
    <2> QED BY <1>10, <1>15, <1>16, <2>1, PutIdentity
<1>24. PageInv'
    <2>1. route \in FormRoutes => form.shown \in 0..Len(looked) /\ form.typed \in 0..Len(looked)
        BY <1>10, <1>11, <1>12, <1>13 DEF PageInv
    <2> QED BY <1>5, <1>10, <1>12, <2>1 DEF PageInv, mountedPage
<1> QED BY <1>4, <1>5, <1>7, <1>8, <1>9, <1>18, <1>19, <1>20, <1>21, <1>22, <1>23, <1>24 DEF SessionInv, mountedPage

\* What a submission leaves of the images.
LEMMA SpentFits ==
    ASSUME ConsoleAssumption, SessionInv, NEW s \in Slots, consoleCalls[s].op \in FormRoutes, NEW looked,
           looked = captchas \/ (consoleCalls[s].captcha # 0 /\ looked = [captchas EXCEPT ![consoleCalls[s].captcha] = "spent"])
    PROVE  /\ looked \in Seq({"open", "spent"}) /\ Len(looked) = Len(captchas)
           /\ CallsFit(consoleCalls, sessions, looked)
           /\ IsSpent(form, looked) /\ ~IsSpent(form, captchas) =>
                 looked # captchas /\ consoleCalls[s].captcha = form.shown /\ consoleCalls[s].here
<1>1. /\ CallsFit(consoleCalls, sessions, captchas) /\ ImagesFit(consoleCalls, ImageOf(form)) /\ PageInv
      /\ Len(sessions) \in Nat /\ Len(captchas) \in Nat
    BY CallsFound
<1>2. PICK call : call = consoleCalls[s]
    OBVIOUS
<1>3. call.captcha \in 0..Len(captchas) /\ call.here \in BOOLEAN
    <2>1. call.op # "idle"
        BY <1>2 DEF FormRoutes
    <2> QED BY <1>1, <1>2, <2>1 DEF CallsFit, ConsoleCallOK
<1>4. CASE looked = captchas
    BY <1>1, <1>4 DEF PageInv
<1>5. CASE call.captcha # 0 /\ looked = [captchas EXCEPT ![call.captcha] = "spent"]
    <2>1. call.captcha \in 1..Len(captchas)
        BY <1>1, <1>3, <1>5
    <2>2. /\ looked \in Seq({"open", "spent"}) /\ Len(looked) = Len(captchas)
          /\ \A i \in 1..Len(captchas) : looked[i] = IF i = call.captcha THEN "spent" ELSE captchas[i]
        <3>1. captchas \in Seq({"open", "spent"}) /\ "spent" \in {"open", "spent"}
            BY <1>1 DEF PageInv
        <3>2. PICK S : captchas \in Seq(S) /\ "spent" \in S /\ S = {"open", "spent"}
            BY <3>1
        <3>3. PICK e : e = "spent"
            OBVIOUS
        <3>4. PICK i : i = call.captcha
            OBVIOUS
        <3>5. /\ [captchas EXCEPT ![i] = e] \in Seq(S) /\ Len([captchas EXCEPT ![i] = e]) = Len(captchas)
              /\ \A j \in 1..Len(captchas) : [captchas EXCEPT ![i] = e][j] = IF j = i THEN e ELSE captchas[j]
            BY <2>1, <3>2, <3>3, <3>4, ExceptSeq
        <3> QED BY <1>5, <3>2, <3>3, <3>4, <3>5
    <2>3. CallsFit(consoleCalls, sessions, looked)
        <3>1. ASSUME NEW t \in Slots, consoleCalls[t].op = "captcha", Succeeds(consoleCalls[t])
              PROVE  looked[consoleCalls[t].answer.body] = "open"
            <4>1. consoleCalls[t].answer.body \in 1..Len(captchas) /\ captchas[consoleCalls[t].answer.body] = "open"
                BY <1>1, <3>1 DEF CallsFit, ConsoleCallOK
            <4>2. t # s
                BY <1>2, <3>1 DEF FormRoutes
            <4>3. ImageApart(consoleCalls[t], call)
                BY <1>1, <1>2, <4>2 DEF ImagesFit
            <4> QED BY <1>2, <2>2, <3>1, <4>1, <4>3 DEF ImageApart
        <3>2. \A t \in Slots : consoleCalls[t].op \in FormRoutes /\ Succeeds(consoleCalls[t])
                                   => sessions[consoleCalls[t].answer.body].live
            BY <1>1 DEF CallsFit, ConsoleCallOK
        <3>3. Len(captchas) <= Len(looked) /\ Len(looked) \in Nat /\ Len(sessions) <= Len(sessions)
            BY <1>1, <2>2
        <3> QED BY <1>1, <3>1, <3>2, <3>3, CallsGrow
    <2>4. ASSUME IsSpent(form, looked), ~IsSpent(form, captchas)
          PROVE  looked # captchas /\ call.captcha = form.shown /\ call.here
        <3>1. form # None /\ form.shown # 0 /\ looked[form.shown] # "open" /\ captchas[form.shown] = "open"
            BY <2>4 DEF IsSpent
        <3>2. form.shown \in 1..Len(captchas)
            BY <1>1, <3>1 DEF PageInv
        <3>3. call.captcha = form.shown
            BY <2>2, <3>1, <3>2
        <3>4. ImageFits(call, ImageOf(form))
            BY <1>1, <1>2 DEF ImagesFit
        <3>5. call.here
            BY <1>2, <1>3, <3>1, <3>3, <3>4 DEF ImageFits, ImageOf
        <3> QED BY <3>1, <3>3, <3>5
    <2> QED BY <1>2, <2>2, <2>3, <2>4
<1> QED BY <1>2, <1>4, <1>5

\* What an answer to a submission leaves of the form.
LEMMA SubmittedChain ==
    ASSUME ConsoleAssumption, SessionInv, NEW s \in Slots, consoleCalls[s].op \in FormRoutes,
           consoleCalls[s].answer = Unanswered, NEW looked,
           looked = captchas \/ (consoleCalls[s].captcha # 0 /\ looked = [captchas EXCEPT ![consoleCalls[s].captcha] = "spent"]),
           NEW answer, answer.kind \in {"ok", "refused"}, NEW next, SessionTold(consoleCalls[s], answer, next),
           NEW after, IsPut(consoleCalls, s, next, after),
           looked # captchas => ~Pardoned(next)
    PROVE  ChainFit(after, form, looked)
<1>1. PICK call : call = consoleCalls[s]
    OBVIOUS
<1>2. ChainFit(consoleCalls, form, captchas)
    BY CallsFound
<1>3. IsSpent(form, looked) /\ ~IsSpent(form, captchas) =>
          looked # captchas /\ consoleCalls[s].captcha = form.shown /\ consoleCalls[s].here
    BY SpentFits
<1>4. next.op = call.op /\ next.here = call.here /\ next.answer = answer /\ next.op \in FormRoutes /\ next.op # "captcha"
    BY <1>1 DEF SessionTold, FormRoutes
<1>5. answer # Unanswered
    BY DEF Unanswered
<1>6. ~Tries(call)
    BY <1>1 DEF Tries
<1>7. ChainFit(after, form, captchas)
    <2>1. IsChain(next) => IsChain(call)
        BY <1>4 DEF IsChain, FormRoutes
    <2> QED BY <1>1, <1>2, <1>4, <1>6, <2>1, PutSame
<1>8. after[s] = next
    BY DEF IsPut
<1>9. ASSUME IsSpent(form, looked), ~IsSpent(form, captchas)
      PROVE  Tries(after[s])
    <2>1. next.here /\ ~Pardoned(next)
        BY <1>1, <1>3, <1>4, <1>9
    <2> QED BY <1>4, <1>5, <1>8, <2>1 DEF Tries, IsChain
<1> QED BY <1>7, <1>9 DEF ChainFit

\* It refuses a form, and has tried its image where the form must load another.
LEMMA SubmitRefused ==
    ASSUME ConsoleAssumption, SessionInv, NEW s \in Slots, consoleCalls[s].op \in FormRoutes,
           NEW code, AnswerConsole(s, Refused(code)), sessions' = sessions,
           captchas' = captchas \/ (consoleCalls[s].captcha # 0 /\ captchas' = [captchas EXCEPT ![consoleCalls[s].captcha] = "spent"]),
           captchas' # captchas => consoleCalls[s].op = "register" \/ code \in NeedsCaptcha
    PROVE  SessionInv'
<1>1. PICK call : call = consoleCalls[s]
    OBVIOUS
<1>2. PICK answer : answer = Refused(code)
    OBVIOUS
<1>3. PICK looked : looked = captchas'
    OBVIOUS
<1>4. PICK after : after = consoleCalls'
    OBVIOUS
<1>5. /\ UNCHANGED <<mountedPage, cookie, consoleSteps, crossed>> /\ call.answer = Unanswered
      /\ after = [consoleCalls EXCEPT ![s].answer = answer]
    BY <1>1, <1>2, <1>4 DEF AnswerConsole
<1>6. answer.kind = "refused" /\ answer.code = code
    BY <1>2 DEF Refused
<1>7. PICK image : image = ImageOf(form)
    OBVIOUS
<1>8. PICK met : met = crossed
    OBVIOUS
<1>9. PICK open : open = boardStream
    OBVIOUS
<1>10. /\ CallsFit(consoleCalls, sessions, captchas) /\ ImagesFit(consoleCalls, image)
       /\ SessionsFit(consoleCalls, cookie)
       /\ LoaderFit(consoleCalls, board, open)
       /\ IdentityFit(consoleCalls, cookie, sessions, currentUser, met) /\ PageInv
       /\ board # None => board.loader \in Slots \cup {None}
    BY <1>7, <1>8, <1>9, CallsFound
<1>11. /\ looked \in Seq({"open", "spent"}) /\ Len(looked) = Len(captchas)
       /\ CallsFit(consoleCalls, sessions, looked)
    <2>1. looked = captchas \/ (consoleCalls[s].captcha # 0 /\ looked = [captchas EXCEPT ![consoleCalls[s].captcha] = "spent"])
        BY <1>3
    <2> QED BY <2>1, SpentFits
<1>12. call.op \in FormRoutes /\ call.op \in FormOps /\ call.op # "idle" /\ call.op # "me" /\ call.op # "logout"
    BY <1>1 DEF FormRoutes, FormOps
<1>13. PICK next : SessionTold(call, answer, next) /\ IsPut(consoleCalls, s, next, after)
    <2>1. \E x : SessionTold(consoleCalls[s], answer, x) /\ IsPut(consoleCalls, s, x, after)
        BY <1>1, <1>5, <1>10, <1>12, ToldPut
    <2> QED BY <1>1, <2>1
<1>14. /\ next.op = call.op /\ next.here = call.here /\ next.answer = answer /\ next.cookie = call.cookie
       /\ next.captcha = call.captcha /\ ~Succeeds(next)
    BY <1>6, <1>12, <1>13 DEF SessionTold, Succeeds
<1>15. ConsoleCallOK(next, sessions, looked)
    <2>1. ConsoleCallOK(call, sessions, looked)
        BY <1>1, <1>11 DEF CallsFit
    <2> QED BY <1>6, <1>12, <1>13, <2>1, ToldOK
<1>16. CallsFit(after, sessions, looked)
    BY <1>11, <1>13, <1>15, PutCalls
<1>17. ImagesFit(after, image)
    BY <1>1, <1>10, <1>12, <1>13, <1>14, PutSubmission
<1>18. SessionsFit(after, cookie)
    BY <1>1, <1>10, <1>12, <1>13, <1>14, PutSessions
<1>19. ChainFit(after, form, looked)
    <2>1. looked # captchas => ~Pardoned(next)
        BY <1>1, <1>3, <1>6, <1>14 DEF Pardoned
    <2>2. looked = captchas \/ (consoleCalls[s].captcha # 0 /\ looked = [captchas EXCEPT ![consoleCalls[s].captcha] = "spent"])
        BY <1>3
    <2>3. SessionTold(consoleCalls[s], answer, next) /\ consoleCalls[s].answer = Unanswered
        BY <1>1, <1>5, <1>13
    <2>4. answer.kind \in {"ok", "refused"}
        BY <1>6
    <2> QED BY <1>13, <2>1, <2>2, <2>3, <2>4, SubmittedChain
<1>20. LoaderFit(after, board, open)
    BY <1>1, <1>10, <1>12, <1>13, FormLoader
<1>21. IdentityFit(after, cookie, sessions, currentUser, met)
    BY <1>1, <1>10, <1>12, <1>13, <1>14, PutIdentity
<1>22. PageInv'
    BY <1>3, <1>5, <1>10, <1>11 DEF PageInv, mountedPage
<1> QED BY <1>3, <1>4, <1>5, <1>7, <1>8, <1>9, <1>16, <1>17, <1>18, <1>19, <1>20, <1>21, <1>22 DEF SessionInv, mountedPage

\* It accepts a form: a new session, of a role.
LEMMA SubmitAccepted ==
    ASSUME ConsoleAssumption, SessionInv, NEW s \in Slots, consoleCalls[s].op \in FormRoutes,
           NEW role \in Roles, AnswerConsole(s, Ok(Len(sessions) + 1)),
           sessions' = Append(sessions, [role |-> role, live |-> TRUE]),
           captchas' = captchas \/ (consoleCalls[s].captcha # 0 /\ captchas' = [captchas EXCEPT ![consoleCalls[s].captcha] = "spent"])
    PROVE  SessionInv'
<1>1. PICK call : call = consoleCalls[s]
    OBVIOUS
<1>2. PICK answer : answer = Ok(Len(sessions) + 1)
    OBVIOUS
<1>3. PICK looked : looked = captchas'
    OBVIOUS
<1>4. PICK after : after = consoleCalls'
    OBVIOUS
<1>5. /\ UNCHANGED <<mountedPage, cookie, consoleSteps, crossed>> /\ call.answer = Unanswered
      /\ after = [consoleCalls EXCEPT ![s].answer = answer]
    BY <1>1, <1>2, <1>4 DEF AnswerConsole
<1>6. answer.kind = "ok" /\ answer.body = Len(sessions) + 1
    BY <1>2 DEF Ok
<1>7. PICK image : image = ImageOf(form)
    OBVIOUS
<1>8. PICK met : met = crossed
    OBVIOUS
<1>9. PICK open : open = boardStream
    OBVIOUS
<1>10. /\ CallsFit(consoleCalls, sessions, captchas) /\ ImagesFit(consoleCalls, image)
       /\ SessionsFit(consoleCalls, cookie)
       /\ LoaderFit(consoleCalls, board, open)
       /\ IdentityFit(consoleCalls, cookie, sessions, currentUser, met) /\ PageInv
       /\ board # None => board.loader \in Slots \cup {None}
       /\ Len(sessions) \in Nat /\ Len(captchas) \in Nat /\ cookie \in 0..Len(sessions)
    BY <1>7, <1>8, <1>9, CallsFound
<1>11. /\ looked \in Seq({"open", "spent"}) /\ Len(looked) = Len(captchas)
       /\ CallsFit(consoleCalls, sessions, looked)
    <2>1. looked = captchas \/ (consoleCalls[s].captcha # 0 /\ looked = [captchas EXCEPT ![consoleCalls[s].captcha] = "spent"])
        BY <1>3
    <2> QED BY <2>1, SpentFits
<1>12. call.op \in FormRoutes /\ call.op \in FormOps /\ call.op # "idle" /\ call.op # "me" /\ call.op # "logout" /\ call.op # "captcha" /\ call.op # "config"
    BY <1>1 DEF FormRoutes, FormOps
<1>13. PICK last : last = Len(sessions) /\ last \in Nat
    BY <1>10
<1>14. PICK made : made = sessions'
    OBVIOUS
<1>15. /\ made \in Seq([role : Roles, live : BOOLEAN]) /\ Len(made) = last + 1 /\ made[last + 1].live
       /\ \A i \in 1..last : made[i] = sessions[i]
    <2>1. PICK e : e = [role |-> role, live |-> TRUE]
        OBVIOUS
    <2>2. PICK S : sessions \in Seq(S) /\ e \in S /\ S = [role : Roles, live : BOOLEAN]
        <3>1. e \in [role : Roles, live : BOOLEAN]
            BY <2>1
        <3>2. sessions \in Seq([role : Roles, live : BOOLEAN])
            BY <1>10 DEF PageInv
        <3> QED BY <3>1, <3>2
    <2>3. /\ Append(sessions, e) \in Seq(S) /\ Len(Append(sessions, e)) = Len(sessions) + 1
          /\ \A i \in 1..Len(sessions) : Append(sessions, e)[i] = sessions[i]
          /\ Append(sessions, e)[Len(sessions) + 1] = e
        BY <2>2, AppendProperties
    <2>4. e.live
        BY <2>1
    <2> QED BY <1>13, <1>14, <2>1, <2>2, <2>3, <2>4
<1>16. CallsFit(consoleCalls, made, looked)
    <2>1. ASSUME NEW t \in Slots
          PROVE  /\ consoleCalls[t].op = "captcha" /\ Succeeds(consoleCalls[t]) => looked[consoleCalls[t].answer.body] = "open"
                 /\ consoleCalls[t].op \in FormRoutes /\ Succeeds(consoleCalls[t]) => made[consoleCalls[t].answer.body].live
        <3>1. ConsoleCallOK(consoleCalls[t], sessions, looked)
            BY <1>11 DEF CallsFit
        <3> QED BY <1>13, <1>15, <3>1 DEF ConsoleCallOK
    <2>2. Len(sessions) <= Len(made) /\ Len(made) \in Nat /\ Len(looked) <= Len(looked) /\ Len(looked) \in Nat
        BY <1>10, <1>11, <1>13, <1>15
    <2> QED BY <1>10, <1>11, <2>1, <2>2, CallsGrow
<1>17. PICK next : SessionTold(call, answer, next) /\ IsPut(consoleCalls, s, next, after)
    <2>1. \E x : SessionTold(consoleCalls[s], answer, x) /\ IsPut(consoleCalls, s, x, after)
        BY <1>1, <1>5, <1>10, <1>12, ToldPut
    <2> QED BY <1>1, <2>1
<1>18. /\ next.op = call.op /\ next.here = call.here /\ next.answer = answer /\ next.cookie = call.cookie
       /\ next.captcha = call.captcha /\ next.answer.body = last + 1
    BY <1>6, <1>12, <1>13, <1>17 DEF SessionTold
<1>19. ConsoleCallOK(next, made, looked)
    <2>1. ConsoleCallOK(call, made, looked)
        BY <1>1, <1>16 DEF CallsFit
    <2>2. answer.body \in 1..Len(made) /\ made[answer.body].live
        BY <1>6, <1>13, <1>15
    <2> QED BY <1>6, <1>12, <1>17, <2>1, <2>2, ToldOK
<1>20. CallsFit(after, made, looked)
    BY <1>16, <1>17, <1>19, PutCalls
<1>21. ImagesFit(after, image)
    BY <1>1, <1>10, <1>12, <1>17, <1>18, PutSubmission
<1>22. SessionsFit(after, cookie)
    <2>1. \A t \in Slots : /\ consoleCalls[t].op \in FormRoutes /\ Succeeds(consoleCalls[t]) => consoleCalls[t].answer.body \in 1..last
                           /\ consoleCalls[t].op # "idle" => consoleCalls[t].cookie \in 0..last
        BY <1>10, <1>13 DEF CallsFit, ConsoleCallOK
    <2>2. next.cookie \in 0..last
        BY <1>1, <1>12, <1>18, <2>1
    <2>3. ASSUME NEW t \in Slots, NEW u \in Slots, t # u
          PROVE  SessionApart(after[t], after[u])
        <3>1. CASE t = s
            <4>1. after[t] = next /\ after[u] = consoleCalls[u]
                BY <1>17, <2>3, <3>1 DEF IsPut
            <4> QED BY <1>13, <1>18, <2>1, <4>1 DEF SessionApart
        <3>2. CASE u = s /\ t # s
            <4>1. after[u] = next /\ after[t] = consoleCalls[t]
                BY <1>17, <3>2 DEF IsPut
            <4>2. SessionApart(consoleCalls[t], consoleCalls[s])
                BY <1>10, <3>2 DEF SessionsFit
            <4> QED BY <1>1, <1>12, <1>13, <1>18, <2>1, <4>1, <4>2 DEF SessionApart
        <3>3. CASE u # s /\ t # s
            BY <1>10, <1>17, <2>3, <3>3 DEF IsPut, SessionsFit
        <3> QED BY <3>1, <3>2, <3>3
    <2>4. ASSUME NEW t \in Slots, after[t].op \in FormRoutes, Succeeds(after[t])
          PROVE  after[t].answer.body # cookie
        <3>1. CASE t = s
            <4>1. after[t] = next
                BY <1>17, <3>1 DEF IsPut
            <4> QED BY <1>10, <1>13, <1>18, <4>1
        <3>2. CASE t # s
            BY <1>10, <1>17, <2>4, <3>2 DEF IsPut, SessionsFit
        <3> QED BY <3>1, <3>2
    <2> QED BY <2>3, <2>4 DEF SessionsFit
<1>23. ChainFit(after, form, looked)
    <2>1. ~Pardoned(next)
        BY <1>6, <1>18 DEF Pardoned
    <2>2. looked = captchas \/ (consoleCalls[s].captcha # 0 /\ looked = [captchas EXCEPT ![consoleCalls[s].captcha] = "spent"])
        BY <1>3
    <2>3. SessionTold(consoleCalls[s], answer, next) /\ consoleCalls[s].answer = Unanswered
        BY <1>1, <1>5, <1>17
    <2>4. answer.kind \in {"ok", "refused"}
        BY <1>6
    <2> QED BY <1>17, <2>1, <2>2, <2>3, <2>4, SubmittedChain
<1>24. LoaderFit(after, board, open)
    BY <1>1, <1>10, <1>12, <1>17, FormLoader
<1>25. IdentityFit(after, cookie, made, currentUser, met)
    <2>1. \A x : Signed(cookie, sessions, x) => Signed(cookie, made, x)
        BY <1>10, <1>13, <1>15 DEF Signed
    <2>2. IdentityFit(consoleCalls, cookie, made, currentUser, met)
        BY <1>10, <2>1 DEF IdentityFit
    <2> QED BY <1>1, <1>12, <1>17, <1>18, <2>2, PutIdentity
<1>26. PageInv'
    <2>1. cookie \in 0..Len(made)
        BY <1>10, <1>13, <1>15
    <2> QED BY <1>3, <1>5, <1>10, <1>11, <1>14, <1>15, <2>1 DEF PageInv, mountedPage
<1> QED BY <1>3, <1>4, <1>5, <1>7, <1>8, <1>9, <1>14, <1>20, <1>21, <1>22, <1>23, <1>24, <1>25, <1>26 DEF SessionInv, mountedPage

\* Accepted or refused, an image is tried once.
LEMMA ServeSubmitKeeps ==
    ASSUME ConsoleAssumption, SessionInv, NEW s \in Slots, ServeSubmit(s)
    PROVE  SessionInv'
<1>1. PICK call : call = consoleCalls[s]
    OBVIOUS
<1>2. call.op \in FormRoutes /\ consoleCalls[s].op \in FormRoutes
    BY <1>1 DEF ServeSubmit
<1>3. PICK checked \in BOOLEAN : checked = (call.op = "register" \/ strict)
    OBVIOUS
<1>4. IF checked THEN Spend(call) ELSE UNCHANGED captchas
    BY <1>1, <1>3 DEF ServeSubmit
<1>5. captchas' = captchas \/ (consoleCalls[s].captcha # 0 /\ captchas' = [captchas EXCEPT ![consoleCalls[s].captcha] = "spent"])
    BY <1>1, <1>4 DEF Spend
<1>6. captchas' # captchas => checked
    BY <1>4
<1>7. \/ AnswerConsole(s, Refused("LOGIN_CAPTCHA_INVALID")) /\ sessions' = sessions
      \/ /\ strict' \in IF call.op = "login" THEN {strict, TRUE} ELSE {strict}
         /\ AnswerConsole(s, Refused(IF call.op = "login" /\ strict' THEN "LOGIN_CAPTCHA_REQUIRED"
                                     ELSE "AUTH_INVALID_CREDENTIALS"))
         /\ sessions' = sessions
      \/ /\ \E role \in IF call.op = "login" THEN Roles ELSE {"user"} :
               sessions' = Append(sessions, [role |-> role, live |-> TRUE])
         /\ AnswerConsole(s, Ok(Len(sessions) + 1))
    BY <1>1, <1>3 DEF ServeSubmit
<1>8. CASE AnswerConsole(s, Refused("LOGIN_CAPTCHA_INVALID")) /\ sessions' = sessions
    <2>1. PICK code : code = "LOGIN_CAPTCHA_INVALID"
        OBVIOUS
    <2>2. code \in NeedsCaptcha /\ AnswerConsole(s, Refused(code))
        BY <1>8, <2>1 DEF NeedsCaptcha
    <2> QED BY <1>2, <1>5, <1>8, <2>2, SubmitRefused
<1>9. CASE /\ strict' \in IF call.op = "login" THEN {strict, TRUE} ELSE {strict}
           /\ AnswerConsole(s, Refused(IF call.op = "login" /\ strict' THEN "LOGIN_CAPTCHA_REQUIRED"
                                       ELSE "AUTH_INVALID_CREDENTIALS"))
           /\ sessions' = sessions
    <2>1. PICK code : code = IF call.op = "login" /\ strict' THEN "LOGIN_CAPTCHA_REQUIRED" ELSE "AUTH_INVALID_CREDENTIALS"
        OBVIOUS
    <2>2. AnswerConsole(s, Refused(code))
        BY <1>9, <2>1
    <2>3. checked => call.op = "register" \/ code \in NeedsCaptcha
        <3>1. SUFFICES ASSUME checked, call.op # "register"
                       PROVE  code \in NeedsCaptcha
            OBVIOUS
        <3>2. call.op = "login" /\ strict
            BY <1>2, <1>3, <3>1 DEF FormRoutes
        <3>3. strict' \in {strict, TRUE}
            BY <1>9, <3>2
        <3>4. strict'
            BY <3>2, <3>3
        <3> QED BY <2>1, <3>2, <3>4 DEF NeedsCaptcha
    <2> QED BY <1>1, <1>2, <1>5, <1>6, <1>9, <2>2, <2>3, SubmitRefused
<1>10. CASE /\ \E role \in IF call.op = "login" THEN Roles ELSE {"user"} :
                  sessions' = Append(sessions, [role |-> role, live |-> TRUE])
            /\ AnswerConsole(s, Ok(Len(sessions) + 1))
    <2>1. PICK role \in Roles : sessions' = Append(sessions, [role |-> role, live |-> TRUE])
        BY <1>10 DEF Roles
    <2> QED BY <1>2, <1>5, <1>10, <2>1, SubmitAccepted
<1> QED BY <1>7, <1>8, <1>9, <1>10

\* The browser opens a page, with no session or with one.
LEMMA SessionStart == ConsoleAssumption /\ ConsoleInit => SessionInv
<1> SUFFICES ASSUME ConsoleAssumption, ConsoleInit
             PROVE  SessionInv
    OBVIOUS
<1>1. DOMAIN consoleCalls = Slots /\ \A s \in Slots : consoleCalls[s] = NoCall
    BY DEF ConsoleInit, NoCalls
<1>3. CallsFit(consoleCalls, sessions, captchas)
    BY <1>1, NoCallFits DEF CallsFit
<1>4. ImagesFit(consoleCalls, ImageOf(form)) /\ SessionsFit(consoleCalls, cookie)
    BY <1>1, NoCallFits DEF ImagesFit, SessionsFit, ImageApart, ImageFits, SessionApart
<1>5. FreshBoard \in BoardStates /\ FreshBoard.loader = None /\ FreshForm \in FormStates /\ FreshForm.shown = 0 /\ FreshForm.typed = 0
    BY DEF FreshBoard, BoardStates, FreshForm, FormStates
<1>6. ChainFit(consoleCalls, form, captchas)
    <2>1. ~IsSpent(form, captchas)
        BY <1>5 DEF ConsoleInit, IsSpent
    <2> QED BY <1>1, <2>1, NoCallFits DEF ChainFit
<1>7. board = BoardOn(route, None) /\ boardStream = FALSE
    BY DEF ConsoleInit
<1>8. LoaderFit(consoleCalls, board, boardStream)
    BY <1>5, <1>7 DEF LoaderFit, BoardOn
<1>9. IdentityFit(consoleCalls, cookie, sessions, currentUser, crossed)
    BY <1>1, NoCallFits DEF IdentityFit, ConsoleInit
<1>10. sessions \in Seq([role : Roles, live : BOOLEAN]) /\ cookie \in 0..Len(sessions)
    <2>1. PICK role \in Roles \cup {None} :
             /\ sessions = IF role = None THEN <<>> ELSE <<[role |-> role, live |-> TRUE]>>
             /\ cookie = Len(sessions)
        BY DEF ConsoleInit
    <2>2. CASE role = None
        BY <2>1, <2>2
    <2>3. CASE role # None
        <3>1. PICK e : e = [role |-> role, live |-> TRUE]
            OBVIOUS
        <3>2. e \in [role : Roles, live : BOOLEAN]
            BY <2>3, <3>1
        <3>3. sessions = <<e>>
            BY <2>1, <2>3, <3>1
        <3>4. PICK S : S = [role : Roles, live : BOOLEAN]
            OBVIOUS
        <3>5. e \in S
            BY <3>2, <3>4
        <3>6. <<e>> \in Seq(S) /\ Len(<<e>>) = 1
            BY <3>5
        <3>7. sessions \in Seq([role : Roles, live : BOOLEAN])
            BY <3>3, <3>4, <3>6
        <3>8. Len(sessions) = 1 /\ cookie = Len(sessions)
            BY <2>1, <3>3, <3>6
        <3>9. cookie \in 0..Len(sessions)
            BY <3>8
        <3> QED BY <3>7, <3>9
    <2> QED BY <2>2, <2>3
<1>11. captchas \in Seq({"open", "spent"}) /\ Len(captchas) = 0
    BY DEF ConsoleInit
<1>12. PageInv
    <2>1. /\ route \in Routes /\ currentUser = None /\ form = IF route \in FormRoutes THEN FreshForm ELSE None
        BY DEF ConsoleInit, Routes
    <2>2. board \in BoardStates \cup {None} /\ (board # None => route = "dashboard")
        BY <1>5, <1>7, ConsoleAssumption DEF BoardOn
    <2>3. 0 \in 0..Len(captchas)
        BY <1>11
    <2> QED BY <1>5, <1>7, <1>10, <1>11, <2>1, <2>2, <2>3 DEF PageInv
<1> QED BY <1>3, <1>4, <1>6, <1>8, <1>9, <1>12 DEF SessionInv

\* A step of another page.
LEMMA SessionStutters ==
    ASSUME SessionInv, UNCHANGED consoleVars
    PROVE  SessionInv'
BY DEF SessionInv, PageInv, consoleVars

\* The step of the session, action by action.
LEMMA SessionKept == ConsoleAssumption /\ SessionInv /\ [ConsoleNext]_consoleVars => SessionInv'
<1> SUFFICES ASSUME ConsoleAssumption, SessionInv, [ConsoleNext]_consoleVars
             PROVE  SessionInv'
    OBVIOUS
<1>1. CASE AskConfig
    BY <1>1, AskConfigKeeps
<1>2. CASE AskCaptcha
    BY <1>2, AskCaptchaKeeps
<1>3. CASE TypeCaptcha
    BY <1>3, TypeCaptchaKeeps
<1>4. CASE SubmitForm
    BY <1>4, SubmitFormKeeps
<1>5. CASE SwitchForm
    BY <1>5, SwitchFormKeeps
<1>6. CASE Authorize
    BY <1>6, AuthorizeKeeps
<1>7. CASE RetryAuthorize
    BY <1>7, RetryAuthorizeKeeps
<1>8. CASE LoadBoard
    BY <1>8, LoadBoardKeeps
<1>9. CASE TurnAwayAdmin
    BY <1>9, TurnAwayAdminKeeps
<1>10. CASE Logout
    BY <1>10, LogoutKeeps
<1>11. CASE EndSession
    BY <1>11, EndSessionKeeps
<1>12. ASSUME NEW r \in Framed, Navigate(r) \/ ChooseResult(r)
       PROVE  SessionInv'
    BY <1>12, FollowKeeps DEF Navigate, ChooseResult
<1>13. ASSUME NEW s \in Slots, LandConfig(s)
       PROVE  SessionInv'
    BY <1>13, LandConfigKeeps
<1>14. ASSUME NEW s \in Slots, LandCaptcha(s)
       PROVE  SessionInv'
    BY <1>14, LandCaptchaKeeps
<1>15. ASSUME NEW s \in Slots, LandSubmit(s)
       PROVE  SessionInv'
    BY <1>15, LandSubmitKeeps
<1>16. ASSUME NEW s \in Slots, LandMe(s)
       PROVE  SessionInv'
    BY <1>16, LandMeKeeps
<1>17. ASSUME NEW s \in Slots, LandSnapshot(s)
       PROVE  SessionInv'
    BY <1>17, LandSnapshotKeeps
<1>18. ASSUME NEW s \in Slots, LandLogout(s)
       PROVE  SessionInv'
    BY <1>18, LandLogoutKeeps
<1>19. ASSUME NEW s \in Slots, ServeSettings(s)
       PROVE  SessionInv'
    BY <1>19, ServeSettingsKeeps
<1>20. ASSUME NEW s \in Slots, ServeCaptcha(s)
       PROVE  SessionInv'
    BY <1>20, ServeCaptchaKeeps
<1>21. ASSUME NEW s \in Slots, ServeSubmit(s)
       PROVE  SessionInv'
    BY <1>21, ServeSubmitKeeps
<1>22. ASSUME NEW s \in Slots, ServeSession(s)
       PROVE  SessionInv'
    BY <1>22, ServeSessionKeeps
<1>23. ASSUME NEW s \in Slots, LoseConsoleAnswer(s)
       PROVE  SessionInv'
    BY <1>23, LoseConsoleAnswerKeeps
<1>24. CASE UNCHANGED consoleVars
    BY <1>24, SessionStutters
<1> QED BY <1>1, <1>2, <1>3, <1>4, <1>5, <1>6, <1>7, <1>8, <1>9, <1>10, <1>11, <1>12, <1>13, <1>14, <1>15,
           <1>16, <1>17, <1>18, <1>19, <1>20, <1>21, <1>22, <1>23, <1>24 DEF ConsoleNext

\* What the run checks.
LEMMA SessionInvImplies ==
    ASSUME ConsoleAssumption, SessionInv
    PROVE  ConsoleTypeOK /\ FreshChallenge /\ StreamIsOfMountedPage /\ ShownUserIsSignedIn
<1>1. ConsoleTypeOK
    <2>1. form # None <=> route \in FormRoutes
        <3>1. route \in FormRoutes => form \in FormStates
            BY DEF SessionInv, PageInv
        <3>2. route \in FormRoutes => form # None
            BY <3>1 DEF ConsoleAssumption
        <3> QED BY <3>2 DEF SessionInv, PageInv
    <2> QED BY <2>1 DEF SessionInv, PageInv, ConsoleTypeOK
<1>2. FreshChallenge
    <2>1. SUFFICES ASSUME form # None, ~form.submitting, form.shown # 0, ~form.kept, captchas[form.shown] # "open"
                   PROVE  FALSE
        BY DEF FreshChallenge
    <2>2. PICK s \in Slots : Tries(consoleCalls[s])
        BY <2>1 DEF SessionInv, ChainFit, IsSpent
    <2>3. form.submitting
        BY <2>2 DEF SessionInv, ChainFit, Tries
    <2> QED BY <2>1, <2>3
<1>3. StreamIsOfMountedPage
    BY DEF SessionInv, LoaderFit, StreamIsOfMountedPage
<1>4. ShownUserIsSignedIn
    <2>1. SUFFICES ASSUME currentUser # None, ~crossed, Waiting(consoleCalls, {"logout"}) = {}
                   PROVE  Alive(cookie) /\ sessions[cookie].role = currentUser
        BY DEF ShownUserIsSignedIn
    <2>2. \A s \in Slots : consoleCalls[s].op # "logout"
        BY <2>1 DEF Waiting
    <2>3. Signed(cookie, sessions, currentUser)
        BY <2>1, <2>2 DEF SessionInv, IdentityFit
    <2> QED BY <2>3 DEF Signed, Alive
<1> QED BY <1>1, <1>2, <1>3, <1>4

-----------------------------------------------------------------------------
(* All the pages *)

\* The inductive invariant of all the pages.
PagesInv ==
    /\ BoardInv /\ RemovalInv /\ RevisionsInv /\ HistoryInv /\ DeskInv /\ UsersInv /\ SystemInv
    /\ SessionInv

\* The pages start apart from each other, and each in its invariant.
LEMMA PagesStart == MCInit => PagesInv
BY BoardStart, RevisionsStart, HistoryStart, DeskStart, UsersStart, SystemStart, SessionStart,
   ConsoleAssumption DEF MCInit, PagesInv

\* A step is one of a page, which all the others do not notice.
LEMMA StepOfOnePage ==
    ASSUME [MCNext]_pagesVars
    PROVE  /\ [RevisionsNext]_revisionVars /\ [HistoryNext]_historyVars /\ [DeskNext]_deskVars
           /\ [UsersNext]_usersVars /\ [SystemNext]_systemVars /\ [BoardNext]_boardVars
           /\ [ConsoleNext]_consoleVars
BY DEF MCNext, pagesVars

\* So a step of any page keeps the invariant of all of them.
LEMMA PagesKept == PagesInv /\ [MCNext]_pagesVars => PagesInv'
<1> SUFFICES ASSUME PagesInv, [MCNext]_pagesVars PROVE PagesInv'
    OBVIOUS
<1>1. RevisionsInv' /\ HistoryInv' /\ DeskInv'
    BY StepOfOnePage, RevisionsKept, HistoryKept, DeskKept DEF PagesInv
<1>2. UsersInv' /\ SystemInv' /\ BoardInv' /\ RemovalInv'
    BY StepOfOnePage, UsersKept, SystemKept, BoardKept, RemovalKept DEF PagesInv
<1>3. SessionInv'
    BY StepOfOnePage, SessionKept, ConsoleAssumption DEF PagesInv
<1> QED BY <1>1, <1>2, <1>3 DEF PagesInv

\* It always holds.
LEMMA PagesInvariance == MCSpec => []PagesInv
BY PagesStart, PagesKept, PTL DEF MCSpec

\* What is on the page belongs to what is selected there now.
THEOREM AnswersBelong == MCSpec => []AnswersAreOfSelection
<1>1. PagesInv => AnswersAreOfSelection
    BY UsersInvImplies, DeskInvImplies, RevisionsInvImplies, HistoryInvImplies
       DEF PagesInv, AnswersAreOfSelection
<1> QED BY <1>1, PagesInvariance, PTL

\* What an administrator is shown is stored.
THEOREM ShownStays == MCSpec => []ShownIsCurrent
<1>1. PagesInv => ShownIsCurrent
    BY UsersInvImplies, DeskInvImplies, SystemInvImplies DEF PagesInv, ShownIsCurrent
<1> QED BY <1>1, PagesInvariance, PTL

\* Records are deleted earlier only by an administrator who confirmed it.
THEOREM ShorteningWasConfirmed == MCSpec => ShorteningIsConfirmed
<1>1. PagesInv /\ [MCNext]_pagesVars =>
        [depot'.policy # depot.policy =>
           \E s \in Slots : LET call == systemCalls[s] IN
               /\ call.op = "save" /\ call # systemCalls'[s]
               /\ \/ call.confirmed \/ ~call.sure \/ ~call.alone
                  \/ ~(depot'.policy.retention < depot.policy.retention)]_systemVars
    BY StepOfOnePage, ShorteningStep DEF PagesInv
<1> QED BY <1>1, PagesInvariance, PTL DEF MCSpec, ShorteningIsConfirmed

\* What changes an announcement names the row and the version the desk showed.
THEOREM ChangesWereSeen == MCSpec => ChangesWhatWasShown
<1>1. PagesInv /\ [MCNext]_pagesVars =>
        [\A s \in Slots :
          LET call == deskCalls[s] IN
          /\ call.op \in DeskChanges \ {"copy"} /\ call.answer = Unanswered
          /\ deskCalls'[s].op = call.op /\ deskCalls'[s].answer.kind = "ok"
          => \/ call.saw = None /\ call.id = "new"
             \/ call.saw # None /\ posts[call.id].text = call.saw.text
                                /\ posts[call.id].version = call.saw.version]_deskVars
    BY StepOfOnePage, ChangesWhatWasShownStep DEF PagesInv
<1> QED BY <1>1, PagesInvariance, PTL DEF MCSpec, ChangesWhatWasShown

\* An administrator changes what he saw.
THEOREM InformedWrites == MCSpec => WritesAreInformed
BY ShorteningWasConfirmed, ChangesWereSeen DEF WritesAreInformed

\* No button of the console stays locked without the request that frees it.
THEOREM LocksStayLive == MCSpec => []ConsoleLocksAreLive
<1>1. PagesInv => ConsoleLocksAreLive
    BY BoardInvImplies, UsersInvImplies, SystemInvImplies, DeskInvImplies DEF PagesInv, ConsoleLocksAreLive
<1> QED BY <1>1, PagesInvariance, PTL

\* The board shows the backend's piles while its stream is in step, and marks what may be old.
THEOREM BoardStays == MCSpec => []BoardIsCurrent
<1>1. PagesInv => BoardIsCurrent
    BY BoardInvImplies DEF PagesInv, BoardIsCurrent
<1> QED BY <1>1, PagesInvariance, PTL

\* The page never goes back to a snapshot of an earlier millisecond.
THEOREM NeverOlderShown == MCSpec => NeverOlder
<1>1. PagesInv /\ [MCNext]_pagesVars => [stamp' >= stamp /\ shown'.at >= shown.at]_boardVars
    BY StepOfOnePage, NeverOlderStep DEF PagesInv
<1> QED BY <1>1, PagesInvariance, PTL DEF MCSpec, NeverOlder

\* When a change ends well the page shows it, or the stream brings it, or the page is marked
\* as old because the last read of a removal failed after its stream broke.
THEOREM ChangesReachThePage == MCSpec => ChangesAreShown
<1>1. PagesInv /\ [MCNext]_pagesVars =>
       [\A s \in Slots :
          LET call == boardCalls[s] IN
          /\ call.op \in {"edit", "remove", "sync", "settle"} /\ boardCalls'[s] = NoCall
          /\ EndsWell(call)
          => \/ stamp' >= Since(call)
             \/ link' = "open" /\ (dropped' \/ \E i \in DOMAIN frames' : frames'[i].at >= Since(call))
             \/ call.op = "settle" /\ call.answer.kind # "ok" /\ link' \in {"error", "dead"}
      ]_boardVars
    BY StepOfOnePage, ChangesAreShownStep DEF PagesInv
<1> QED BY <1>1, PagesInvariance, PTL DEF MCSpec, ChangesAreShown

\* Both together, as the run checks them.
THEOREM SnapshotsAdvance == MCSpec => SnapshotsOnlyAdvance
BY NeverOlderShown, ChangesReachThePage DEF SnapshotsOnlyAdvance

\* The page, its stream, its user and its form are those of the session of the browser.
THEOREM SessionStays == MCSpec => []SessionIsCurrent
<1>1. PagesInv => SessionIsCurrent
    BY SessionInvImplies, ConsoleAssumption DEF PagesInv, SessionIsCurrent
<1> QED BY <1>1, PagesInvariance, PTL

=============================================================================
