---------------------------- MODULE ClockWindows ----------------------------
(***************************************************************************)
(* The console's calculations with the minutes of a day: the quiet hours,  *)
(* the nightly power cut, and how often a reminder will be checked.  The   *)
(* reference is a clock that walks through the day and is told only when a *)
(* window opens and closes, and a reminder that is checked as time passes. *)
(***************************************************************************)
EXTENDS Naturals, FiniteSets

CONSTANTS Day,        \* minutes of a day (1440)
          Durations,  \* minutes of the temporary durations (60, 120, 240)
          Intervals   \* minutes between two checks

ASSUME DayAssumption ==
    /\ Day \in Nat \ {0} /\ Durations \subseteq Nat \ {0} /\ Intervals \subseteq Nat \ {0}

VARIABLES
    startMinute, endMinute,  \* a window of the settings or the preference
    clock,       \* the minute of the day in the window's time zone
    walked,      \* minutes since the walk began, up to two days
    inWindow,    \* told at the window's ends only
    duration,    \* the duration that was chosen
    interval,
    checks,      \* checks of a reminder that began with the walk
    windowChecks \* checks in the window that opened last

clockVars == <<startMinute, endMinute, clock, walked, inWindow, duration, interval,
               checks, windowChecks>>

-----------------------------------------------------------------------------
\* faulty: a window over midnight is empty
WithoutMidnight(minute, start, end) ==
    \/ start = end
    \/ minute >= start /\ minute < end

\* isWithinWindow, and isQuietHours of a preference that has them: equal ends mean the
\* whole day, and a window may pass midnight.
IsWithinWindow(minute, start, end) ==
    \/ start = end
    \/ start < end /\ minute >= start /\ minute < end
    \/ start > end /\ (minute >= start \/ minute < end)

CeilDiv(a, b) == (a + b - 1) \div b

\* faulty: the last, partial interval is not counted
FloorChecks(minutes, every) == IF minutes < every THEN 1 ELSE minutes \div every

AtLeastOne(minutes, every) ==
    IF CeilDiv(minutes, every) = 0 THEN 1 ELSE CeilDiv(minutes, every)

EstimatedTemporaryChecks(minutes, every) == AtLeastOne(minutes, every)

\* faulty: the minutes after midnight are left out
UntilMidnight(start, end) ==
    IF start = end THEN Day ELSE IF end > start THEN end - start ELSE Day - start

WindowMinutes(start, end) ==
    IF start = end THEN Day ELSE IF end > start THEN end - start ELSE Day - start + end

EstimatedRecurringChecks(start, end, every) == AtLeastOne(WindowMinutes(start, end), every)

\* formatRemainingTime: whole minutes, none once the time is over.
RemainingMinutes(minutes, now) == IF now >= minutes THEN 0 ELSE minutes - now

-----------------------------------------------------------------------------
ClockInit ==
    /\ startMinute \in 0..(Day - 1) /\ endMinute \in 0..(Day - 1)
    /\ clock = 0 /\ walked = 0
    /\ inWindow = (startMinute = 0 \/ startMinute = endMinute)
    /\ duration \in Durations /\ interval \in Intervals
    /\ checks = 0 /\ windowChecks = 0

\* A minute passes.  The reminder is checked at its start and once per interval
\* until its duration is over; the window likewise from the minute it opens.
MinutePasses ==
    LET next == (clock + 1) % Day
        opened == startMinute = next
        age == (next + Day - startMinute) % Day
        still == inWindow' /\ age % interval = 0
    IN /\ walked < 3 * Day /\ walked' = walked + 1
       /\ clock' = next
       /\ inWindow' = (opened \/ (inWindow /\ (endMinute # next \/ startMinute = endMinute)))
       /\ checks' = IF walked < duration /\ walked % interval = 0 THEN checks + 1 ELSE checks
       /\ windowChecks' = IF opened THEN 1
                          ELSE IF still THEN windowChecks + 1 ELSE windowChecks
       /\ UNCHANGED <<startMinute, endMinute, duration, interval>>

ClockSpec == ClockInit /\ [][MinutePasses]_clockVars

-----------------------------------------------------------------------------
\* After a day of walking, the formula and the walk agree on every minute: windows
\* over midnight, whole days and windows of a minute included (notification-time.ts:17-28,
\* watch-rule-dialog.tsx:67-72).
WindowsAgree ==
    walked >= Day => (inWindow <=> IsWithinWindow(clock, startMinute, endMinute))

\* The promised number of checks is the number a reminder makes in its duration
\* (watch-format.ts:79-88).
TemporaryEstimateIsExact ==
    RemainingMinutes(duration, walked) = 0 =>
        checks = EstimatedTemporaryChecks(duration, interval)

\* And the number of checks in a window that was opened and has closed again
\* (watch-format.ts:90-103).
RecurringEstimateIsExact ==
    walked >= 2 * Day /\ ~inWindow =>
        windowChecks = EstimatedRecurringChecks(startMinute, endMinute, interval)
=============================================================================
