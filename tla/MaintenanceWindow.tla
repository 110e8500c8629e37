------------------------- MODULE MaintenanceWindow -------------------------
(***************************************************************************)
(* The daily window of a scheduled update (update-policy.ts): minutes of   *)
(* the day, the window on both sides of the scheduled one, wrapping at     *)
(* midnight.  The clock is the console's local time; the hour that         *)
(* daylight saving skips or repeats is not modelled.                       *)
(***************************************************************************)
EXTENDS Integers, TLAPS

CONSTANT Schedules   \* the scheduled minutes, NoTime: text that is none

VARIABLES winSchedule, winNow

winVars == <<winSchedule, winNow>>

Day == 1440
Window == 15          \* SCHEDULED_WINDOW_MINUTES
Minutes == 0..(Day - 1)
NoTime == Day

ASSUME SchedulesAreMinutes == Schedules \subseteq Minutes \cup {NoTime}

\* scheduledWindowDue
Lower(schedule) == (schedule - Window + Day) % Day
Upper(schedule) == (schedule + Window) % Day
\* MUTANT: midnight is forgotten.
WindowDueSameDay(schedule, now) ==
    schedule # NoTime /\ now >= Lower(schedule) /\ now <= Upper(schedule)

WindowDue(schedule, now) ==
    /\ schedule # NoTime
    /\ IF Lower(schedule) <= Upper(schedule)
       THEN now >= Lower(schedule) /\ now <= Upper(schedule)
       ELSE now >= Lower(schedule) \/ now <= Upper(schedule)

WindowInit == winSchedule \in Schedules /\ winNow = 0
Minute == winNow' = (winNow + 1) % Day /\ UNCHANGED winSchedule
WindowNext == Minute
WindowSpec == WindowInit /\ [][WindowNext]_winVars

----------------------------------------------------------------------------
\* The minutes between two times of the day, the shorter way round.
Apart(a, b) == LET d == IF a >= b THEN a - b ELSE b - a IN IF 2 * d <= Day THEN d ELSE Day - d

\* "within SCHEDULED_WINDOW_MINUTES of the scheduled minute (wrapping midnight)":
\* the two modulo bounds and the two comparisons mean exactly that.
DueIsNear == winSchedule # NoTime => (WindowDue(winSchedule, winNow) <=> Apart(winSchedule, winNow) <= Window)

\* DueIsNear for every schedule and every minute, not only those of a run.
THEOREM WindowIsCircular ==
    \A s \in Minutes, n \in Minutes : WindowDue(s, n) <=> Apart(s, n) <= Window
<1> SUFFICES ASSUME NEW s \in Minutes, NEW n \in Minutes
             PROVE WindowDue(s, n) <=> Apart(s, n) <= Window
    OBVIOUS
<1>1. Lower(s) = IF s >= Window THEN s - Window ELSE s - Window + Day
      BY SMT DEF Lower, Window, Day, Minutes
<1>2. Upper(s) = IF s + Window < Day THEN s + Window ELSE s + Window - Day
      BY SMT DEF Upper, Window, Day, Minutes
<1>3. CASE s < Window
      BY <1>1, <1>2, <1>3, SMT DEF WindowDue, Apart, Window, Day, NoTime, Minutes
<1>4. CASE s >= Window /\ s + Window < Day
      BY <1>1, <1>2, <1>4, SMT DEF WindowDue, Apart, Window, Day, NoTime, Minutes
<1>5. CASE s + Window >= Day
      BY <1>1, <1>2, <1>5, SMT DEF WindowDue, Apart, Window, Day, NoTime, Minutes
<1> QED BY <1>3, <1>4, <1>5, SMT DEF Minutes, Window, Day

\* The clock stays a minute of the day and the schedule one of those given.
WindowTypeOK == winSchedule \in Schedules /\ winNow \in Minutes
\* The clock and the schedule are minutes of the day.
THEOREM WindowTyping == WindowSpec => []WindowTypeOK
<1>1. WindowInit => WindowTypeOK
      BY DEF WindowInit, WindowTypeOK, Minutes, Day
<1>2. WindowTypeOK /\ [WindowNext]_winVars => WindowTypeOK'
  <2> SUFFICES ASSUME WindowTypeOK, [WindowNext]_winVars PROVE WindowTypeOK'
      OBVIOUS
  <2>1. CASE Minute
        BY <2>1, SMT DEF Minute, WindowTypeOK, Minutes, Day
  <2>2. CASE UNCHANGED winVars
        BY <2>2 DEF winVars, WindowTypeOK
  <2> QED BY <2>1, <2>2 DEF WindowNext
<1> QED BY <1>1, <1>2, PTL DEF WindowSpec

\* The window is near the schedule in every state of every run.
THEOREM WindowNear == WindowSpec => []DueIsNear
<1>1. WindowTypeOK => DueIsNear
  <2> SUFFICES ASSUME WindowTypeOK, winSchedule # NoTime
               PROVE WindowDue(winSchedule, winNow) <=> Apart(winSchedule, winNow) <= Window
      BY DEF DueIsNear
  <2>1. winSchedule \in Minutes /\ winNow \in Minutes
        BY SchedulesAreMinutes DEF WindowTypeOK
  <2> QED BY <2>1, WindowIsCircular
<1> QED BY <1>1, WindowTyping, PTL
=============================================================================
