------------------------------ MODULE Calendar ------------------------------
(***************************************************************************)
(* The alarm of the calendar clock in pico_runtime.c: one alarm of the     *)
(* always-on timer, and the count of events its handler keeps for the      *)
(* program.  The handler can run between any two steps of a call but those *)
(* made with interrupts disabled.  The conversion of the time is in        *)
(* CivilDates; a call whose time is refused changes nothing.               *)
(***************************************************************************)
EXTENDS Naturals, FiniteSets

CONSTANTS
  MaxEvents,   \* UINT32_MAX: where the count saturates
  MaxAlarms    \* bound: alarms set

ASSUME CalendarAssumption == MaxEvents \in Nat /\ MaxAlarms \in Nat

VARIABLES
  running,  \* the clock runs
  armed,    \* the alarm the timer holds, 0 if none
  events,   \* bmx_pico_calendar_alarm_events
  step,     \* the rest of a call
  count,   \* how many alarms were set
  due,      \* ghost: alarms that came due and were not taken or given up
  quiet     \* ghost: the last call gave the alarm up

calendarVars == <<running, armed, events, step, count, due, quiet>>

Idle == step = "idle"
Counted(n) == IF n < MaxEvents THEN n + 1 ELSE n

(* A fault: the alarm stays enabled.  On RP2040 a match lasts a second.    *)
BadDisarm == armed
Disarm == 0

(* bmx_pico_calendar_alarm_handler.                                        *)
Handler ==
  /\ running /\ armed # 0
  /\ armed' = Disarm
  /\ events' = Counted(events)
  /\ due' = due \cup {armed}
  /\ UNCHANGED <<running, step, count, quiet>>

Start ==
  /\ Idle
  /\ running' = TRUE
  /\ UNCHANGED <<armed, events, step, count, due, quiet>>

(* bmx_pico_calendar_set_alarm: the count is cleared, then the alarm       *)
(* replaces the one before it, or is refused.                              *)
SetAlarm ==
  /\ Idle /\ count < MaxAlarms
  /\ events' = 0 /\ due' = {}
  /\ step' = "arm"
  /\ count' = count + 1
  /\ quiet' = FALSE
  /\ UNCHANGED <<running, armed>>
Arm ==
  /\ step = "arm"
  /\ armed' \in {armed, count}
  /\ step' = "idle"
  /\ UNCHANGED <<running, events, count, due, quiet>>

(* bmx_pico_calendar_disable_alarm and bmx_pico_calendar_stop: first the   *)
(* alarm, then the count.                                                  *)
DisableAlarm ==
  /\ Idle
  /\ armed' = 0 /\ step' = "clear"
  /\ UNCHANGED <<running, events, count, due, quiet>>
Stop ==
  /\ Idle
  /\ armed' = 0 /\ running' = FALSE /\ step' = "clear"
  /\ UNCHANGED <<events, count, due, quiet>>
Clear ==
  /\ step = "clear"
  /\ events' = 0 /\ due' = {}
  /\ quiet' = TRUE
  /\ step' = "idle"
  /\ UNCHANGED <<running, armed, count>>

(* bmx_pico_calendar_take_alarm_events, with interrupts disabled.          *)
Take ==
  /\ Idle
  /\ events' = 0 /\ due' = {}
  /\ UNCHANGED <<running, armed, step, count, quiet>>

CalendarInit ==
  /\ running = FALSE /\ armed = 0 /\ events = 0 /\ step = "idle"
  /\ count = 0 /\ due = {} /\ quiet = TRUE
CalendarNext ==
  Handler \/ Start \/ SetAlarm \/ Arm \/ DisableAlarm \/ Stop \/ Clear \/ Take
CalendarSpec == CalendarInit /\ [][CalendarNext]_calendarVars

-----------------------------------------------------------------------------
(* "Calendar alarms are one-shot at the BlitzMax API" (the handler): each  *)
(* alarm that comes due is counted once, for the program to take, and once *)
(* the alarm is given up nothing is left to fire or to take.               *)
DueAlarmsCounted ==
  /\ events = IF Cardinality(due) < MaxEvents THEN Cardinality(due) ELSE MaxEvents
  /\ quiet /\ Idle => armed = 0 /\ events = 0
=============================================================================
