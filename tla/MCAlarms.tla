------------------------------ MODULE MCAlarms ------------------------------
(***************************************************************************)
(* Three small parts of the runtime in one run: the alarms, the alarm of   *)
(* the calendar clock and the portable PWM pins.  They share nothing, so   *)
(* the two that do not run stay in their initial states.  Identifiers of   *)
(* the alarm pool are alike.  The arithmetic of CivilDates is checked by   *)
(* its assumptions.                                                        *)
(***************************************************************************)
EXTENDS Alarms, CivilDates, Calendar, PwmPins, TLC

ASSUME FrequenciesReached == Reachable

VARIABLE runs   \* the part that runs

Interchangeable == Permutations(AlarmId)

RunsInit ==
  runs \in {"alarms", "calendar", "pwm"} /\ Init /\ CalendarInit /\ PwmInit
RunsNext ==
  \/ runs = "alarms" /\ Next /\ UNCHANGED <<runs, calendarVars, pwmVars>>
  \/ runs = "calendar" /\ CalendarNext /\ UNCHANGED <<runs, vars, pwmVars>>
  \/ runs = "pwm" /\ PwmNext /\ UNCHANGED <<runs, vars, calendarVars>>
RunsSpec == RunsInit /\ [][RunsNext]_<<runs, vars, calendarVars, pwmVars>>
=============================================================================
