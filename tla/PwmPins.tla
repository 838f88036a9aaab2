------------------------------- MODULE PwmPins -------------------------------
(***************************************************************************)
(* The portable PWM calls of pico_runtime.c: pins with a frequency, a duty *)
(* cycle and a polarity, on slices of the hardware that two channels       *)
(* share.  A slice has one counter for both, so one pin's frequency is the *)
(* other's too, and its levels count in units of that frequency's wrap.    *)
(* All calls are made by the program on core 0; none can be interrupted by *)
(* another.  The direct PWMSet... calls are left to programs that do not   *)
(* use these.                                                              *)
(***************************************************************************)
EXTENDS Integers, FiniteSets

CONSTANTS
  Pins,         \* the GPIOs used
  Slices,       \* PWM slices of the chip
  Frequencies, Duties,
  Clock16,      \* the system clock, in units of the finest divider step
  One,          \* the divider 1, which is 16 steps
  MaxDivider,   \* the coarsest divider, 4095 steps
  Top           \* the longest period; the longest duty is Top - 1

ASSUME PwmAssumption ==
  /\ Pins \subseteq Nat /\ Slices \in Nat \ {0}
  /\ Frequencies \subseteq Nat \ {0} /\ Duties \subseteq Nat
  /\ Clock16 \in Nat /\ One \in Nat \ {0} /\ MaxDivider \in Nat \ {0}
  /\ Top \in Nat /\ Top > 1

VARIABLES
  pin,          \* the configured, enabled, inverted and duty of each pin
  slice,        \* the rest of the tables: channels in use, frequencies
  hw,           \* the slices' registers
  function,     \* what a GPIO is connected to
  asked         \* ghost: what the program asked of each pin

pwmVars == <<pin, slice, hw, function, asked>>

(* pwm_gpio_to_slice_num and pwm_gpio_to_channel. *)
SliceOf(g) == (g \div 2) % Slices
Channel(g) == g % 2
Channels == {0, 1}

NoPin == [configured |-> FALSE, enabled |-> FALSE, inverted |-> FALSE, duty |-> 0]
NoWave == [frequency |-> 0, duty |-> 0, inverted |-> FALSE, on |-> FALSE]

-----------------------------------------------------------------------------
(* A call works on s, all of the state, and what it returns.               *)
State == [pin |-> pin, slice |-> slice, hw |-> hw, function |-> function, ret |-> 0]
Returns(s, r) == [s EXCEPT !.ret = r]
Least(a, b) == IF a < b THEN a ELSE b
Most(a, b) == IF a < b THEN b ELSE a

(* bmx_pico_pwm_set_frequency: the finest divider whose period fits.       *)
Divider(f) == Least(Most((Clock16 + f * Top - 1) \div (f * Top), One), MaxDivider)
Period(f) == Least(Most(Clock16 \div (f * Divider(f)), 1), Top)
Achieved(f) == Clock16 \div (Divider(f) * Period(f))
SetFrequency(s, i, f) ==
  Returns([s EXCEPT !.hw[i].divider = Divider(f), !.hw[i].period = Period(f)], Achieved(f))

(* A fault: a disabled pin does not count.                                *)
BadOtherUsed(s, g) ==
  LET i == SliceOf(g)
      c == 1 - Channel(g)
  IN s.slice[i].used[c] /\ s.pin[s.slice[i].pin[c]].enabled
OtherUsed(s, g) == s.slice[SliceOf(g)].used[1 - Channel(g)]

ApplyPolarity(s, i) ==
  [s EXCEPT !.hw[i].inverted = [c \in Channels |->
     s.slice[i].used[c] /\ s.pin[s.slice[i].pin[c]].inverted]]

Level(duty, period) == Least((duty * period + (Top - 1) \div 2) \div (Top - 1), Top - 1)
ApplyDuty(s, g) ==
  [s EXCEPT !.hw[SliceOf(g)].level[Channel(g)] =
     IF s.pin[g].enabled THEN Level(s.pin[g].duty, s.hw[SliceOf(g)].period) ELSE 0]

UpdateEnabled(s, i) ==
  [s EXCEPT !.hw[i].on = \E c \in Channels :
     s.slice[i].used[c] /\ s.pin[s.slice[i].pin[c]].enabled]

-----------------------------------------------------------------------------
Rescale(s, g) ==
  LET i == SliceOf(g)
      both == IF s.slice[i].used[0] THEN ApplyDuty(s, s.slice[i].pin[0]) ELSE s
  IN IF s.slice[i].used[1] THEN ApplyDuty(both, s.slice[i].pin[1]) ELSE both

SetPinFrequency(s, g, f) ==
  LET i == SliceOf(g)
      t == SetFrequency(s, i, f)
  IN IF ~s.pin[g].configured THEN Returns(s, 0)
     ELSE IF OtherUsed(s, g) /\ s.slice[i].requested # f THEN Returns(s, 0)
     ELSE IF s.slice[i].requested = f THEN Returns(s, s.slice[i].frequency)
     ELSE IF t.ret = 0 THEN t
     ELSE Rescale([t EXCEPT !.slice[i].requested = f, !.slice[i].frequency = t.ret], g)

SetPinPolarity(s, g, inverted) ==
  IF ~s.pin[g].configured THEN Returns(s, 0)
  ELSE Returns(ApplyPolarity([s EXCEPT !.pin[g].inverted = inverted], SliceOf(g)), 1)

SetPinDuty(s, g, duty) ==
  IF ~s.pin[g].configured THEN Returns(s, 0)
  ELSE Returns(ApplyDuty([s EXCEPT !.pin[g].duty = duty], g), 1)

SetPinEnabled(s, g, enabled) ==
  IF ~s.pin[g].configured THEN Returns(s, 0)
  ELSE Returns(UpdateEnabled(ApplyDuty([s EXCEPT !.pin[g].enabled = enabled], g), SliceOf(g)), 1)

(* bmx_embedded_pwm_init_pin, for a pin in use and for a new one.          *)
Reinit(s, g, f, duty, inverted) ==
  LET a == SetPinFrequency(s, g, f)
      d == SetPinEnabled(SetPinDuty(SetPinPolarity(a, g, inverted), g, duty), g, TRUE)
  IN IF a.ret = 0 THEN a ELSE Returns(d, d.slice[SliceOf(g)].frequency)

FirstInit(s, g, f, duty, inverted) ==
  LET i == SliceOf(g)
      t == IF s.slice[i].frequency # 0 THEN Returns(s, s.slice[i].frequency)
           ELSE SetFrequency(s, i, f)
      u == [t EXCEPT
              !.slice[i] = [t.slice[i] EXCEPT
                              !.requested = IF s.slice[i].frequency # 0 THEN @ ELSE f,
                              !.frequency = t.ret,
                              !.used[Channel(g)] = TRUE, !.pin[Channel(g)] = g],
              !.function[g] = "pwm",
              !.pin[g] = [configured |-> TRUE, enabled |-> TRUE, inverted |-> inverted, duty |-> duty]]
  IN IF s.slice[i].used[Channel(g)] \/ (OtherUsed(s, g) /\ s.slice[i].requested # f)
     THEN Returns(s, 0)
     ELSE IF t.ret = 0 THEN t
     ELSE UpdateEnabled(ApplyDuty(ApplyPolarity(u, i), g), i)

(* bmx_embedded_pwm_deinit_pin. *)
Release(s, g) ==
  LET i == SliceOf(g)
      t == [s EXCEPT !.hw[i].level[Channel(g)] = 0, !.pin[g] = NoPin,
                     !.slice[i].used[Channel(g)] = FALSE]
      u == UpdateEnabled(ApplyPolarity(t, i), i)
      v == IF OtherUsed(s, g) THEN u
           ELSE [u EXCEPT !.slice[i].frequency = 0, !.slice[i].requested = 0]
  IN IF ~s.pin[g].configured THEN Returns(s, 0)
     ELSE Returns([v EXCEPT !.function[g] = "sio"], 1)

-----------------------------------------------------------------------------
Call(g, s, wave) ==
  /\ pin' = s.pin /\ slice' = s.slice /\ hw' = s.hw /\ function' = s.function
  /\ asked' = IF s.ret = 0 THEN asked ELSE [asked EXCEPT ![g] = wave]

InitPin(g, f, duty, inverted) ==
  Call(g, IF pin[g].configured THEN Reinit(State, g, f, duty, inverted)
          ELSE FirstInit(State, g, f, duty, inverted),
       [frequency |-> f, duty |-> duty, inverted |-> inverted, on |-> TRUE])
DeinitPin(g) == Call(g, Release(State, g), NoWave)
ChangeFrequency(g, f) == Call(g, SetPinFrequency(State, g, f), [asked[g] EXCEPT !.frequency = f])
ChangeDuty(g, duty) == Call(g, SetPinDuty(State, g, duty), [asked[g] EXCEPT !.duty = duty])
ChangePolarity(g, inverted) ==
  Call(g, SetPinPolarity(State, g, inverted), [asked[g] EXCEPT !.inverted = inverted])
ChangeEnabled(g, enabled) ==
  Call(g, SetPinEnabled(State, g, enabled), [asked[g] EXCEPT !.on = enabled])

PwmInit ==
  /\ pin = [g \in Pins |-> NoPin]
  /\ slice = [i \in 0 .. Slices - 1 |->
                [used |-> [c \in Channels |-> FALSE], pin |-> [c \in Channels |-> 0],
                 requested |-> 0, frequency |-> 0]]
  /\ hw = [i \in 0 .. Slices - 1 |->
             [divider |-> One, period |-> Top, on |-> FALSE,
              level |-> [c \in Channels |-> 0], inverted |-> [c \in Channels |-> FALSE]]]
  /\ function = [g \in Pins |-> "none"]
  /\ asked = [g \in Pins |-> NoWave]

PwmNext ==
  \E g \in Pins :
    \/ DeinitPin(g)
    \/ \E f \in Frequencies : ChangeFrequency(g, f)
    \/ \E duty \in Duties : ChangeDuty(g, duty)
    \/ \E b \in BOOLEAN : ChangePolarity(g, b) \/ ChangeEnabled(g, b)
    \/ \E f \in Frequencies, duty \in Duties, b \in BOOLEAN : InitPin(g, f, duty, b)
PwmSpec == PwmInit /\ [][PwmNext]_pwmVars

-----------------------------------------------------------------------------
(* The frequency that a call answers is in whole hertz, and 0 when the     *)
(* call is refused: the clock must reach every frequency asked for.        *)
Reachable == \A f \in Frequencies : Achieved(f) # 0

(* The calls of bmx_embedded_pwm: every pin puts out the wave that was     *)
(* last asked of it, whatever is asked of the pin that shares its      *)
(* slice, and a call that is refused changes no pin.                       *)
PinsShowTheirWave ==
  \A g \in Pins :
    LET h == hw[SliceOf(g)]
        w == asked[g]
    IN IF w.frequency = 0 THEN function[g] # "pwm"
       ELSE /\ function[g] = "pwm"
            /\ h.divider = Divider(w.frequency) /\ h.period = Period(w.frequency)
            /\ h.inverted[Channel(g)] = w.inverted
            /\ h.level[Channel(g)] = IF w.on THEN Level(w.duty, Period(w.frequency)) ELSE 0
            /\ h.on = \E x \in Pins : SliceOf(x) = SliceOf(g) /\ asked[x].on
=============================================================================
