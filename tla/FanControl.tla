----------------------------- MODULE FanControl -----------------------------
(***************************************************************************)
(* The fan of the Raspberry Pi (edge/thermal/fan_controller.py), driven    *)
(* every few seconds by the frame loop with what temperature_reader.py     *)
(* says: a state machine with hysteresis, and a pin that is set on a best- *)
(* effort basis.                                                           *)
(***************************************************************************)
EXTENDS Integers, Sequences

CONSTANTS
  Temp,      \* temperatures the sensor may report
  NoTemp     \* ... and what stands for None

ASSUME FanAssumption == Temp \subseteq Int /\ NoTemp \notin Temp

VARIABLES
  fan,      \* _state, as its index in OFF, LOW, HIGH, MAX
  gpio,     \* what _init_gpio found: "none", "switch", "pwm"
  pin,      \* what was written to the pin last: duty, or 100 for on
  reading,  \* history: the last temperature read
  turned,   \* history: temperature and direction of the last change of _state
  fresh     \* history: the last write reached the pin

fanVars == <<fan, gpio, pin, reading, turned, fresh>>

\* OFF to LOW, LOW to HIGH, HIGH to MAX; two degrees less on the way down.
Up == <<55, 65, 72>>
Down(i) == Up[i] - 2
Duty == <<0, 40, 70, 100>>

FanInit ==
  /\ fan = 0
  /\ gpio \in {"none", "switch", "pwm"}
  /\ pin = 0
  /\ reading = NoTemp
  /\ turned = [at |-> NoTemp, up |-> FALSE]
  /\ fresh = TRUE

\* Mutant: no hysteresis.
SettleAtOnce(i, t) ==
  CHOOSE j \in 0 .. 3 :
    /\ j < 3 => t < Up[j + 1]
    /\ j > 0 => t >= Up[j]

\* _apply_hysteresis: up as far as the temperature goes, then down.
Settle(i, t) ==
  LET ups == {j \in i .. 3 : \A k \in i + 1 .. j : t >= Up[k]}
      top == CHOOSE j \in ups : \A k \in ups : k <= j
      downs == {j \in 0 .. top : \A k \in j + 1 .. top : t < Down(k)}
  IN  CHOOSE j \in downs : \A k \in downs : j <= k

\* _apply_hardware: the duty of the mode, or on for every mode but OFF.
Output(i) ==
  IF gpio = "pwm" THEN Duty[i + 1] ELSE IF i = 0 THEN 0 ELSE 100

\* update: None leaves the mode; the pin is written in any case, which may
\* fail.
update(t, ok) ==
  /\ fan' = IF t = NoTemp THEN fan ELSE Settle(fan, t)
  /\ reading' = IF t = NoTemp THEN reading ELSE t
  /\ turned' = IF fan' = fan THEN turned ELSE [at |-> t, up |-> fan' > fan]
  /\ pin' = IF gpio # "none" /\ ok THEN Output(fan') ELSE pin
  /\ fresh' = ok
  /\ UNCHANGED gpio

\* cleanup, at the end of the loop: the pin is released.
cleanup ==
  /\ gpio # "none"
  /\ gpio' = "none" /\ pin' = 0
  /\ UNCHANGED <<fan, reading, turned, fresh>>

FanNext ==
  \/ \E t \in Temp \cup {NoTemp}, ok \in BOOLEAN : update(t, ok)
  \/ cleanup

-----------------------------------------------------------------------------
(* Properties.                                                             *)

\* The mode is always one that the last temperature read allows, however far
\* it had jumped: not below a threshold it has reached, nor above one it is
\* two degrees short of.
ModeFits ==
  reading # NoTemp =>
    /\ fan < 3 => reading < Up[fan + 1]
    /\ fan > 0 => reading >= Down(fan)

\* The fan never follows a wobble: between a change up and the next one down,
\* or the other way round, the temperature has moved by more than two degrees.
NoFlapping ==
  [][turned.at # NoTemp /\ turned'.up # turned.up =>
       LET d == turned'.at - turned.at IN d > 2 \/ d < -2]_fanVars

\* A fan that can be reached runs when its mode is not OFF, and only then; a
\* failed write is made up for by the next, whatever the sensor says.
PinFollowsMode == gpio # "none" /\ fresh => (pin > 0 <=> fan > 0)

\* The fan follows the temperature, its jumps at once and its wobbles never,
\* and the pin follows the fan.
FanFollowsHeat == [](ModeFits /\ PinFollowsMode) /\ NoFlapping
=============================================================================
