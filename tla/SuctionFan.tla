----------------------------- MODULE SuctionFan -----------------------------
(***************************************************************************)
(* The speed control of the suction fan (suction_fan_control.c) once its   *)
(* latch is decided: the requested speed goes through a ramp timed in      *)
(* milliseconds, and a PID controller timed in microseconds (pid_output.c) *)
(* turns it into the PWM of FAN_HYDRO_FWD.  The latch and its interlocks   *)
(* are in StartInterlock; here it takes any value in any turn.             *)
(*                                                                         *)
(* Amounts are whole numbers, and a millisecond has Ticks microseconds.    *)
(* Twice the integral is counted, as the code adds two errors and halves   *)
(* them; the limit of the integral is exact if Ki divides MaxOutput.       *)
(***************************************************************************)
EXTENDS Ramp

CONSTANTS MaxSpeed,          \* SUCTION_FAN_CMD_MAX
          IncRate, DecRate,  \* MaxSpeed / u8_fan_inc_time, / u8_fan_dec_time
          Kp, Ki, Kd,        \* f32_kp, f32_ki, f32_kd
          MaxOutput,         \* s32_max_output
          Ticks,             \* microseconds in a millisecond
          MaxTurn            \* bound on the microseconds one turn takes

Speeds == 0 .. MaxSpeed

VARIABLES
  now,      \* get_system_time_ms()
  tick,     \* microseconds of this millisecond, of get_system_time_us()
  enabled,  \* u8_enable_latched, as the toggle button leaves it this turn
  asked,    \* f32_prev_req_rpm, the request of the turn before
  ramp,     \* t_speed_ramp
  measured, \* f32_shaft_rpm
  pid,      \* t_pid_state
  fault,    \* fault status of FAN_HYDRO_FWD
  out       \* value set for FAN_HYDRO_FWD

vars == <<now, tick, enabled, asked, ramp, measured, pid, fault, out>>

\* "called" is u64_last_time # 0.
PidState == [error : -MaxSpeed .. MaxSpeed, accum : 0 .. MaxOutput \div Ki,
             output : 0 .. MaxOutput, called : BOOLEAN]

pidInit == [error |-> 0, accum |-> 0, output |-> 0, called |-> FALSE]

Init ==
  /\ now = 0
  /\ tick = 0
  /\ enabled = FALSE
  /\ asked = 0
  /\ ramp = rampInit(0)
  /\ measured = 0
  /\ pid = pidInit
  /\ fault = FALSE
  /\ out = 0

-----------------------------------------------------------------------------
\* The error is integrated over the dt microseconds since the last call.  The
\* integral is limited after it has been used; nothing but its first call
\* clears it.
PidOutput(p, error, dt) ==
  LET accum == p.accum + (error + p.error) * dt
      derivative == (Kd * (error - p.error)) \div dt
  IN IF ~p.called THEN [pidInit EXCEPT !.error = error, !.called = TRUE]
     ELSE [p EXCEPT !.error = error,
                    !.accum = Clamp(accum, 0, MaxOutput \div Ki),
                    !.output = Clamp(Kp * error + Ki * accum + derivative,
                                     0, MaxOutput)]

\* FR-5.7: a disabled fan is asked for no speed.
Request(wanted) == IF enabled' THEN wanted ELSE 0

RampRate(request) == IF request > asked THEN IncRate ELSE DecRate

\* One turn of the loop, dt microseconds after the one before; the filtered
\* speed takes any value.  A fault of the speed sensor, which the configuration
\* does not diagnose (hw_inputs.c line 258), resets the latch and stops the
\* pump; a fault of the pump's output leaves the value that was set last.
\* Whether the fan is enabled has no influence on the PWM but by the request.
UpdateSuctionFan ==
  \E dt \in 1 .. MaxTurn, wanted \in Speeds, speedFault \in BOOLEAN :
    /\ now' = Later(now, (tick + dt) \div Ticks)
    /\ tick' = (tick + dt) % Ticks
    /\ enabled' \in BOOLEAN
    /\ measured' \in Speeds
    /\ speedFault => ~enabled' /\ measured' = 0
    /\ asked' = Request(wanted)
    /\ ramp' = rampCalc(ramp, asked', 0, MaxSpeed, RampRate(asked'), now')
    /\ pid' = PidOutput(pid, ramp'.output - measured', dt)
    /\ fault' \in BOOLEAN
    /\ out' = IF fault' THEN out ELSE IF speedFault THEN 0 ELSE pid'.output

\* The main loop never stops turning.
FairSpec == Init /\ [][UpdateSuctionFan]_vars /\ WF_vars(UpdateSuctionFan)

-----------------------------------------------------------------------------
\* suction_fan_control.c line 212: "FR-5.7 Force suction fan speed to zero
\* when disabled".  A fan that stays disabled, with its output in order and its
\* speed measured as 0 from some turn on, would be switched off time and again.
\* It may be driven for good: what the integral has grown to while the fan was
\* enabled and measured too slow stays in the PWM (pid_output.c lines 110, 140
\* and 160), and only a measured speed would bring it down.
DisabledFanStops ==
  <>[](~enabled /\ ~fault /\ measured = 0) => []<>(out = 0)
=============================================================================
