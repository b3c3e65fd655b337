---------------------------- MODULE SteerTorque ----------------------------
(***************************************************************************)
(* The torque limits of the panda: steer_torque_cmd_checks of              *)
(* car/opendbc/safety/lateral.h with the driver-limited branch that        *)
(* mazda_tx_hook selects, and the driver samples of update_sample.         *)
(*                                                                         *)
(* Mazda passes steer_req = -1 and no tolerance, so the steer-request part *)
(* of the function never acts; its torque ceiling is not speed dependent.  *)
(* controls_allowed is decided in MazdaSafety and is free here.            *)
(***************************************************************************)
EXTENDS Integers

CONSTANTS
  MaxTorque, MaxRateUp, MaxRateDown, MaxRtDelta,
  DriverAllowance, DriverMultiplier,
  MaxSampleVals,   (* driver samples that are kept                           *)
  DriverTorques,   (* what the torque sensor may report                      *)
  Torques,         (* what an LKAS frame may command                         *)
  RtClocked        (* the microsecond timer counts: TIM2 has its clock       *)

ASSUME SteerAssumption ==
  /\ MaxTorque \in Nat /\ MaxRateUp \in Nat /\ MaxRateDown \in Nat
  /\ MaxRtDelta \in Nat
  /\ DriverAllowance \in Nat /\ DriverMultiplier \in Nat
  /\ MaxSampleVals \in Nat \ {0}
  /\ DriverTorques \subseteq Int /\ 0 \in DriverTorques
  /\ Torques \subseteq Int /\ 0 \in Torques
  /\ RtClocked \in BOOLEAN

VARIABLES
  controls_allowed,
  desired_torque_last,
  rt_torque_last,
  rt_elapsed,      (* MAX_RT_INTERVAL has passed since ts_torque_check_last  *)
  torque_driver,   (* the last MaxSampleVals samples, newest first           *)
  accepted         (* history: the torque of the last LKAS frame the hook    *)
                   (* let pass; can_send may still lose it in a full ring    *)

steerVars == <<controls_allowed, desired_torque_last, rt_torque_last, rt_elapsed,
               torque_driver, accepted>>

Samples == 1..MaxSampleVals
MAX(a, b) == IF a > b THEN a ELSE b
MIN(a, b) == IF a < b THEN a ELSE b

----------------------------------------------------------------------------
(* The checks.  A torque is above the driver's limit when it is above the   *)
(* limit of every sample, since the largest sample gives the largest limit. *)

max_limit_check(val, high, low) == val > high \/ val < low

\* The bound on the growth of one frame, and of one real-time window.
rate_limit_check(val, last, delta) ==
  max_limit_check(val, MAX(last, 0) + delta, MIN(last, 0) - delta)

DriverMaxLimit(d) == MaxTorque + (DriverAllowance + d) * DriverMultiplier
DriverMinLimit(d) == -MaxTorque + (-DriverAllowance + d) * DriverMultiplier

\* Mutant of fights_driver: the limit may pass zero.
fights_driver_NoClamp(val) ==
  \/ /\ val > desired_torque_last - MaxRateDown
     /\ \A i \in Samples : val > DriverMaxLimit(torque_driver[i])
  \/ /\ val < desired_torque_last + MaxRateDown
     /\ \A i \in Samples : val < DriverMinLimit(torque_driver[i])

\* Over the driver's limit and not moving towards zero fast enough.
fights_driver(val) ==
  \/ /\ val > 0 /\ val > desired_torque_last - MaxRateDown
     /\ \A i \in Samples : val > DriverMaxLimit(torque_driver[i])
  \/ /\ val < 0 /\ val < desired_torque_last + MaxRateDown
     /\ \A i \in Samples : val < DriverMinLimit(torque_driver[i])

\* Mutant of driver_limit_check: no bound on the growth.
driver_limit_check_NoRate(val) == fights_driver(val)

driver_limit_check(val) ==
  rate_limit_check(val, desired_torque_last, MaxRateUp) \/ fights_driver(val)

\* Mutant of violation: the driver's limit is left out.
violation_NoDriver(val) ==
  IF controls_allowed
  THEN \/ max_limit_check(val, MaxTorque, -MaxTorque)
       \/ rate_limit_check(val, desired_torque_last, MaxRateUp)
       \/ rate_limit_check(val, rt_torque_last, MaxRtDelta)
  ELSE val # 0

violation(val) ==
  IF controls_allowed
  THEN \/ max_limit_check(val, MaxTorque, -MaxTorque)
       \/ driver_limit_check(val)
       \/ rate_limit_check(val, rt_torque_last, MaxRtDelta)
  ELSE val # 0

----------------------------------------------------------------------------
(* steer_torque_cmd_checks: a rejected frame and a frame without control    *)
(* reset the history; the real-time reference moves when its window is over.*)

ResetHistory ==
  /\ desired_torque_last' = 0
  /\ rt_torque_last' = 0
  /\ rt_elapsed' = FALSE

KeepHistory(val) ==
  /\ desired_torque_last' = val
  /\ rt_torque_last' = IF rt_elapsed THEN val ELSE rt_torque_last
  /\ rt_elapsed' = FALSE

steer_torque_cmd_checks(val) ==
  /\ IF violation(val) \/ ~controls_allowed THEN ResetHistory ELSE KeepHistory(val)
  /\ accepted' = IF violation(val) THEN accepted ELSE val
  /\ UNCHANGED <<controls_allowed, torque_driver>>

\* A STEER_TORQUE frame of the car, the sensor's offset of 127 taken off.
update_sample(d) ==
  /\ torque_driver' =
       [i \in Samples |-> IF i = 1 THEN d ELSE torque_driver[i - 1]]
  /\ UNCHANGED <<controls_allowed, desired_torque_last, rt_torque_last, rt_elapsed, accepted>>

\* set_safety_hooks: the time stamp is zeroed too, so the next frame finds the
\* window over if the clock has run for longer than it.
SteerReset ==
  /\ controls_allowed' = FALSE
  /\ desired_torque_last' = 0
  /\ rt_torque_last' = 0
  /\ rt_elapsed' \in {FALSE, RtClocked}
  /\ torque_driver' = [i \in Samples |-> 0]
  /\ UNCHANGED accepted

\* The rx hook grants or takes control.
SetControls(allowed) ==
  /\ controls_allowed' = allowed
  /\ UNCHANGED <<desired_torque_last, rt_torque_last, rt_elapsed, torque_driver, accepted>>

\* The microsecond timer passes MAX_RT_INTERVAL.
RtWindowEnds ==
  /\ RtClocked /\ ~rt_elapsed
  /\ rt_elapsed' = TRUE
  /\ UNCHANGED <<controls_allowed, desired_torque_last, rt_torque_last,
                 torque_driver, accepted>>

----------------------------------------------------------------------------
SteerInit ==
  /\ controls_allowed = FALSE
  /\ desired_torque_last = 0
  /\ rt_torque_last = 0
  /\ rt_elapsed = FALSE
  /\ torque_driver = [i \in Samples |-> 0]
  /\ accepted = 0

SteerNext ==
  \/ \E t \in Torques : steer_torque_cmd_checks(t)
  \/ \E d \in DriverTorques : update_sample(d)
  \/ SteerReset
  \/ \E allowed \in BOOLEAN : SetControls(allowed)
  \/ RtWindowEnds

SteerSpec == SteerInit /\ [][SteerNext]_steerVars

----------------------------------------------------------------------------
(* Properties.                                                              *)

\* The type of the torque state.
SteerTypeOK ==
  /\ controls_allowed \in BOOLEAN
  /\ desired_torque_last \in Torques
  /\ rt_torque_last \in Torques
  /\ rt_elapsed \in BOOLEAN
  /\ torque_driver \in [Samples -> DriverTorques]
  /\ accepted \in Torques

\* From one LKAS frame that the hook accepts to the next the torque grows by at
\* most max_rate_up and never past max_torque, whatever was rejected, reset or
\* re-armed in between.  (Of the frames it accepts: one that can_send then loses in
\* a full ring leaves the bus with a step that is larger by that frame's.)
AcceptedSlew ==
  [][accepted' # accepted =>
       /\ accepted' <= MAX(accepted, 0) + MaxRateUp
       /\ accepted' >= MIN(accepted, 0) - MaxRateUp
       /\ -MaxTorque <= accepted' /\ accepted' <= MaxTorque]_steerVars

\* The driver wins: of the frames over the limit of every driver sample, the only
\* ones that pass are on their way to zero, by max_rate_down or more from the last
\* one that passed; a sender that holds its torque against the driver is rejected.
DriverOverrules ==
  \A t \in Torques : ~violation(t) =>
    /\ (t > 0 /\ \A i \in Samples : t > DriverMaxLimit(torque_driver[i]))
          => t <= accepted - MaxRateDown
    /\ (t < 0 /\ \A i \in Samples : t < DriverMinLimit(torque_driver[i]))
          => t >= accepted + MaxRateDown

\* Zero torque passes in every state: the sender's resync after a rejection, and
\* its frames while control is withdrawn, rest on this.
ZeroAlwaysPasses == ~violation(0)

\* While the microsecond timer is not clocked no window ever ends, and
\* max_rt_delta is a hard ceiling of the torque that is accepted.
RtCeiling == ~RtClocked => (accepted <= MaxRtDelta /\ accepted >= -MaxRtDelta)
=============================================================================
