------------------------------ MODULE LongHold ------------------------------
(***************************************************************************)
(* Longitudinal control of the Mazda port from the engagement to the two   *)
(* frames that replace the radar's: controlsd with the state machine of    *)
(* LongControl, and CarController.update of car/mazda/carcontroller.py     *)
(* with the stop, hold, passive hold and resume phases it plays to the     *)
(* PCM.  selfdrived, controlsd and the caller of update run on their own;  *)
(* each reads what the others published last.                              *)
(*                                                                         *)
(* Speeds are tenths of m/s, commands raw counts of ACCEL_CMD.  LongControl*)
(* has no starting state, and cruiseControl.override only holds when       *)
(* longActive does not, so neither releases a hold.                        *)
(***************************************************************************)
EXTENDS Engagement

CONSTANTS
  CRZ_CTRL_LATCH_FRAMES, HOLD_REQUEST_FRAMES, CRZ_CTRL_PASSIVE_FRAMES,
  RESUME_RELEASE_FRAMES, CRZ_INFO_RESUME_PHASE_FRAMES,
  CRZ_CTRL_RESUME_REACTIVATE_FRAMES,
  RES_STEP, LONG_COMMAND_STEP,
  HOLD_BRAKE_CMD_TARGET, HOLD_LATCHED_CMD_TARGET, NEAR_STOP_BRAKE_CMD_TARGET,
  NEAR_STOP_ENTRY_SPEED, vEgoStarting,
  Requests,        (* accelerations that the planner may ask for             *)
  Inputs           (* what the car may report of its motion and the driver   *)

ASSUME HoldAssumption ==
  /\ {RES_STEP, LONG_COMMAND_STEP, RESUME_RELEASE_FRAMES,
      CRZ_CTRL_LATCH_FRAMES, CRZ_INFO_RESUME_PHASE_FRAMES,
      CRZ_CTRL_RESUME_REACTIVATE_FRAMES} \subseteq Nat \ {0}
  /\ HOLD_REQUEST_FRAMES \in Nat /\ CRZ_CTRL_PASSIVE_FRAMES \in Nat
  /\ CRZ_CTRL_LATCH_FRAMES + LONG_COMMAND_STEP <= HOLD_REQUEST_FRAMES
  /\ HOLD_REQUEST_FRAMES < CRZ_CTRL_PASSIVE_FRAMES
  /\ \A c \in {HOLD_BRAKE_CMD_TARGET, HOLD_LATCHED_CMD_TARGET, NEAR_STOP_BRAKE_CMD_TARGET} :
       c \in Int /\ c < 0
  /\ HOLD_LATCHED_CMD_TARGET \notin Requests
       \cup {HOLD_BRAKE_CMD_TARGET, NEAR_STOP_BRAKE_CMD_TARGET}
  /\ NEAR_STOP_ENTRY_SPEED \in Nat /\ vEgoStarting \in Nat
  /\ Requests \subseteq Int
  /\ Inputs \subseteq [standstill : BOOLEAN, v : Nat, gas : BOOLEAN, res : BOOLEAN]

VARIABLES
  long_control_state,            (* of LongControl                           *)
  CC,                            (* carControl as last published             *)
  res_phase, long_phase,         (* frame modulo the periods of the RES and  *)
                                 (* of the command frames                    *)
  standstill_hold_frames,        (* up to HOLD_CAP                           *)
  stop_intent_latched,
  resume_release_frames,
  resume_crz_latched_frames,
  resume_phase_frames,
  resume_ctrl_active_prev,
  virtual_resume_sent_latched,
  resume_button_prev,
  out,                           (* CRZ_INFO and CRZ_CTRL as last sent       *)
  excused,                       (* history: the last update saw the gas,    *)
                                 (* RES or motion                            *)
  res_sent                       (* history: a RES frame was sent in this    *)
                                 (* standstill                               *)

controlVars == <<long_control_state, CC>>
carVars == <<res_phase, long_phase, standstill_hold_frames, stop_intent_latched,
             resume_release_frames, resume_crz_latched_frames, resume_phase_frames,
             resume_ctrl_active_prev, virtual_resume_sent_latched, resume_button_prev,
             out, excused, res_sent>>
longVars == <<engageVars, controlVars, carVars>>

\* The hold counter is read against CRZ_CTRL_PASSIVE_FRAMES at most.
HOLD_CAP == CRZ_CTRL_PASSIVE_FRAMES

Smaller(a, b) == IF a < b THEN a ELSE b
Advance(phase, period) == IF phase + 1 = period THEN 0 ELSE phase + 1
Larger(a, b) == IF a < b THEN b ELSE a

Down(n) == IF n > 0 THEN n - 1 ELSE 0

----------------------------------------------------------------------------
(* controlsd.                                                               *)

\* Mutant of longActive: the events are not read.
longActive_NoOverride == enabled

longActive == enabled /\ ~onroad_override

long_control_state_trans(should_stop, brake, cruise_standstill) ==
  LET starting_condition == ~should_stop /\ ~cruise_standstill /\ ~brake
  IN  CASE ~longActive -> "off"
        [] longActive /\ long_control_state = "off" ->
             IF starting_condition THEN "pid" ELSE "stopping"
        [] longActive /\ long_control_state = "stopping" ->
             IF starting_condition THEN "pid" ELSE "stopping"
        [] OTHER -> IF should_stop THEN "stopping" ELSE "pid"

\* LongControl.update: nothing, a brake that grows, or the PID's output.
LongOutput(lcs) ==
  CASE lcs = "off" -> {0}
    [] lcs = "stopping" -> {a \in Requests : a < 0}
    [] OTHER -> Requests

\* One iteration: the state that is published is the one before the update.
ControlsStep(should_stop, brake, cruise_standstill) ==
  /\ long_control_state' = long_control_state_trans(should_stop, brake, cruise_standstill)
  /\ \E a \in LongOutput(long_control_state') :
       CC' = [longActive |-> longActive,
              resume |-> enabled /\ cruise_standstill /\ ~should_stop,
              stopping |-> long_control_state = "stopping",
              accel |-> a]
  /\ UNCHANGED <<engageVars, carVars>>

----------------------------------------------------------------------------
(* CarController.update, on i: what the car reports of motion, gas and RES. *)

VirtualResumeSent(i) == i.standstill /\ CC.resume /\ res_phase = 0

VirtualResumeLatched(i) ==
  i.standstill /\ CC.resume /\ (virtual_resume_sent_latched \/ VirtualResumeSent(i))

HoldLatchedReady(i) == i.standstill /\ standstill_hold_frames > HOLD_REQUEST_FRAMES

PhysicalUnlatch(i) == i.standstill /\ i.res /\ (~CC.stopping \/ HoldLatchedReady(i))

\* Mutant of VirtualUnlatch: a RES frame that was sent is enough.
VirtualUnlatch_AnyHold(i) == VirtualResumeLatched(i)

VirtualUnlatch(i) == VirtualResumeLatched(i) /\ HoldLatchedReady(i)

ResumeUnlatch(i) == CC.longActive /\ (PhysicalUnlatch(i) \/ VirtualUnlatch(i))

BaseRelease(i) == i.gas \/ resume_release_frames > 0

\* Mutant of HoldFrames: the count survives the release and the motion after it.
HoldFrames_Kept(i) ==
  IF ~CC.longActive THEN 0
  ELSE IF i.standstill /\ (stop_intent_latched \/ CC.stopping) /\ ~BaseRelease(i)
  THEN Smaller(standstill_hold_frames + 1, HOLD_CAP) ELSE standstill_hold_frames

HoldFrames(i) ==
  IF CC.longActive /\ i.standstill /\ (stop_intent_latched \/ CC.stopping) /\ ~BaseRelease(i)
  THEN Smaller(standstill_hold_frames + 1, HOLD_CAP) ELSE 0

CrzLatchedFrames(i) ==
  IF ~CC.longActive THEN 0
  ELSE IF /\ ResumeUnlatch(i) /\ ~resume_button_prev /\ ~BaseRelease(i)
          /\ HoldFrames(i) >= CRZ_CTRL_PASSIVE_FRAMES
  THEN CRZ_CTRL_RESUME_REACTIVATE_FRAMES ELSE Down(resume_crz_latched_frames)

ReleaseFrames(i) ==
  IF ~CC.longActive THEN 0
  ELSE IF ResumeUnlatch(i) THEN RESUME_RELEASE_FRAMES ELSE Down(resume_release_frames)

ReleaseHold(i) ==
  CC.longActive /\ (BaseRelease(i) \/ ResumeUnlatch(i) \/ ReleaseFrames(i) > 0)

\* Mutant of StopIntent: it is not dropped when the car is let go.
StopIntent_Sticky(i) == CC.longActive /\ (stop_intent_latched \/ CC.stopping)

\* stop_go_request too: the intent is dropped by whatever releases the hold, and
\* by driving off.
StopIntent(i) ==
  /\ CC.longActive
  /\ stop_intent_latched \/ CC.stopping
  /\ ~ReleaseHold(i)
  /\ i.standstill \/ CC.stopping \/ i.v <= NEAR_STOP_ENTRY_SPEED

StandstillHold(i) == StopIntent(i) /\ i.standstill
HoldLatched(i) == StandstillHold(i) /\ HoldFrames(i) > HOLD_REQUEST_FRAMES
CrzHoldLatched(i) ==
  /\ StandstillHold(i) /\ HoldFrames(i) >= CRZ_CTRL_LATCH_FRAMES
  /\ ~ResumeUnlatch(i) \/ CrzLatchedFrames(i) > 0
CrzHoldPassive(i) ==
  StandstillHold(i) /\ HoldFrames(i) >= CRZ_CTRL_PASSIVE_FRAMES /\ ~ResumeUnlatch(i)
ResumeActive(i) ==
  ReleaseFrames(i) > 0 /\ i.v < vEgoStarting /\ ~CrzHoldLatched(i) /\ ~CrzHoldPassive(i)
PhaseFrames(i) ==
  IF ~ResumeActive(i) THEN 0
  ELSE IF resume_ctrl_active_prev THEN Down(resume_phase_frames)
  ELSE CRZ_INFO_RESUME_PHASE_FRAMES

\* What ACCEL_CMD carries.
Accel(i) ==
  CASE ~CC.longActive -> 0
    [] CC.longActive /\ ReleaseFrames(i) > 0 -> Larger(CC.accel, 0)
    [] CC.longActive /\ ReleaseFrames(i) = 0 /\ i.standstill ->
         IF HoldLatched(i) THEN HOLD_LATCHED_CMD_TARGET ELSE HOLD_BRAKE_CMD_TARGET
    [] OTHER ->
         IF StopIntent(i) /\ (CC.stopping \/ i.v < NEAR_STOP_ENTRY_SPEED)
         THEN Smaller(CC.accel, NEAR_STOP_BRAKE_CMD_TARGET) ELSE CC.accel

\* build_crz_info's stop bits and select_profile.
StoppingActive(i) ==
  StopIntent(i) /\ ~ReleaseHold(i) /\ ReleaseFrames(i) = 0 /\ ~HoldLatched(i)

Profile(i) ==
  CASE ~CC.longActive -> "standby"
    [] CC.longActive /\ StopIntent(i) ->
         IF CrzHoldLatched(i) THEN "stop_go_hold_latched" ELSE "stop_go_hold"
    [] OTHER -> "engaged"

\* The frames; edge is history, a stop at exactly NEAR_STOP_ENTRY_SPEED.
Messages(i) ==
  [active |-> CC.longActive, stop |-> StoppingActive(i), accel |-> Accel(i),
   unlatching |-> ResumeActive(i) /\ PhaseFrames(i) > 0, profile |-> Profile(i),
   acc2 |-> CC.longActive /\ ~CrzHoldPassive(i),
   edge |-> StoppingActive(i) /\ ~i.standstill /\ i.v = NEAR_STOP_ENTRY_SPEED]

CarStep(i) ==
  /\ excused' = (i.gas \/ i.res \/ ~i.standstill)
  /\ res_sent' = (i.standstill /\ (res_sent \/ VirtualResumeSent(i)))
  /\ res_phase' = Advance(res_phase, RES_STEP)
  /\ long_phase' = Advance(long_phase, LONG_COMMAND_STEP)
  /\ virtual_resume_sent_latched' = (CC.longActive /\ VirtualResumeLatched(i))
  /\ standstill_hold_frames' = HoldFrames(i)
  /\ resume_crz_latched_frames' = CrzLatchedFrames(i)
  /\ resume_release_frames' = ReleaseFrames(i)
  /\ stop_intent_latched' = StopIntent(i)
  /\ resume_phase_frames' = PhaseFrames(i)
  /\ resume_ctrl_active_prev' = ResumeActive(i)
  /\ resume_button_prev' = ResumeUnlatch(i)
  /\ out' = IF long_phase = 0 THEN Messages(i) ELSE out
  /\ UNCHANGED <<engageVars, controlVars>>

----------------------------------------------------------------------------
LongInit ==
  /\ EngageInit
  /\ long_control_state = "off"
  /\ CC = [longActive |-> FALSE, resume |-> FALSE, stopping |-> FALSE, accel |-> 0]
  /\ res_phase = 0 /\ long_phase = 0 /\ standstill_hold_frames = 0 /\ stop_intent_latched = FALSE
  /\ resume_release_frames = 0 /\ resume_crz_latched_frames = 0 /\ resume_phase_frames = 0
  /\ resume_ctrl_active_prev = FALSE /\ virtual_resume_sent_latched = FALSE
  /\ resume_button_prev = FALSE
  /\ out = [active |-> FALSE, stop |-> FALSE, accel |-> 0, unlatching |-> FALSE,
            profile |-> "standby", acc2 |-> FALSE, edge |-> FALSE]
  /\ excused = FALSE /\ res_sent = FALSE

Controlsd ==
  \E should_stop, brake, cruise_standstill \in BOOLEAN :
    ControlsStep(should_stop, brake, cruise_standstill)

CarUpdate == \E i \in Inputs : CarStep(i)

EngageStep == Selfdrived /\ UNCHANGED <<controlVars, carVars>>

LongNext == EngageStep \/ Controlsd \/ CarUpdate

LongSpec == LongInit /\ [][LongNext]_longVars

\* controlsd brings longActive up to date.
FollowsEngagement == longActive # CC.longActive /\ Controlsd

\* Each process runs its loop at 100 Hz for as long as the system is up; what they
\* read may stay the same for ever, so only the steps that pass a decision on are
\* required.
FairLongSpec ==
  /\ LongSpec
  /\ WF_longVars(PublishEvents /\ UNCHANGED <<controlVars, carVars>>)
  /\ WF_longVars(FollowsEngagement)
  /\ WF_longVars(CarUpdate)

----------------------------------------------------------------------------
(* Properties.                                                              *)

Commands ==
  Requests \cup {0, HOLD_BRAKE_CMD_TARGET, HOLD_LATCHED_CMD_TARGET, NEAR_STOP_BRAKE_CMD_TARGET}

\* The type of the composed state.
LongTypeOK ==
  /\ EngageTypeOK
  /\ long_control_state \in {"off", "stopping", "pid"}
  /\ CC \in [longActive : BOOLEAN, resume : BOOLEAN, stopping : BOOLEAN, accel : Requests \cup {0}]
  /\ res_phase \in 0..RES_STEP - 1 /\ long_phase \in 0..LONG_COMMAND_STEP - 1
  /\ standstill_hold_frames \in 0..HOLD_CAP
  /\ resume_release_frames \in 0..RESUME_RELEASE_FRAMES
  /\ resume_crz_latched_frames \in 0..CRZ_CTRL_RESUME_REACTIVATE_FRAMES
  /\ resume_phase_frames \in 0..CRZ_INFO_RESUME_PHASE_FRAMES
  /\ {stop_intent_latched, resume_ctrl_active_prev, virtual_resume_sent_latched,
      resume_button_prev, res_sent} \subseteq BOOLEAN
  /\ out \in [active : BOOLEAN, stop : BOOLEAN, accel : Commands, unlatching : BOOLEAN,
              profile : {"standby", "engaged", "stop_go_hold", "stop_go_hold_latched"},
              acc2 : BOOLEAN, edge : BOOLEAN]
  /\ excused \in BOOLEAN

\* The frame pair does not contradict itself: an advertised stop carries a brake
\* command, through the approach, the hold, the release and the driver's pedals.
\* The clamp is for speeds below NEAR_STOP_ENTRY_SPEED and the stop is given up
\* above it, so a car that reports exactly that speed is the one exception.
StopBitsMeanBraking == out.stop => out.accel < 0 \/ out.edge

\* The brake is only relaxed to the latched command when the frames before it
\* have told the chassis to latch: a count of an earlier stop, or of an earlier
\* session, never shortens the phase in which the brake is held.
BrakeRelaxesAfterLatch ==
  [][out.accel # HOLD_LATCHED_CMD_TARGET /\ out'.accel = HOLD_LATCHED_CMD_TARGET =>
       out.profile = "stop_go_hold_latched"]_longVars

\* A car that is held is let go by the driver, by driving off, by the end of the
\* session, or by a RES frame that was sent in this standstill and met a latched
\* hold: a planner that changes its mind for a moment releases nothing.
HoldEndsForCause ==
  [][stop_intent_latched /\ ~stop_intent_latched' =>
       \/ ~CC.longActive
       \/ excused'
       \/ res_sent' /\ standstill_hold_frames > HOLD_REQUEST_FRAMES]_longVars

\* Control is withdrawn, or the driver overrides it with the gas.
Withdrawn == state = "disabled" \/ override_now

\* What selfdrived decides reaches the car through the two other processes: a
\* withdrawal that lasts ends the active frames.
WithdrawalReachesCar == Withdrawn ~> (~out.active \/ ~Withdrawn)

=============================================================================
