--------------------------- MODULE LongHold_proofs ---------------------------
(***************************************************************************)
(* Proofs about the engagement state machine and the hold of the Mazda     *)
(* port, for every value of the constants that satisfies                   *)
(* EngagementAssumption and HoldAssumption.                                *)
(***************************************************************************)
EXTENDS LongHold, TLAPS

----------------------------------------------------------------------------
(* Engagement.                                                              *)

\* While soft disabling, what has been counted and what the timer has left add
\* up; outside it nothing is counted.
SoftInv ==
  IF state = "softDisabling"
  THEN soft_disable_timer > 0 /\ soft_run + soft_disable_timer = SOFT_DISABLE_FRAMES + 1
  ELSE soft_run = 0

\* The counter of a session is below its limit for as long as the session lasts.
MismatchInv == enabled => mismatch_counter < MISMATCH_MAX

EngageInv == EngageTypeOK /\ SoftInv /\ MismatchInv

LEMMA EngageInitial == EngageInit => EngageInv
  <1> SUFFICES ASSUME EngageInit PROVE EngageInv
    OBVIOUS
  <1> USE EngagementAssumption DEF EngageInit
  <1>1. state = "disabled" /\ ~enabled /\ state \in States
    BY DEF enabled, States, ENABLED_STATES, ACTIVE_STATES
  <1>2. EngageTypeOK
    <2>1. override_now \in BOOLEAN /\ onroad_override \in BOOLEAN
      BY Zenon
    <2>2. /\ soft_disable_timer \in 0..SOFT_DISABLE_FRAMES
          /\ mismatch_counter \in 0..MISMATCH_MAX
          /\ soft_run \in Nat
      OBVIOUS
    <2> QED BY <1>1, <2>1, <2>2 DEF EngageTypeOK
  <1>3. SoftInv /\ MismatchInv
    BY <1>1 DEF SoftInv, MismatchInv
  <1> QED BY <1>2, <1>3 DEF EngageInv

\* What an update may lead to.
LEMMA NextStateFacts ==
  ASSUME state \in States, NEW ev, NEW timer \in Nat
  PROVE  /\ NextState(ev, timer) \in States
         /\ state # "disabled" /\ "immediateDisable" \in ev => NextState(ev, timer) = "disabled"
         /\ state = "softDisabling" /\ NextState(ev, timer) = "softDisabling" =>
              timer > 0 /\ "softDisable" \in ev
         /\ NextState(ev, timer) = "softDisabling" => "softDisable" \in ev /\ state \in ACTIVE_STATES
         /\ state \in ACTIVE_STATES /\ "softDisable" \in ev =>
              NextState(ev, timer) \in {"softDisabling", "disabled"}
  BY DEF NextState, FromSoftDisabling, FromDisabled, FromEnabled, Overridden, States,
         ENABLED_STATES, ACTIVE_STATES

LEMMA SelfdriveStepKeeps ==
  ASSUME EngageInv, NEW ev, NEW allowed \in BOOLEAN, SelfdriveStep(ev, allowed)
  PROVE  EngageInv'
  <1> DEFINE all == ev \cup MismatchEvents
  <1> USE EngagementAssumption
  <1>1. /\ TimerDown \in Nat /\ TimerDown <= SOFT_DISABLE_FRAMES
        /\ soft_disable_timer > 0 => TimerDown = soft_disable_timer - 1
    BY DEF EngageInv, EngageTypeOK, TimerDown
  <1>2. /\ state \in States /\ state' = NextState(all, TimerDown)
        /\ "softDisable" \in all <=> "softDisable" \in ev
    BY DEF EngageInv, EngageTypeOK, SelfdriveStep, update, MismatchEvents
  <1>3. /\ state' \in States
        /\ state # "disabled" /\ "immediateDisable" \in all => state' = "disabled"
        /\ state = "softDisabling" /\ state' = "softDisabling" =>
              TimerDown > 0 /\ "softDisable" \in ev
        /\ state' = "softDisabling" => "softDisable" \in ev /\ state \in ACTIVE_STATES
        /\ state \in ACTIVE_STATES /\ "softDisable" \in ev =>
              state' \in {"softDisabling", "disabled"}
    BY <1>1, <1>2, NextStateFacts
  <1>4. soft_disable_timer' = IF state' = "softDisabling" /\ state # "softDisabling"
                              THEN SOFT_DISABLE_FRAMES ELSE TimerDown
    BY DEF SelfdriveStep, update
  <1>5. soft_run' = IF SoftRequest(ev) /\ state' \in ACTIVE_STATES THEN soft_run + 1 ELSE 0
    BY DEF SelfdriveStep
  <1>6. SoftInv' /\ soft_run' \in Nat
    <2>1. CASE state' = "softDisabling"
      BY <2>1, <1>1, <1>3, <1>4, <1>5
      DEF SoftInv, SoftRequest, ACTIVE_STATES, EngageInv, EngageTypeOK
    <2>2. CASE state' # "softDisabling"
      BY <2>2, <1>3, <1>5 DEF SoftInv, SoftRequest, ACTIVE_STATES, EngageInv, EngageTypeOK
    <2> QED BY <2>1, <2>2
  <1>7. /\ mismatch_counter' \in Nat
        /\ mismatch_counter' = IF ~enabled THEN 0
                               ELSE IF allowed THEN mismatch_counter ELSE mismatch_counter + 1
        /\ mismatch_counter' >= MISMATCH_MAX => "immediateDisable" \in all
    BY DEF SelfdriveStep, MismatchCounter, MismatchEvents, EngageInv, EngageTypeOK
  <1>9. /\ enabled <=> state # "disabled"
        /\ enabled' <=> state' # "disabled"
    BY <1>2, <1>3 DEF enabled, States, ENABLED_STATES, ACTIVE_STATES
  <1>10. MismatchInv' /\ mismatch_counter' \in 0..MISMATCH_MAX
    <2>1. CASE state' = "disabled"
      BY <2>1, <1>7, <1>9 DEF MismatchInv, EngageInv, EngageTypeOK
    <2>2. CASE state' # "disabled"
      BY <2>2, <1>3, <1>7, <1>9 DEF MismatchInv, EngageInv, EngageTypeOK
    <2> QED BY <2>1, <2>2
  <1>11. soft_disable_timer' \in 0..SOFT_DISABLE_FRAMES
    BY <1>1, <1>4
  <1>12. override_now' \in BOOLEAN /\ onroad_override' \in BOOLEAN
    BY DEF SelfdriveStep, EngageInv, EngageTypeOK
  <1> QED BY <1>3, <1>6, <1>10, <1>11, <1>12 DEF EngageInv, EngageTypeOK

LEMMA EngageKept == EngageInv /\ [Selfdrived]_engageVars => EngageInv'
  <1> SUFFICES ASSUME EngageInv, [Selfdrived]_engageVars PROVE EngageInv'
    OBVIOUS
  <1>1. ASSUME NEW ev \in EventSets, NEW allowed \in BOOLEAN, SelfdriveStep(ev, allowed)
        PROVE  EngageInv'
    BY <1>1, SelfdriveStepKeeps
  <1>2. CASE PublishEvents
    BY <1>2 DEF PublishEvents, EngageInv, EngageTypeOK, SoftInv, MismatchInv, enabled
  <1>3. CASE UNCHANGED engageVars
    BY <1>3 DEF engageVars, EngageInv, EngageTypeOK, SoftInv, MismatchInv, enabled
  <1> QED BY <1>1, <1>2, <1>3 DEF Selfdrived

LEMMA EngageInvariant == EngageSpec => []EngageInv
  BY EngageInitial, EngageKept, PTL DEF EngageSpec

\* For every length of the timer and every mixture of events, a condition that
\* keeps asking to soft disable ends the activity of StateMachine within it.
THEOREM SoftDisableEnds == EngageSpec => []SoftDisableIsBounded
  <1>1. EngageInv => SoftDisableIsBounded
    BY EngagementAssumption DEF EngageInv, SoftInv, EngageTypeOK, SoftDisableIsBounded
  <1> QED BY <1>1, EngageInvariant, PTL

----------------------------------------------------------------------------
(* The composition.                                                         *)

\* The engagement is only changed by its own process: what is proved of EngageSpec
\* holds in the composition.
LEMMA LongStepEngages == [LongNext]_longVars => [Selfdrived]_engageVars
  BY DEF LongNext, longVars, engageVars, EngageStep, Controlsd, ControlsStep, CarUpdate,
         CarStep

\* The three processes together implement the engagement specification.
THEOREM LongImplementsEngagement == LongSpec => EngageSpec
  BY LongStepEngages, PTL DEF LongSpec, LongInit, EngageSpec

LEMMA LongEngageInvariant == LongSpec => []EngageInv
  BY LongImplementsEngagement, EngageInvariant, PTL

CCType == [longActive : BOOLEAN, resume : BOOLEAN, stopping : BOOLEAN,
           accel : Requests \cup {0}]

\* The counters, what is read of them, and the last carControl.
HoldTypeOK ==
  /\ CC \in CCType
  /\ long_phase \in 0..LONG_COMMAND_STEP - 1
  /\ standstill_hold_frames \in 0..HOLD_CAP
  /\ resume_release_frames \in 0..RESUME_RELEASE_FRAMES
  /\ stop_intent_latched \in BOOLEAN
  /\ virtual_resume_sent_latched \in BOOLEAN
  /\ res_sent \in BOOLEAN

\* Updates since the last command frame.
SinceCommand == IF long_phase = 0 THEN LONG_COMMAND_STEP - 1 ELSE long_phase - 1

\* A latched intent has no release under way; a count without the intent has one;
\* a RES frame that is remembered was sent; and a hold that is older than the
\* latch by the updates since the last command was announced by that command.
HoldInv ==
  /\ HoldTypeOK
  /\ stop_intent_latched => resume_release_frames = 0
  /\ standstill_hold_frames > 0 /\ ~stop_intent_latched => resume_release_frames > 0
  /\ virtual_resume_sent_latched => res_sent
  /\ stop_intent_latched /\ standstill_hold_frames > CRZ_CTRL_LATCH_FRAMES + SinceCommand =>
       out.profile = "stop_go_hold_latched"

LEMMA HoldInitial == LongInit => HoldInv
  <1> SUFFICES ASSUME LongInit PROVE HoldInv
    OBVIOUS
  <1>1. /\ stop_intent_latched = FALSE /\ virtual_resume_sent_latched = FALSE
        /\ res_sent = FALSE
        /\ CC = [longActive |-> FALSE, resume |-> FALSE, stopping |-> FALSE, accel |-> 0]
    BY Zenon DEF LongInit
  <1>2. /\ long_phase \in 0..LONG_COMMAND_STEP - 1
        /\ standstill_hold_frames = 0
        /\ standstill_hold_frames \in 0..HOLD_CAP
        /\ resume_release_frames = 0
        /\ resume_release_frames \in 0..RESUME_RELEASE_FRAMES
    BY HoldAssumption DEF LongInit, HOLD_CAP
  <1>3. CC \in CCType
    BY <1>1 DEF CCType
  <1>4. HoldTypeOK
    BY <1>1, <1>2, <1>3, Zenon DEF HoldTypeOK
  <1> QED BY <1>1, <1>2, <1>4 DEF HoldInv

----------------------------------------------------------------------------
(* What one update of CarController computes.                               *)

InputType == [standstill : BOOLEAN, v : Nat, gas : BOOLEAN, res : BOOLEAN]

LEMMA CounterTypes ==
  ASSUME HoldTypeOK, NEW i \in InputType
  PROVE  /\ HoldFrames(i) \in 0..HOLD_CAP
         /\ HoldFrames(i) <= standstill_hold_frames + 1
         /\ ReleaseFrames(i) \in 0..RESUME_RELEASE_FRAMES
         /\ Advance(long_phase, LONG_COMMAND_STEP) \in 0..LONG_COMMAND_STEP - 1
  BY HoldAssumption
  DEF HoldTypeOK, HoldFrames, Smaller, HOLD_CAP, ReleaseFrames, Down, Advance

\* The intent survives an update only without a release.
LEMMA IntentFacts ==
  ASSUME HoldTypeOK, NEW i \in InputType
  PROVE  /\ StopIntent(i) => ReleaseFrames(i) = 0
         /\ HoldFrames(i) > 0 /\ ~StopIntent(i) => ReleaseFrames(i) > 0
         /\ HoldFrames(i) > 0 => resume_release_frames = 0 /\ i.standstill /\ CC.longActive
  <1>1. ReleaseFrames(i) \in Nat /\ resume_release_frames \in Nat
    BY CounterTypes, HoldAssumption DEF HoldTypeOK
  <1>2. StopIntent(i) => ReleaseFrames(i) = 0
    BY <1>1 DEF StopIntent, ReleaseHold
  <1>3. ASSUME HoldFrames(i) > 0
        PROVE  /\ CC.longActive /\ i.standstill /\ ~BaseRelease(i)
               /\ stop_intent_latched \/ CC.stopping
    BY <1>3 DEF HoldFrames
  <1>4. ASSUME HoldFrames(i) > 0, ~StopIntent(i)
        PROVE  ReleaseFrames(i) > 0
    <2>1. ReleaseHold(i)
      BY <1>3, <1>4 DEF StopIntent
    <2>2. ResumeUnlatch(i) \/ ReleaseFrames(i) > 0
      BY <2>1, <1>3, <1>4 DEF ReleaseHold
    <2> QED BY <2>2, <1>3, <1>4, HoldAssumption DEF ReleaseFrames
  <1> QED BY <1>1, <1>2, <1>3, <1>4 DEF BaseRelease

\* An advertised stop comes with a brake command.
LEMMA StopBrakes ==
  ASSUME HoldTypeOK, NEW i \in InputType, StoppingActive(i)
  PROVE  Accel(i) < 0 \/ (~i.standstill /\ i.v = NEAR_STOP_ENTRY_SPEED)
  <1>1. /\ StopIntent(i) /\ ReleaseFrames(i) = 0 /\ ~HoldLatched(i)
        /\ CC.longActive
        /\ i.standstill \/ CC.stopping \/ i.v <= NEAR_STOP_ENTRY_SPEED
    BY DEF StoppingActive, StopIntent
  <1>a. CC.accel \in Int
    <2>1. Requests \subseteq Int
      BY HoldAssumption
    <2>2. CC.accel \in Requests \cup {0}
      BY DEF HoldTypeOK, CCType
    <2>3. 0 \in Int
      OBVIOUS
    <2> QED BY <2>1, <2>2, <2>3, Zenon
  <1>b. /\ NEAR_STOP_BRAKE_CMD_TARGET \in Int /\ NEAR_STOP_BRAKE_CMD_TARGET < 0
        /\ HOLD_BRAKE_CMD_TARGET < 0
    BY HoldAssumption
  <1>c. i.v \in Nat /\ NEAR_STOP_ENTRY_SPEED \in Nat
    BY HoldAssumption DEF InputType
  <1>2. CC.accel \in Int /\ NEAR_STOP_BRAKE_CMD_TARGET \in Int /\ NEAR_STOP_BRAKE_CMD_TARGET < 0
        /\ HOLD_BRAKE_CMD_TARGET < 0 /\ i.v \in Nat /\ NEAR_STOP_ENTRY_SPEED \in Nat
    BY <1>a, <1>b, <1>c
  <1>3. CASE i.standstill
    BY <1>1, <1>2, <1>3 DEF Accel
  <1>4. CASE ~i.standstill /\ (CC.stopping \/ i.v < NEAR_STOP_ENTRY_SPEED)
    <2>1. Accel(i) = Smaller(CC.accel, NEAR_STOP_BRAKE_CMD_TARGET)
      BY <1>1, <1>2, <1>4 DEF Accel
    <2> QED BY <2>1, <1>2 DEF Smaller
  <1> QED BY <1>1, <1>2, <1>3, <1>4

\* The relaxed command is only that of a latched hold.
LEMMA RelaxedIsLatched ==
  ASSUME HoldTypeOK, NEW i \in InputType, Accel(i) = HOLD_LATCHED_CMD_TARGET
  PROVE  HoldFrames(i) > HOLD_REQUEST_FRAMES
  <1>1. /\ CC.accel \in Requests \cup {0}
        /\ HOLD_LATCHED_CMD_TARGET < 0
        /\ HOLD_LATCHED_CMD_TARGET \notin Requests
        /\ HOLD_LATCHED_CMD_TARGET # HOLD_BRAKE_CMD_TARGET
        /\ HOLD_LATCHED_CMD_TARGET # NEAR_STOP_BRAKE_CMD_TARGET
    BY HoldAssumption DEF HoldTypeOK, CCType
  <1>2. HOLD_LATCHED_CMD_TARGET # CC.accel /\ HOLD_LATCHED_CMD_TARGET # 0
    BY <1>1
  <1>3. CC.longActive
    BY <1>2 DEF Accel
  <1>4. ReleaseFrames(i) \in Nat
    BY CounterTypes, HoldAssumption
  <1>5. ReleaseFrames(i) = 0
    BY <1>2, <1>3, <1>4 DEF Accel, Larger
  <1>6. i.standstill
    BY <1>1, <1>2, <1>3, <1>5 DEF Accel, Smaller
  <1>7. HoldLatched(i)
    BY <1>1, <1>3, <1>5, <1>6 DEF Accel
  <1> QED BY <1>7 DEF HoldLatched

----------------------------------------------------------------------------
(* The steps of the composition.                                            *)

LEMMA ControlsStepKeeps ==
  ASSUME HoldInv, NEW should_stop, NEW brake, NEW cruise_standstill,
         ControlsStep(should_stop, brake, cruise_standstill)
  PROVE  HoldInv'
  <1>1. CC' \in CCType
    <2>1. PICK a \in LongOutput(long_control_state') :
             CC' = [longActive |-> longActive,
                    resume |-> enabled /\ cruise_standstill /\ ~should_stop,
                    stopping |-> long_control_state = "stopping",
                    accel |-> a]
      BY DEF ControlsStep
    <2>2. a \in Requests \cup {0}
      BY DEF LongOutput
    <2>3. /\ longActive \in BOOLEAN
          /\ (enabled /\ cruise_standstill /\ ~should_stop) \in BOOLEAN
          /\ (long_control_state = "stopping") \in BOOLEAN
      BY Zenon DEF longActive, enabled
    <2> QED BY <2>1, <2>2, <2>3, Zenon DEF CCType
  <1>2. UNCHANGED carVars
    BY DEF ControlsStep
  <1> QED BY <1>1, <1>2 DEF HoldInv, HoldTypeOK, SinceCommand, carVars

\* After an update that is no command the count and the updates since the last
\* command grow together; a command announces the latch itself.
LEMMA CarStepKeeps ==
  ASSUME HoldInv, NEW i \in InputType, CarStep(i)
  PROVE  HoldInv'
  <1> USE DEF HoldInv
  <1>1. /\ stop_intent_latched' = StopIntent(i)
        /\ standstill_hold_frames' = HoldFrames(i)
        /\ resume_release_frames' = ReleaseFrames(i)
        /\ virtual_resume_sent_latched' = (CC.longActive /\ VirtualResumeLatched(i))
        /\ res_sent' = (i.standstill /\ (res_sent \/ VirtualResumeSent(i)))
        /\ long_phase' = Advance(long_phase, LONG_COMMAND_STEP)
        /\ CC' = CC
        /\ out' = IF long_phase = 0 THEN Messages(i) ELSE out
    BY DEF CarStep, controlVars
  <1>2. HoldTypeOK'
    <2>1. /\ StopIntent(i) \in BOOLEAN
          /\ (CC.longActive /\ VirtualResumeLatched(i)) \in BOOLEAN
          /\ (i.standstill /\ (res_sent \/ VirtualResumeSent(i))) \in BOOLEAN
      BY Zenon DEF StopIntent
    <2>2. /\ long_phase' \in 0..LONG_COMMAND_STEP - 1
          /\ standstill_hold_frames' \in 0..HOLD_CAP
          /\ resume_release_frames' \in 0..RESUME_RELEASE_FRAMES
      BY <1>1, CounterTypes
    <2>3. HOLD_CAP' = HOLD_CAP
      BY DEF HOLD_CAP
    <2> QED BY <1>1, <2>1, <2>2, <2>3, Zenon DEF HoldTypeOK
  <1>3. (stop_intent_latched => resume_release_frames = 0)'
    BY <1>1, IntentFacts
  <1>4. (standstill_hold_frames > 0 /\ ~stop_intent_latched => resume_release_frames > 0)'
    BY <1>1, IntentFacts
  <1>5. (virtual_resume_sent_latched => res_sent)'
    BY <1>1 DEF VirtualResumeLatched
  <1>6. ASSUME StopIntent(i), HoldFrames(i) > CRZ_CTRL_LATCH_FRAMES + SinceCommand'
        PROVE  out'.profile = "stop_go_hold_latched"
    <2>1. /\ HoldFrames(i) \in Nat /\ standstill_hold_frames \in Nat
          /\ HoldFrames(i) <= standstill_hold_frames + 1
          /\ long_phase \in Nat /\ long_phase < LONG_COMMAND_STEP
          /\ LONG_COMMAND_STEP \in Nat \ {0} /\ CRZ_CTRL_LATCH_FRAMES \in Nat \ {0}
      BY CounterTypes, HoldAssumption DEF HoldTypeOK, HOLD_CAP
    <2>2. SinceCommand' \in Nat
      BY <2>1, <1>1 DEF SinceCommand, Advance
    <2>3. HoldFrames(i) > CRZ_CTRL_LATCH_FRAMES /\ HoldFrames(i) > 0
      BY <1>6, <2>1, <2>2
    <2>4. CASE long_phase = 0
      <3>1. CC.longActive /\ i.standstill /\ ~ResumeUnlatch(i)
        BY <2>3, <1>6, IntentFacts DEF StopIntent, ReleaseHold
      <3>2. CrzHoldLatched(i)
        BY <3>1, <2>1, <2>3, <1>6 DEF CrzHoldLatched, StandstillHold
      <3>3. Profile(i) = "stop_go_hold_latched"
        BY <3>1, <3>2, <1>6 DEF Profile
      <3> QED BY <3>3, <2>4, <1>1 DEF Messages
    <2>5. CASE long_phase # 0
      <3>1. SinceCommand' = SinceCommand + 1 /\ SinceCommand \in Nat
        BY <2>1, <2>5, <1>1 DEF SinceCommand, Advance
      <3>2. standstill_hold_frames > CRZ_CTRL_LATCH_FRAMES + SinceCommand
        BY <3>1, <2>1, <1>6
      <3>3. resume_release_frames = 0
        BY <2>3, IntentFacts
      <3>4. stop_intent_latched
        BY <3>1, <3>2, <3>3, <2>1
      <3> QED BY <3>2, <3>4, <2>5, <1>1
    <2> QED BY <2>4, <2>5
  <1>7. (stop_intent_latched /\ standstill_hold_frames > CRZ_CTRL_LATCH_FRAMES + SinceCommand =>
           out.profile = "stop_go_hold_latched")'
    BY <1>1, <1>6
  <1> QED BY <1>2, <1>3, <1>4, <1>5, <1>7

LEMMA InputsTyped == Inputs \subseteq InputType
  BY HoldAssumption DEF InputType

LEMMA HoldKept == HoldInv /\ [LongNext]_longVars => HoldInv'
  <1> SUFFICES ASSUME HoldInv, [LongNext]_longVars PROVE HoldInv'
    OBVIOUS
  <1>1. CASE EngageStep
    BY <1>1 DEF EngageStep, controlVars, carVars, HoldInv, HoldTypeOK, SinceCommand
  <1>2. CASE Controlsd
    BY <1>2, ControlsStepKeeps DEF Controlsd
  <1>3. CASE CarUpdate
    BY <1>3, CarStepKeeps, InputsTyped DEF CarUpdate
  <1>4. CASE UNCHANGED longVars
    BY <1>4 DEF longVars, controlVars, carVars, HoldInv, HoldTypeOK, SinceCommand
  <1> QED BY <1>1, <1>2, <1>3, <1>4 DEF LongNext

LEMMA HoldInvariant == LongSpec => []HoldInv
  BY HoldInitial, HoldKept, PTL DEF LongSpec

\* For every speed, request and order of the processes, a frame pair that
\* advertises a stop carries a brake command.
THEOREM AdvertisedStopsBrake == LongSpec => []StopBitsMeanBraking
  <1>1. LongInit => StopBitsMeanBraking
    BY DEF LongInit, StopBitsMeanBraking
  <1>2. HoldInv /\ StopBitsMeanBraking /\ [LongNext]_longVars => StopBitsMeanBraking'
    <2> SUFFICES ASSUME HoldInv, StopBitsMeanBraking, [LongNext]_longVars
                 PROVE  StopBitsMeanBraking'
      OBVIOUS
    <2>1. ASSUME NEW i \in InputType, CarStep(i) PROVE StopBitsMeanBraking'
      <3>1. out' = Messages(i) \/ out' = out
        BY <2>1 DEF CarStep
      <3>2. Messages(i).stop => Messages(i).accel < 0 \/ Messages(i).edge
        BY StopBrakes DEF HoldInv, Messages
      <3> QED BY <3>1, <3>2 DEF StopBitsMeanBraking
    <2>2. CASE ~CarUpdate
      <3>1. out' = out
        BY <2>2 DEF LongNext, longVars, carVars, EngageStep, Controlsd, ControlsStep
      <3> QED BY <3>1 DEF StopBitsMeanBraking
    <2> QED BY <2>1, <2>2, InputsTyped DEF CarUpdate
  <1> QED BY <1>1, <1>2, HoldInvariant, PTL DEF LongSpec

\* For every choice of the frame counts that satisfies HoldAssumption the brake
\* is relaxed only after a command that announced the latch.
THEOREM RelaxationFollowsLatch == LongSpec => BrakeRelaxesAfterLatch
  <1> DEFINE Relaxes == out.accel # HOLD_LATCHED_CMD_TARGET /\ out'.accel = HOLD_LATCHED_CMD_TARGET =>
                          out.profile = "stop_go_hold_latched"
  <1>1. HoldInv /\ [LongNext]_longVars => [Relaxes]_longVars
    <2> SUFFICES ASSUME HoldInv, LongNext, out.accel # HOLD_LATCHED_CMD_TARGET,
                        out'.accel = HOLD_LATCHED_CMD_TARGET
                 PROVE  out.profile = "stop_go_hold_latched"
      OBVIOUS
    <2>1. CarUpdate
      BY DEF LongNext, EngageStep, Controlsd, ControlsStep, carVars
    <2>2. PICK i \in InputType : CarStep(i)
      BY <2>1, InputsTyped DEF CarUpdate
    <2>3. long_phase = 0 /\ Accel(i) = HOLD_LATCHED_CMD_TARGET
      BY <2>2 DEF CarStep, Messages
    <2>4. HoldFrames(i) > HOLD_REQUEST_FRAMES
      BY <2>3, RelaxedIsLatched DEF HoldInv
    <2>5. /\ standstill_hold_frames \in Nat /\ HoldFrames(i) \in Nat
          /\ HoldFrames(i) <= standstill_hold_frames + 1
          /\ HOLD_REQUEST_FRAMES \in Nat /\ LONG_COMMAND_STEP \in Nat \ {0}
          /\ CRZ_CTRL_LATCH_FRAMES \in Nat \ {0}
          /\ CRZ_CTRL_LATCH_FRAMES + LONG_COMMAND_STEP <= HOLD_REQUEST_FRAMES
      BY CounterTypes, HoldAssumption DEF HoldInv, HoldTypeOK, HOLD_CAP
    <2>6. SinceCommand = LONG_COMMAND_STEP - 1
      BY <2>3 DEF SinceCommand
    <2>7. standstill_hold_frames > CRZ_CTRL_LATCH_FRAMES + SinceCommand
      BY <2>4, <2>5, <2>6
    <2>8. stop_intent_latched
      BY <2>4, <2>5, IntentFacts DEF HoldInv
    <2> QED BY <2>7, <2>8 DEF HoldInv
  <1> QED BY <1>1, HoldInvariant, PTL DEF LongSpec, BrakeRelaxesAfterLatch

\* For every choice of the constants a held car is only let go for one of the
\* listed causes.
THEOREM HoldsEndForCause == LongSpec => HoldEndsForCause
  <1> DEFINE Caused == stop_intent_latched /\ ~stop_intent_latched' =>
                         \/ ~CC.longActive
                         \/ excused'
                         \/ res_sent' /\ standstill_hold_frames > HOLD_REQUEST_FRAMES
  <1>1. HoldInv /\ [LongNext]_longVars => [Caused]_longVars
    <2> SUFFICES ASSUME HoldInv, LongNext, stop_intent_latched, ~stop_intent_latched',
                        CC.longActive, ~excused'
                 PROVE  res_sent' /\ standstill_hold_frames > HOLD_REQUEST_FRAMES
      OBVIOUS
    <2>1. CarUpdate
      BY DEF LongNext, EngageStep, Controlsd, ControlsStep, carVars
    <2>2. PICK i \in InputType : CarStep(i)
      BY <2>1, InputsTyped DEF CarUpdate
    <2>3. ~i.gas /\ ~i.res /\ i.standstill
      BY <2>2 DEF CarStep
    <2>4. ~StopIntent(i)
      BY <2>2 DEF CarStep
    <2>5. ReleaseHold(i)
      BY <2>3, <2>4 DEF StopIntent
    <2>6. resume_release_frames = 0
      BY DEF HoldInv
    <2>7. ResumeUnlatch(i)
      BY <2>3, <2>5, <2>6 DEF ReleaseHold, BaseRelease, ReleaseFrames, Down
    <2>8. VirtualUnlatch(i)
      BY <2>3, <2>7 DEF ResumeUnlatch, PhysicalUnlatch
    <2>9. res_sent'
      BY <2>2, <2>3, <2>8 DEF CarStep, VirtualUnlatch, VirtualResumeLatched, HoldInv
    <2> QED BY <2>8, <2>9 DEF VirtualUnlatch, HoldLatchedReady
  <1> QED BY <1>1, HoldInvariant, PTL DEF LongSpec, HoldEndsForCause

----------------------------------------------------------------------------
(* Types.                                                                   *)

OutType ==
  [active : BOOLEAN, stop : BOOLEAN, accel : Commands, unlatching : BOOLEAN,
   profile : {"standby", "engaged", "stop_go_hold", "stop_go_hold_latched"},
   acc2 : BOOLEAN, edge : BOOLEAN]

\* What LongTypeOK says beyond EngageTypeOK and HoldTypeOK.
OtherTypes ==
  /\ long_control_state \in {"off", "stopping", "pid"}
  /\ res_phase \in 0..RES_STEP - 1
  /\ resume_crz_latched_frames \in 0..CRZ_CTRL_RESUME_REACTIVATE_FRAMES
  /\ resume_phase_frames \in 0..CRZ_INFO_RESUME_PHASE_FRAMES
  /\ resume_ctrl_active_prev \in BOOLEAN
  /\ resume_button_prev \in BOOLEAN
  /\ out \in OutType
  /\ excused \in BOOLEAN

LEMMA TypesTogether ==
  ASSUME EngageTypeOK, HoldTypeOK, OtherTypes
  PROVE  LongTypeOK
  BY Zenon DEF LongTypeOK, HoldTypeOK, OtherTypes, CCType, OutType

LEMMA OtherTypesInitial == LongInit => OtherTypes
  <1> SUFFICES ASSUME LongInit PROVE OtherTypes
    OBVIOUS
  <1>1. /\ res_phase \in 0..RES_STEP - 1
        /\ resume_crz_latched_frames \in 0..CRZ_CTRL_RESUME_REACTIVATE_FRAMES
        /\ resume_phase_frames \in 0..CRZ_INFO_RESUME_PHASE_FRAMES
    BY HoldAssumption DEF LongInit
  <1>2. 0 \in Commands
    BY DEF Commands
  <1>3. out \in OutType
    BY <1>2 DEF LongInit, OutType
  <1>4. /\ long_control_state \in {"off", "stopping", "pid"}
        /\ resume_ctrl_active_prev \in BOOLEAN /\ resume_button_prev \in BOOLEAN
        /\ excused \in BOOLEAN
    BY Zenon DEF LongInit
  <1> QED BY <1>1, <1>3, <1>4 DEF OtherTypes

LEMMA MessagesTyped ==
  ASSUME HoldTypeOK, NEW i \in InputType
  PROVE  Messages(i) \in OutType
  <1>1. Accel(i) \in Commands
    <2>1. CC.accel \in Requests \cup {0}
      BY DEF HoldTypeOK, CCType
    <2>2. Larger(CC.accel, 0) \in Commands
      BY <2>1, Zenon DEF Larger, Commands
    <2>3. Smaller(CC.accel, NEAR_STOP_BRAKE_CMD_TARGET) \in Commands /\ CC.accel \in Commands
      BY <2>1, Zenon DEF Smaller, Commands
    <2>4. HOLD_LATCHED_CMD_TARGET \in Commands /\ HOLD_BRAKE_CMD_TARGET \in Commands
          /\ 0 \in Commands
      BY DEF Commands
    <2> QED BY <2>2, <2>3, <2>4 DEF Accel
  <1>2. Profile(i) \in {"standby", "engaged", "stop_go_hold", "stop_go_hold_latched"}
    BY DEF Profile
  <1>3. /\ CC.longActive \in BOOLEAN
        /\ StoppingActive(i) \in BOOLEAN
        /\ (ResumeActive(i) /\ PhaseFrames(i) > 0) \in BOOLEAN
        /\ (CC.longActive /\ ~CrzHoldPassive(i)) \in BOOLEAN
        /\ (~i.standstill /\ i.v = NEAR_STOP_ENTRY_SPEED) \in BOOLEAN
    BY Zenon DEF HoldTypeOK, CCType, StoppingActive
  <1> QED BY <1>1, <1>2, <1>3 DEF Messages, OutType

LEMMA OtherTypesKept ==
  ASSUME HoldTypeOK, OtherTypes, [LongNext]_longVars
  PROVE  OtherTypes'
  <1>1. ASSUME NEW i \in InputType, CarStep(i) PROVE OtherTypes'
    <2>1. out' \in OutType
      <3>1. out' = Messages(i) \/ out' = out
        BY <1>1 DEF CarStep
      <3> QED BY <3>1, MessagesTyped DEF OtherTypes
    <2>2. /\ res_phase' \in 0..RES_STEP - 1
          /\ resume_crz_latched_frames' \in 0..CRZ_CTRL_RESUME_REACTIVATE_FRAMES
          /\ resume_phase_frames' \in 0..CRZ_INFO_RESUME_PHASE_FRAMES
      <3>1. res_phase' \in 0..RES_STEP - 1
        BY <1>1, HoldAssumption DEF CarStep, Advance, OtherTypes
      <3>2. resume_crz_latched_frames' \in 0..CRZ_CTRL_RESUME_REACTIVATE_FRAMES
        BY <1>1, HoldAssumption DEF CarStep, CrzLatchedFrames, Down, OtherTypes
      <3>3. resume_phase_frames' \in 0..CRZ_INFO_RESUME_PHASE_FRAMES
        BY <1>1, HoldAssumption DEF CarStep, PhaseFrames, Down, OtherTypes
      <3> QED BY <3>1, <3>2, <3>3
    <2>3. /\ resume_ctrl_active_prev' \in BOOLEAN /\ resume_button_prev' \in BOOLEAN
          /\ excused' \in BOOLEAN
      BY <1>1, Zenon DEF CarStep, ResumeActive, ResumeUnlatch
    <2>4. long_control_state' = long_control_state
      BY <1>1 DEF CarStep, controlVars
    <2> QED BY <2>1, <2>2, <2>3, <2>4 DEF OtherTypes
  <1>2. ASSUME NEW s, NEW b, NEW c, ControlsStep(s, b, c) PROVE OtherTypes'
    <2>1. long_control_state' \in {"off", "stopping", "pid"}
      BY <1>2 DEF ControlsStep, long_control_state_trans
    <2>2. UNCHANGED carVars
      BY <1>2 DEF ControlsStep
    <2> QED BY <2>1, <2>2 DEF OtherTypes, carVars
  <1>3. CASE EngageStep \/ UNCHANGED longVars
    BY <1>3 DEF EngageStep, longVars, controlVars, carVars, OtherTypes
  <1> QED BY <1>1, <1>2, <1>3, InputsTyped DEF LongNext, Controlsd, CarUpdate

\* The state of the three processes keeps its types, and the counters of the
\* engagement and of the hold their bounds, for every value of the constants.
THEOREM LongTypeCorrect == LongSpec => []LongTypeOK
  <1>1. LongSpec => []OtherTypes
    <2>1. HoldInv /\ OtherTypes /\ [LongNext]_longVars => OtherTypes'
      BY OtherTypesKept DEF HoldInv
    <2> QED BY OtherTypesInitial, <2>1, HoldInvariant, PTL DEF LongSpec
  <1>2. EngageInv /\ HoldInv /\ OtherTypes => LongTypeOK
    BY TypesTogether DEF EngageInv, HoldInv
  <1> QED BY <1>1, <1>2, LongEngageInvariant, HoldInvariant, PTL

=============================================================================
