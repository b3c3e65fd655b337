------------------------- MODULE PandaBoard_proofs --------------------------
(***************************************************************************)
(* The board implements the safety model, for every Build, with the tick    *)
(* timer clocked or not, and whatever the host requests.  What is proved of  *)
(* SafetySpec in MazdaSafety_proofs therefore holds in the board.           *)
(***************************************************************************)
EXTENDS PandaBoard, MazdaSafety_proofs

\* The tick is a step of the safety model: the timeout sets NOOUTPUT, and every
\* other tick runs safety_tick on a controls_allowed that it can only have cleared.
LEMMA TickIsSafetyStep == tick_handler => SafetyNext
  <1> SUFFICES ASSUME tick_handler PROVE SafetyNext
    OBVIOUS
  <1>1. CASE ModeExpires
    <2>1. set_safety_hooks("NOOUTPUT", FALSE, 1)
      BY <1>1 DEF tick_handler
    <2>2. SetSafetyHooks
      BY <2>1, Zenon DEF SetSafetyHooks, SafetyModes
    <2>3. QED
      BY <2>2 DEF SafetyNext
  <1>2. CASE ~ModeExpires
    <2>1. safety_tick(StillUsed)
      BY <1>2 DEF tick_handler
    <2>2. CASE Mismatches < MAX_MISMATCHES
      <3>1. safety_tick(controls_allowed)
        BY <2>1, <2>2, Zenon DEF StillUsed, safety_tick
      <3>2. QED
        BY <3>1 DEF SafetyNext
    <2>3. CASE ~(Mismatches < MAX_MISMATCHES)
      <3>1. safety_tick(FALSE)
        BY <2>1, <2>3, Zenon DEF StillUsed, safety_tick
      <3>2. QED
        BY <3>1 DEF SafetyNext
    <2>4. QED
      BY <2>2, <2>3
  <1>3. QED
    BY <1>1, <1>2

\* Every step of the board is a step of the safety model or leaves it alone.
LEMMA BoardStep == [BoardNext]_boardVars => [SafetyNext]_safetyVars
  <1> SUFFICES ASSUME [BoardNext]_boardVars PROVE SafetyNext \/ UNCHANGED safetyVars
    BY Zenon
  <1>1. CASE \E f \in RxFrames : can_rx(f)
    BY <1>1, Zenon DEF can_rx, SafetyNext
  <1>2. CASE \E f \in HostFrames : can_send(f)
    BY <1>2, Zenon DEF can_send, SafetyNext
  <1>3. ASSUME NEW mode \in SafetyModes \cup {"UNREGISTERED"}, NEW long \in BOOLEAN,
               set_safety_mode(mode, long)
        PROVE  SafetyNext
    <2> DEFINE set == IF mode \in SafetyModes THEN mode ELSE "SILENT"
    <2>1. set \in SafetyModes
      BY Zenon DEF SafetyModes
    <2>2. set_safety_hooks(set, long, 0)
      BY <1>3, Zenon DEF set_safety_mode
    <2> HIDE DEF set
    <2>3. SetSafetyHooks
      BY <2>1, <2>2, Zenon DEF SetSafetyHooks
    <2>4. QED
      BY <2>3 DEF SafetyNext
  <1>4. ASSUME NEW engaged \in BOOLEAN, Heartbeat(engaged)
        PROVE  UNCHANGED safetyVars
    BY <1>4, Zenon DEF Heartbeat
  <1>5. CASE DisableHeartbeat
    BY <1>5, Zenon DEF DisableHeartbeat
  <1>6. ASSUME NEW state \in BOOLEAN, SetPowerSave(state)
        PROVE  UNCHANGED safetyVars
    BY <1>6, Zenon DEF SetPowerSave
  <1>7. CASE SystemReset
    <2>1. set_safety_hooks("NOOUTPUT", FALSE, 0)
      BY <1>7, Zenon DEF SystemReset
    <2>2. SetSafetyHooks
      BY <2>1, Zenon DEF SetSafetyHooks, SafetyModes
    <2>3. QED
      BY <2>2 DEF SafetyNext
  <1>8. CASE HostDies
    BY <1>8, Zenon DEF HostDies
  <1>9. CASE tick_handler
    BY <1>9, TickIsSafetyStep
  <1>10. CASE UNCHANGED boardVars
    BY <1>10 DEF boardVars
  <1>11. QED
    BY <1>1, <1>2, <1>3, <1>4, <1>5, <1>6, <1>7, <1>8, <1>9, <1>10, Zenon
       DEF BoardNext

\* The board (main.c and main_comms.h around the safety model) implements the
\* safety model's specification.
THEOREM BoardRefinesSafety == BoardSpec => BoardImplementsSafety
  <1>1. BoardInit => SafetyInit
    BY DEF BoardInit
  <1>2. QED
    BY <1>1, BoardStep, PTL DEF BoardSpec, BoardImplementsSafety, SafetySpec

\* So in the running board too, whatever the order of requests, frames, resets
\* and ticks, no host frame moves the car without the authority it needs.
THEOREM BoardIsAuthorised == BoardSpec => []ActuationIsAuthorised
  BY BoardRefinesSafety, HostIsAuthorised, PTL DEF BoardImplementsSafety

----------------------------------------------------------------------------
(* The heartbeat.  CarModeNeedsHeartbeat is inductive together with the      *)
(* range of the counter.                                                    *)

HeartbeatIInv == heartbeat_counter \in 0..HEARTBEAT_CAP /\ CarModeNeedsHeartbeat

\* A tick in the car mode counts, whatever was asked of heartbeat_disabled before.
LEMMA TickCounts ==
  ASSUME HeartbeatIInv, tick_handler
  PROVE  HeartbeatIInv'
  <1>1. heartbeat_counter' \in 0..HEARTBEAT_CAP
    BY DEF HeartbeatIInv, tick_handler, Inc, HEARTBEAT_CAP, HEARTBEAT_IGNITION_CNT_ON
  <1>2. CASE ModeExpires
    <2>1. current_safety_mode' = "NOOUTPUT"
      BY <1>2 DEF tick_handler, set_safety_hooks
    <2>2. QED
      BY <1>1, <2>1 DEF HeartbeatIInv, CarModeNeedsHeartbeat
  <1>3. CASE ~ModeExpires /\ current_safety_mode # "MAZDA"
    <2>1. current_safety_mode' = current_safety_mode
      BY <1>3 DEF tick_handler, safety_tick, config
    <2>2. QED
      BY <1>1, <1>3, <2>1 DEF HeartbeatIInv, CarModeNeedsHeartbeat
  <1>4. CASE ~ModeExpires /\ current_safety_mode = "MAZDA"
    <2>1. ~HeartbeatExpired
      BY <1>4 DEF ModeExpires
    <2>2. heartbeat_counter' < HEARTBEAT_IGNITION_CNT_ON
      BY <1>1, <1>4, <2>1
         DEF tick_handler, HeartbeatExpired, DisabledNow, is_car_safety_mode,
             HeartbeatLimit, HEARTBEAT_CAP, HEARTBEAT_IGNITION_CNT_ON,
             HEARTBEAT_IGNITION_CNT_OFF
    <2>3. heartbeat_lost' = heartbeat_lost
      BY <2>1 DEF tick_handler
    <2>4. ~heartbeat_lost
      BY <1>4 DEF HeartbeatIInv, CarModeNeedsHeartbeat
    <2>5. QED
      BY <1>1, <2>2, <2>3, <2>4 DEF HeartbeatIInv, CarModeNeedsHeartbeat
  <1>5. QED
    BY <1>2, <1>3, <1>4

\* Every other step resets the counter, leaves the car mode, or touches neither.
LEMMA HeartbeatStep ==
  ASSUME HeartbeatIInv, [BoardNext]_boardVars
  PROVE  HeartbeatIInv'
  <1> USE DEF HeartbeatIInv, CarModeNeedsHeartbeat
  <1> DEFINE Same == UNCHANGED <<current_safety_mode, heartbeat_counter, heartbeat_lost>>
  <1>0. Same => HeartbeatIInv'
    OBVIOUS
  <1>1. CASE \E f \in RxFrames : can_rx(f)
    <2>1. PICK f \in RxFrames : can_rx(f)
      BY <1>1
    <2>2. PICK allowed : RxFrameSteps(f, allowed)
      BY <2>1, Zenon DEF can_rx, safety_rx_hook, RxEngineData, RxCrzCtrl, RxCrzBtns,
                         RxPedals, RxOther
    <2>3. current_safety_mode' = current_safety_mode
      BY <2>2 DEF RxFrameSteps, config
    <2>4. heartbeat_counter' = heartbeat_counter /\ heartbeat_lost' = heartbeat_lost
      BY <2>1 DEF can_rx, heartbeatVars
    <2>5. QED
      BY <1>0, <2>3, <2>4
  <1>2. CASE \E f \in HostFrames : can_send(f)
    BY <1>0, <1>2 DEF can_send, safety_tx_hook, config, heartbeatVars
  <1>3. ASSUME NEW mode \in SafetyModes \cup {"UNREGISTERED"}, NEW long \in BOOLEAN,
               set_safety_mode(mode, long)
        PROVE  HeartbeatIInv'
    <2>1. CASE mode = "MAZDA"
      <3>1. heartbeat_counter' = 0 /\ heartbeat_lost' = FALSE
        BY <1>3, <2>1 DEF set_safety_mode, is_car_safety_mode
      <3>2. QED
        BY <3>1 DEF HEARTBEAT_CAP, HEARTBEAT_IGNITION_CNT_ON
    <2>2. CASE mode # "MAZDA"
      <3>1. current_safety_mode' = IF mode \in SafetyModes THEN mode ELSE "SILENT"
        BY <1>3 DEF set_safety_mode, set_safety_hooks
      <3>2. heartbeat_counter' = heartbeat_counter
        BY <1>3, <2>2 DEF set_safety_mode, is_car_safety_mode
      <3>3. QED
        BY <2>2, <3>1, <3>2
    <2>3. QED
      BY <2>1, <2>2
  <1>4. ASSUME NEW engaged \in BOOLEAN, Heartbeat(engaged)
        PROVE  HeartbeatIInv'
    <2>1. heartbeat_counter' = 0 /\ heartbeat_lost' = FALSE
      BY <1>4 DEF Heartbeat
    <2>2. QED
      BY <2>1 DEF HEARTBEAT_CAP, HEARTBEAT_IGNITION_CNT_ON
  <1>5. CASE DisableHeartbeat
    BY <1>0, <1>5 DEF DisableHeartbeat, safetyVars, config
  <1>6. ASSUME NEW state \in BOOLEAN, SetPowerSave(state)
        PROVE  HeartbeatIInv'
    BY <1>0, <1>6 DEF SetPowerSave, safetyVars, config, heartbeatVars
  <1>7. CASE SystemReset
    <2>1. current_safety_mode' = "NOOUTPUT" /\ heartbeat_counter' = 0
      BY <1>7 DEF SystemReset, set_safety_hooks
    <2>2. QED
      BY <2>1 DEF HEARTBEAT_CAP, HEARTBEAT_IGNITION_CNT_ON
  <1>8. CASE HostDies
    BY <1>0, <1>8 DEF HostDies, safetyVars, config, heartbeatVars
  <1>9. CASE tick_handler
    BY <1>9, TickCounts
  <1>10. CASE UNCHANGED boardVars
    BY <1>0, <1>10 DEF boardVars, safetyVars, config, heartbeatVars
  <1>11. QED
    BY <1>1, <1>2, <1>3, <1>4, <1>5, <1>6, <1>7, <1>8, <1>9, <1>10, Zenon
       DEF BoardNext

\* The board is never in the car mode with an expired heartbeat, whatever the host
\* asked of heartbeat_disabled and whenever it set the mode (tick_handler,
\* set_safety_mode, 0xf3, 0xf8).
THEOREM CarModeHasHeartbeat == BoardSpec => []CarModeNeedsHeartbeat
  <1>1. BoardInit => HeartbeatIInv
    BY DEF BoardInit, SafetyInit, HeartbeatIInv, CarModeNeedsHeartbeat, HEARTBEAT_CAP,
           HEARTBEAT_IGNITION_CNT_ON
  <1>2. HeartbeatIInv /\ [BoardNext]_boardVars => HeartbeatIInv'
    BY HeartbeatStep
  <1>3. HeartbeatIInv => CarModeNeedsHeartbeat
    BY DEF HeartbeatIInv
  <1>4. QED
    BY <1>1, <1>2, <1>3, PTL DEF BoardSpec

----------------------------------------------------------------------------
(* The mismatch counter.  At its limit control has been withdrawn; in the    *)
(* stock build control rises only on an act of the driver, so the history    *)
(* counter never runs ahead of the firmware's, and with the stock radar the  *)
(* firmware's never ahead of the history.                                    *)

WithdrawnAtLimit ==
  heartbeat_engaged_mismatches = MAX_MISMATCHES => ~controls_allowed

HistoryIsCounted ==
  Build = "STOCK" => unused_ticks <= heartbeat_engaged_mismatches

ControlMeansCruise ==
  (Build = "STOCK" /\ ~mazda_longitudinal /\ controls_allowed) => cruise_engaged_prev

BoardIInv ==
  /\ BoardTypeOK
  /\ WithdrawnAtLimit
  /\ HistoryIsCounted
  /\ ControlMeansCruise
  /\ MismatchesSinceArmed

\* In the stock build a frame grants control only by an edge that the driver
\* caused, and with the stock radar control is lost on the frame that ends cruise.
LEMMA GrantIsAnEdge ==
  ASSUME SafetyTypeOK, SafetyTypeOK', Build = "STOCK", NEW f \in RxFrame,
         safety_rx_hook(f), ControlMeansCruise
  PROVE  /\ Rising => DriverActed
         /\ ControlMeansCruise'
         /\ (~mazda_longitudinal /\ controls_allowed /\ controls_allowed') => ~DriverActed
         /\ mazda_longitudinal' = mazda_longitudinal
         /\ current_safety_mode' = current_safety_mode
  <1> USE DEF Rising, DriverActed, ControlMeansCruise
  <1>1. CASE RxEngineData(f) \/ RxOther(f)
    <2>1. RxFrameSteps(f, controls_allowed) /\ UNCHANGED cruise
      BY <1>1, Zenon DEF RxEngineData, RxOther
    <2>2. /\ UNCHANGED <<current_safety_mode, mazda_longitudinal>>
          /\ controls_allowed' => controls_allowed
      BY <2>1, RxFrameStepsSafe
    <2>3. UNCHANGED <<cruise_engaged_prev, mazda_res_prev, mazda_set_m_prev>>
      BY <2>1 DEF cruise
    <2>4. QED
      BY <2>2, <2>3
  <1>2. CASE RxCrzCtrl(f)
    <2> DEFINE active == "active" \in f.bits
               allowed == CruiseGate("main" \in f.bits, active)
    <2>1. RxFrameSteps(f, allowed) /\ Checked(f) /\ f.addr = "CRZ_CTRL"
      BY <1>2, Zenon DEF RxCrzCtrl
    <2>2. allowed => active /\ (controls_allowed \/ ~cruise_engaged_prev)
      BY Zenon DEF CruiseGate
    <2>3. cruise_engaged_prev' <=> active
      BY <1>2, Zenon DEF RxCrzCtrl
    <2>4. UNCHANGED <<mazda_res_prev, mazda_set_m_prev>>
      BY <1>2, Zenon DEF RxCrzCtrl
    <2> HIDE DEF allowed, active
    <2>5. /\ UNCHANGED <<current_safety_mode, mazda_longitudinal>>
          /\ controls_allowed' => allowed
      BY <2>1, RxFrameStepsSafe
    <2>6. ~mazda_longitudinal
      BY <2>1, CheckedInMazda
    <2>7. cruise_engaged_prev \in BOOLEAN /\ cruise_engaged_prev' \in BOOLEAN
      BY DEF SafetyTypeOK
    <2>8. QED
      BY <2>2, <2>3, <2>4, <2>5, <2>6, <2>7
  <1>3. CASE RxCrzBtns(f)
    <2> DEFINE gate == ButtonGate("cancel" \in f.bits, "res" \in f.bits, "set_m" \in f.bits)
               allowed == IF mazda_longitudinal THEN gate ELSE controls_allowed
    <2>1. RxFrameSteps(f, allowed)
      BY <1>3, Zenon DEF RxCrzBtns
    <2>2. cruise_engaged_prev' = cruise_engaged_prev
      BY <1>3, Zenon DEF RxCrzBtns
    <2>3. ~mazda_longitudinal => UNCHANGED <<mazda_res_prev, mazda_set_m_prev>>
      BY <1>3, Zenon DEF RxCrzBtns
    <2>4. mazda_longitudinal /\ allowed /\ ~controls_allowed =>
            \/ mazda_res_prev' /\ ~mazda_res_prev
            \/ ~mazda_set_m_prev' /\ mazda_set_m_prev
      BY <1>3, Zenon DEF RxCrzBtns, ButtonGate
    <2>5. ~mazda_longitudinal => (allowed <=> controls_allowed)
      BY Zenon
    <2> HIDE DEF allowed, gate
    <2>6. /\ UNCHANGED <<current_safety_mode, mazda_longitudinal>>
          /\ controls_allowed' => allowed
      BY <2>1, RxFrameStepsSafe
    <2>7. QED
      BY <2>2, <2>3, <2>4, <2>5, <2>6
  <1>4. CASE RxPedals(f)
    <2>1. PICK armed : RxFrameSteps(f, controls_allowed /\ armed)
      BY <1>4, Zenon DEF RxPedals
    <2>2. /\ ~mazda_longitudinal => cruise_engaged_prev' = cruise_engaged_prev
          /\ UNCHANGED <<mazda_res_prev, mazda_set_m_prev>>
      BY <1>4, Zenon DEF RxPedals
    <2>3. /\ UNCHANGED <<current_safety_mode, mazda_longitudinal>>
          /\ controls_allowed' => controls_allowed
      BY <2>1, RxFrameStepsSafe
    <2>4. QED
      BY <2>2, <2>3
  <1>5. QED
    BY <1>1, <1>2, <1>3, <1>4 DEF safety_rx_hook

\* The bounds as numbers.
LEMMA Bounds ==
  /\ MAX_MISMATCHES = 3 /\ HISTORY_CAP = 4
  /\ HEARTBEAT_CAP = 5 /\ IGNITION_CAP = 3
  /\ 0 \in 0..MAX_MISMATCHES /\ 0 \in 0..HISTORY_CAP
  /\ 0 \in 0..HEARTBEAT_CAP /\ 0 \in 0..IGNITION_CAP
  BY DEF MAX_MISMATCHES, HISTORY_CAP, HEARTBEAT_CAP, HEARTBEAT_IGNITION_CNT_ON,
         IGNITION_CAP

\* A received frame: a rising grant starts the count over.
LEMMA RxKeepsCount ==
  ASSUME SafetyTypeOK, SafetyTypeOK', BoardIInv, NEW f \in RxFrame, can_rx(f)
  PROVE  BoardIInv'
  <1> USE DEF BoardIInv
  <1>0. /\ safety_rx_hook(f)
        /\ UNCHANGED <<heartbeat_counter, heartbeat_lost, heartbeat_disabled,
                       heartbeat_engaged, power_save_status, can2_irqs, host_alive>>
        /\ heartbeat_engaged_mismatches' =
             IF Rising THEN 0 ELSE heartbeat_engaged_mismatches
        /\ unused_ticks' = IF DriverActed THEN 0 ELSE unused_ticks
    BY DEF can_rx, heartbeatVars, powerVars, MismatchesAfterRx
  <1>1. BoardTypeOK'
    <2>1. ignition_can' \in BOOLEAN /\ ignition_can_cnt' \in 0..IGNITION_CAP
      <3>1. CASE f.addr = "ENGINE_DATA" /\ f.bus = 0
        <4>1. ignition_can' = ("running" \in f.bits) /\ ignition_can_cnt' = 0
          BY <3>1, Zenon DEF can_rx, ignition_can_hook
        <4>2. ignition_can' \in BOOLEAN
          BY <4>1, BitIsBoolean, Zenon
        <4>3. QED
          BY <4>1, <4>2, Bounds
      <3>2. CASE ~(f.addr = "ENGINE_DATA" /\ f.bus = 0)
        BY <3>2 DEF can_rx, ignition_can_hook, ignitionVars, BoardTypeOK
      <3>3. QED
        BY <3>1, <3>2
    <2>2. /\ heartbeat_engaged_mismatches' \in 0..MAX_MISMATCHES
          /\ unused_ticks' \in 0..HISTORY_CAP
      BY <1>0, Bounds DEF BoardTypeOK
    <2>3. QED
      BY <1>0, <2>1, <2>2 DEF BoardTypeOK
  <1>2. WithdrawnAtLimit'
    BY <1>0, Bounds DEF WithdrawnAtLimit, Rising
  <1>4. CASE Build = "STOCK"
    <2>1. /\ Rising => DriverActed
          /\ ControlMeansCruise'
          /\ (~mazda_longitudinal /\ controls_allowed /\ controls_allowed')
               => ~DriverActed
          /\ mazda_longitudinal' = mazda_longitudinal
      BY <1>0, <1>4, GrantIsAnEdge
    <2>2. /\ heartbeat_engaged_mismatches \in Nat /\ unused_ticks \in Nat
          /\ unused_ticks <= heartbeat_engaged_mismatches
      BY <1>4 DEF BoardTypeOK, HistoryIsCounted
    <2>3. HistoryIsCounted'
      BY <1>0, <2>1, <2>2 DEF HistoryIsCounted
    <2>4. MismatchesSinceArmed'
      <3> SUFFICES ASSUME ~mazda_longitudinal', controls_allowed'
                   PROVE  heartbeat_engaged_mismatches' <= unused_ticks'
        BY DEF MismatchesSinceArmed
      <3>1. CASE controls_allowed
        <4>1. ~DriverActed /\ ~Rising
          BY <2>1, <3>1 DEF Rising
        <4>2. heartbeat_engaged_mismatches <= unused_ticks
          BY <1>4, <2>1, <3>1 DEF MismatchesSinceArmed
        <4>3. QED
          BY <1>0, <4>1, <4>2
      <3>2. CASE ~controls_allowed
        <4>1. Rising
          BY <3>2 DEF Rising
        <4>2. QED
          BY <1>0, <2>1, <4>1
      <3>3. QED
        BY <3>1, <3>2
    <2>5. QED
      BY <1>1, <1>2, <2>1, <2>3, <2>4
  <1>5. CASE Build # "STOCK"
    BY <1>1, <1>2, <1>5
       DEF HistoryIsCounted, ControlMeansCruise, MismatchesSinceArmed
  <1>6. QED
    BY <1>4, <1>5

\* A step that takes control away, or leaves it and both counters alone.
LEMMA QuietKeepsCount ==
  ASSUME BoardIInv, BoardTypeOK',
         UNCHANGED <<heartbeat_engaged_mismatches, unused_ticks>>,
         \/ controls_allowed' = FALSE
         \/ UNCHANGED <<controls_allowed, mazda_longitudinal, cruise_engaged_prev>>
  PROVE  BoardIInv'
  BY DEF BoardIInv, WithdrawnAtLimit, HistoryIsCounted, ControlMeansCruise,
         MismatchesSinceArmed

\* The tick: both counters move together, and the third mismatch withdraws control.
LEMMA TickKeepsCount ==
  ASSUME SafetyTypeOK, SafetyTypeOK', BoardIInv, tick_handler
  PROVE  BoardIInv'
  <1> USE DEF BoardIInv
  <1>1. /\ heartbeat_engaged_mismatches' = Mismatches
        /\ unused_ticks' = IF Unused THEN Inc(unused_ticks, HISTORY_CAP) ELSE 0
        /\ heartbeat_counter' = Inc(heartbeat_counter, HEARTBEAT_CAP)
        /\ heartbeat_disabled' = DisabledNow
        /\ ignition_can' = (ignition_can /\ ignition_can_cnt <= 2)
        /\ ignition_can_cnt' = Inc(ignition_can_cnt, IGNITION_CAP)
        /\ host_alive' = host_alive
    BY DEF tick_handler
  <1>2. Unused => heartbeat_engaged_mismatches \in 0..2
    BY Bounds DEF Unused, BoardTypeOK, WithdrawnAtLimit
  <1>3. /\ heartbeat_engaged_mismatches' \in 0..MAX_MISMATCHES
        /\ unused_ticks' \in 0..HISTORY_CAP
    BY <1>1, <1>2, Bounds DEF Mismatches, Inc, BoardTypeOK
  <1>4. /\ controls_allowed' => controls_allowed /\ Mismatches < MAX_MISMATCHES
        /\ controls_allowed' => UNCHANGED <<mazda_longitudinal, cruise_engaged_prev,
                                            current_safety_mode>>
        /\ current_safety_mode' = "MAZDA" =>
             current_safety_mode = "MAZDA" /\ ~ModeExpires
    <2>1. CASE ModeExpires
      <3>1. controls_allowed' = FALSE /\ current_safety_mode' = "NOOUTPUT"
        BY <2>1 DEF tick_handler, set_safety_hooks
      <3>2. QED
        BY <3>1
    <2>2. CASE ~ModeExpires
      <3>1. safety_tick(StillUsed)
        BY <2>2 DEF tick_handler
      <3>2. controls_allowed' => StillUsed
        BY <3>1, Zenon DEF safety_tick
      <3>3. UNCHANGED <<config, cruise>>
        BY <3>1 DEF safety_tick
      <3>4. QED
        BY <2>2, <3>2, <3>3, Zenon DEF StillUsed, config, cruise
    <2>3. QED
      BY <2>1, <2>2
  <1>5. BoardTypeOK'
    <2>1. heartbeat_counter' \in 0..HEARTBEAT_CAP /\ ignition_can_cnt' \in 0..IGNITION_CAP
      BY <1>1, Bounds DEF Inc, BoardTypeOK
    <2>2. /\ heartbeat_disabled' \in BOOLEAN /\ ignition_can' \in BOOLEAN
          /\ host_alive' \in BOOLEAN
      BY <1>1, Zenon DEF DisabledNow, BoardTypeOK
    <2>3. /\ heartbeat_lost' \in BOOLEAN /\ heartbeat_engaged' \in BOOLEAN
          /\ power_save_status' \in BOOLEAN /\ can2_irqs' \in BOOLEAN
      <3>1. CASE HeartbeatExpired
        <4>1. /\ heartbeat_lost' = (heartbeat_lost \/ is_car_safety_mode(current_safety_mode))
              /\ heartbeat_engaged' = FALSE
              /\ \E irqs \in IF ModeExpires THEN llcan_init(can2_irqs) ELSE {can2_irqs} :
                   set_power_save_state(power_save_status \/ ~ignition_can, irqs)
          BY <3>1 DEF tick_handler
        <4>a. PICK irqs \in IF ModeExpires THEN llcan_init(can2_irqs) ELSE {can2_irqs} :
                set_power_save_state(power_save_status \/ ~ignition_can, irqs)
          BY <4>1
        <4>b. irqs \in BOOLEAN
          BY DEF llcan_init, BoardTypeOK
        <4>2. heartbeat_lost' \in BOOLEAN
          BY <4>1, Zenon DEF BoardTypeOK
        <4>3. power_save_status' \in BOOLEAN
          BY <4>a, Zenon DEF set_power_save_state
        <4>4. can2_irqs' \in BOOLEAN
          BY <4>a, <4>b, Zenon DEF set_power_save_state
        <4>5. QED
          BY <4>1, <4>2, <4>3, <4>4
      <3>2. CASE ~HeartbeatExpired
        BY <3>2 DEF tick_handler, powerVars, BoardTypeOK
      <3>3. QED
        BY <3>1, <3>2
    <2>4. QED
      BY <1>3, <2>1, <2>2, <2>3 DEF BoardTypeOK
  <1>6. WithdrawnAtLimit'
    BY <1>1, <1>4, Bounds DEF WithdrawnAtLimit
  <1>7. HistoryIsCounted'
    BY <1>1, <1>2, Bounds DEF HistoryIsCounted, Mismatches, Inc, BoardTypeOK
  <1>8. ControlMeansCruise'
    BY <1>4 DEF ControlMeansCruise
  <1>9. MismatchesSinceArmed'
    <2> SUFFICES ASSUME Build = "STOCK", ~mazda_longitudinal', controls_allowed'
                 PROVE  heartbeat_engaged_mismatches' <= unused_ticks'
      BY DEF MismatchesSinceArmed
    <2>1. heartbeat_engaged_mismatches <= unused_ticks
      BY <1>4 DEF MismatchesSinceArmed
    <2>2. QED
      BY <1>1, <1>2, <2>1, Bounds DEF Mismatches, Inc, BoardTypeOK
  <1>10. QED
    BY <1>5, <1>6, <1>7, <1>8, <1>9

\* Every step of the board keeps the counters' invariant.
LEMMA BoardIInvStep ==
  ASSUME SafetyTypeOK, BoardIInv, [BoardNext]_boardVars
  PROVE  BoardIInv'
  <1>0. SafetyTypeOK'
    BY BoardStep, SafetyTypeStep
  <1> DEFINE SameSafety == UNCHANGED <<controls_allowed, mazda_longitudinal,
                                       cruise_engaged_prev, current_safety_mode>>
  <1>a. UNCHANGED safetyVars => SameSafety
    BY DEF safetyVars, config, cruise
  <1>1. CASE \E f \in RxFrames : can_rx(f)
    BY <1>0, <1>1, RxKeepsCount, SafetyAssumption DEF SafetyAssumption
  <1>2. CASE \E f \in HostFrames : can_send(f)
    <2>1. PICK f \in HostFrames : can_send(f)
      BY <1>2
    <2>2. SameSafety
      BY <2>1 DEF can_send, safety_tx_hook, config, cruise
    <2>3. BoardTypeOK'
      BY <2>1, <2>2 DEF can_send, BoardIInv, BoardTypeOK,
                        heartbeatVars, ignitionVars, powerVars
    <2>4. QED
      BY <2>1, <2>2, <2>3, QuietKeepsCount DEF can_send
  <1>3. ASSUME NEW mode \in SafetyModes \cup {"UNREGISTERED"}, NEW long \in BOOLEAN,
               set_safety_mode(mode, long)
        PROVE  BoardIInv'
    <2>1. controls_allowed' = FALSE
      BY <1>3 DEF set_safety_mode, set_safety_hooks
    <2>2. heartbeat_counter' \in 0..HEARTBEAT_CAP /\ heartbeat_lost' \in BOOLEAN
      BY <1>3, Bounds DEF set_safety_mode, BoardIInv, BoardTypeOK
    <2>3. BoardTypeOK'
      BY <1>3, <2>2 DEF set_safety_mode, llcan_init, BoardIInv, BoardTypeOK,
                        ignitionVars
    <2>4. QED
      BY <1>3, <2>1, <2>3, QuietKeepsCount DEF set_safety_mode
  <1>4. ASSUME NEW engaged \in BOOLEAN, Heartbeat(engaged)
        PROVE  BoardIInv'
    <2>1. SameSafety
      BY <1>4, <1>a DEF Heartbeat
    <2>2. BoardTypeOK'
      BY <1>4, <2>1, Bounds DEF Heartbeat, BoardIInv, BoardTypeOK,
                                ignitionVars, powerVars
    <2>3. QED
      BY <1>4, <2>1, <2>2, QuietKeepsCount DEF Heartbeat
  <1>5. CASE DisableHeartbeat
    <2>1. SameSafety
      BY <1>5, <1>a DEF DisableHeartbeat
    <2>2. BoardTypeOK'
      BY <1>5, <2>1 DEF DisableHeartbeat, BoardIInv, BoardTypeOK,
                        ignitionVars, powerVars
    <2>3. QED
      BY <1>5, <2>1, <2>2, QuietKeepsCount DEF DisableHeartbeat
  <1>6. ASSUME NEW state \in BOOLEAN, SetPowerSave(state)
        PROVE  BoardIInv'
    <2>1. SameSafety
      BY <1>6, <1>a DEF SetPowerSave
    <2>2. BoardTypeOK'
      BY <1>6 DEF SetPowerSave, set_power_save_state, BoardIInv, BoardTypeOK,
                  heartbeatVars, ignitionVars
    <2>3. QED
      BY <1>6, <2>1, <2>2, QuietKeepsCount DEF SetPowerSave
  <1>7. CASE SystemReset
    <2>1. /\ controls_allowed' = FALSE /\ current_safety_mode' = "NOOUTPUT"
          /\ heartbeat_engaged_mismatches' = 0 /\ unused_ticks' = 0
      BY <1>7 DEF SystemReset, set_safety_hooks
    <2>2. BoardTypeOK'
      BY <1>7, <2>1, Bounds DEF SystemReset, llcan_init, BoardIInv, BoardTypeOK
    <2>3. QED
      BY <2>1, <2>2
         DEF BoardIInv, WithdrawnAtLimit, HistoryIsCounted, ControlMeansCruise,
             MismatchesSinceArmed
  <1>8. CASE HostDies
    <2>1. SameSafety
      BY <1>8, <1>a DEF HostDies
    <2>2. BoardTypeOK'
      BY <1>8, <2>1 DEF HostDies, BoardIInv, BoardTypeOK,
                        heartbeatVars, ignitionVars, powerVars
    <2>3. QED
      BY <1>8, <2>1, <2>2, QuietKeepsCount DEF HostDies
  <1>9. CASE tick_handler
    BY <1>0, <1>9, TickKeepsCount
  <1>10. CASE UNCHANGED boardVars
    <2>1. SameSafety
      BY <1>10, <1>a DEF boardVars
    <2>2. BoardTypeOK'
      BY <1>10, <2>1 DEF boardVars, BoardIInv, BoardTypeOK,
                         heartbeatVars, ignitionVars, powerVars
    <2>3. QED
      BY <1>10, <2>1, <2>2, QuietKeepsCount DEF boardVars
  <1>11. QED
    BY <1>1, <1>2, <1>3, <1>4, <1>5, <1>6, <1>7, <1>8, <1>9, <1>10, Zenon
       DEF BoardNext

LEMMA BoardInvariant == BoardSpec => []BoardIInv
  <1>1. BoardInit => BoardIInv
    <2> SUFFICES ASSUME BoardInit PROVE BoardIInv
      OBVIOUS
    <2>1. /\ ~controls_allowed /\ current_safety_mode = "NOOUTPUT"
          /\ unused_ticks = 0 /\ heartbeat_engaged_mismatches = 0
      BY DEF BoardInit, SafetyInit
    <2>2. BoardTypeOK
      BY Bounds DEF BoardInit, llcan_init, BoardTypeOK
    <2>3. QED
      BY <2>1, <2>2
         DEF BoardIInv, WithdrawnAtLimit, HistoryIsCounted, ControlMeansCruise,
             MismatchesSinceArmed
  <1>2. SafetyTypeOK /\ BoardIInv /\ [BoardNext]_boardVars => BoardIInv'
    BY BoardIInvStep
  <1>3. BoardSpec => []SafetyTypeOK
    BY BoardRefinesSafety, SafetyTypeCorrect, PTL DEF BoardImplementsSafety
  <1>4. QED
    BY <1>1, <1>2, <1>3, PTL DEF BoardSpec

\* The board's counters stay inside their ranges: the mismatch count does not pass
\* its limit although nothing in tick_handler caps it.
THEOREM BoardTypeCorrect == BoardSpec => []BoardTypeOK
  <1>1. BoardIInv => BoardTypeOK
    BY DEF BoardIInv
  <1>2. QED
    BY BoardInvariant, <1>1, PTL

\* A fresh grant of control has its full few seconds (safety_rx_hook's reset of
\* heartbeat_engaged_mismatches against tick_handler's count).
THEOREM GrantStartsCountOver == BoardSpec => []MismatchesSinceArmed
  <1>1. BoardIInv => MismatchesSinceArmed
    BY DEF BoardIInv
  <1>2. QED
    BY BoardInvariant, <1>1, PTL

\* Control that openpilot does not use is withdrawn by the third tick and stays
\* withdrawn until the driver acts (the mismatch check of tick_handler).
THEOREM UnusedControlIsWithdrawn == BoardSpec => []UnusedControlsExpire
  <1>1. BoardIInv => UnusedControlsExpire
    BY Bounds DEF BoardIInv, BoardTypeOK, HistoryIsCounted, UnusedControlsExpire
  <1>2. QED
    BY BoardInvariant, <1>1, PTL
=============================================================================
