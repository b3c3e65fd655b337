------------------------- MODULE MazdaSafety_proofs -------------------------
(***************************************************************************)
(* Theorems about MazdaSafety for every Build, every set of frames on the   *)
(* buses and every set of frames of the host.                               *)
(*                                                                         *)
(* The inductive invariant adds to the properties what they rest on: the    *)
(* *_prev copies agree with their originals between frames, a remembered    *)
(* button was a pressed button, and the idle modes hold no control.         *)
(***************************************************************************)
EXTENDS MazdaSafety, TLAPS

PrevsAgree ==
  /\ gas_pressed_prev = gas_pressed
  /\ brake_pressed_prev = brake_pressed

ButtonsRemembered == (mazda_res_prev \/ mazda_set_m_prev) => button_seen

IdleHoldsNoControl == current_safety_mode # "MAZDA" => ~controls_allowed

SafetyIInv ==
  /\ SafetyTypeOK
  /\ PrevsAgree
  /\ ButtonsRemembered
  /\ IdleHoldsNoControl
  /\ NoControlsBrakingInMotion
  /\ ArmedByButton
  /\ ActuationIsAuthorised

----------------------------------------------------------------------------
(* Type correctness.                                                        *)

\* A flag that is assigned a test on the bits of a frame is a Boolean.
LEMMA BitIsBoolean ==
  ASSUME NEW x, NEW S, NEW d, NEW e
  PROVE  /\ x = (d \in S) => x \in BOOLEAN
         /\ x = (d \in S \/ e \in S) => x \in BOOLEAN
  <1>1. ASSUME x = (d \in S) PROVE x \in BOOLEAN
    BY <1>1, SMT
  <1>2. ASSUME x = (d \in S \/ e \in S) PROVE x \in BOOLEAN
    BY <1>2, SMT
  <1>3. QED
    BY <1>1, <1>2

LEMMA SeenIsBoolean ==
  ASSUME NEW x, NEW S, NEW d, NEW e, NEW y \in BOOLEAN
  PROVE  x = (y \/ d \in S \/ e \in S) => x \in BOOLEAN
  BY SMT

\* NoFrame and what the forward hook returns are frames.
LEMMA ForwardType ==
  ASSUME SafetyTypeOK, NEW f \in RxFrame
  PROVE  /\ NoFrame \in OutFrame
         /\ OnCarBus(safety_fwd_hook(f)) \in OutFrame
         /\ ~Actuating(NoFrame)
         /\ ~Actuating(OnCarBus(safety_fwd_hook(f)))
  BY DEF OnCarBus, safety_fwd_hook, NoFrame, OutFrame, RxFrame, Addr, RxMsgs, Cmd, Bus,
         get_fwd_bus, MAZDA_MAIN, MAZDA_CAM, Actuating

\* What every received frame does, whatever the mode's hook left in allowed.
LEMMA RxFrameStepsType ==
  ASSUME SafetyTypeOK, NEW f \in RxFrame, NEW allowed \in BOOLEAN,
         RxFrameSteps(f, allowed),
         gas_pressed' \in BOOLEAN, brake_pressed' \in BOOLEAN,
         vehicle_moving' \in BOOLEAN
  PROVE  /\ current_safety_mode' \in SafetyModes
         /\ mazda_longitudinal' \in BOOLEAN
         /\ controls_allowed' \in BOOLEAN
         /\ relay_malfunction' \in BOOLEAN
         /\ gas_pressed_prev' \in BOOLEAN /\ brake_pressed_prev' \in BOOLEAN
         /\ safety_mode_cnt' \in 0..MODE_CNT_CAP
         /\ rx_lag' \in [RxMsgs -> 0..LagCap]
         /\ safety_rx_checks_invalid' \in BOOLEAN
         /\ out' \in OutFrame
  <1>1. rx_lag' \in [RxMsgs -> 0..LagCap]
    <2>1. 0 \in 0..LagCap
      BY SafetyAssumption DEF SafetyAssumption
    <2>2. rx_lag' = rx_lag \/ rx_lag' = [rx_lag EXCEPT ![f.addr] = 0]
      BY DEF RxFrameSteps
    <2>3. QED
      BY <2>1, <2>2 DEF SafetyTypeOK
  <1>2. out' \in OutFrame
    BY ForwardType DEF RxFrameSteps
  <1>3. QED
    BY <1>1, <1>2 DEF SafetyTypeOK, RxFrameSteps, generic_rx_checks,
                      stock_ecu_check, config

\* Initially and after a change of mode everything is reset.
LEMMA ResetType ==
  ASSUME NEW mode \in SafetyModes, NEW long \in BOOLEAN, NEW cnt \in {0, 1},
         set_safety_hooks(mode, long, cnt)
  PROVE  SafetyTypeOK'
  <1>1. NoFrame \in OutFrame
    BY DEF NoFrame, OutFrame, Addr, Cmd, Bus
  <1>2. [m \in RxMsgs |-> LagCap] \in [RxMsgs -> 0..LagCap]
    BY SafetyAssumption DEF SafetyAssumption
  <1>3. cnt \in 0..MODE_CNT_CAP
    BY DEF MODE_CNT_CAP, RELAY_TRNS_TIMEOUT
  <1>4. QED
    BY <1>1, <1>2, <1>3 DEF SafetyTypeOK, set_safety_hooks

\* Every step of the model keeps its type.
LEMMA SafetyTypeStep ==
  ASSUME SafetyTypeOK, [SafetyNext]_safetyVars
  PROVE  SafetyTypeOK'
  <1>1. CASE \E f \in RxFrames : safety_rx_hook(f)
    <2>1. PICK f \in RxFrame : safety_rx_hook(f)
      BY <1>1, SafetyAssumption DEF SafetyAssumption
    <2>2. CASE RxEngineData(f)
      BY <2>2, RxFrameStepsType DEF RxEngineData, SafetyTypeOK, cruise
    <2>3. CASE RxCrzCtrl(f)
      <3>1. CruiseGate("main" \in f.bits, "active" \in f.bits) \in BOOLEAN
        BY Zenon DEF CruiseGate, SafetyTypeOK
      <3>2. QED
        <4>1. acc_main_on' \in BOOLEAN /\ cruise_engaged_prev' \in BOOLEAN
          <5>1. /\ acc_main_on' = ("main" \in f.bits)
                /\ cruise_engaged_prev' = IF Build = "STOCK" THEN "active" \in f.bits
                                                             ELSE "main" \in f.bits
            BY <2>3, Zenon DEF RxCrzCtrl
          <5>2. QED
            BY <5>1, BitIsBoolean, Zenon
        <4>2. QED
          BY <2>3, <3>1, <4>1, RxFrameStepsType, Zenon DEF RxCrzCtrl, SafetyTypeOK
    <2>4. CASE RxCrzBtns(f)
      <3> DEFINE allowed == IF mazda_longitudinal
                            THEN ButtonGate("cancel" \in f.bits, "res" \in f.bits,
                                            "set_m" \in f.bits)
                            ELSE controls_allowed
      <3>1. allowed \in BOOLEAN
        BY Zenon DEF ButtonGate, SafetyTypeOK
      <3>2. RxFrameSteps(f, allowed)
        BY <2>4, Zenon DEF RxCrzBtns
      <3> HIDE DEF allowed
      <3>3. /\ mazda_res_prev' \in BOOLEAN /\ mazda_set_m_prev' \in BOOLEAN
            /\ button_seen' \in BOOLEAN
        <4>1. button_seen' = (button_seen \/ "res" \in f.bits \/ "set_m" \in f.bits)
          BY <2>4, Zenon DEF RxCrzBtns
        <4>2. \/ /\ mazda_res_prev' = ("res" \in f.bits)
                 /\ mazda_set_m_prev' = ("set_m" \in f.bits)
              \/ /\ mazda_res_prev' = mazda_res_prev
                 /\ mazda_set_m_prev' = mazda_set_m_prev
          BY <2>4, Zenon DEF RxCrzBtns
        <4>3. QED
          BY <4>1, <4>2, BitIsBoolean, SeenIsBoolean, Zenon DEF SafetyTypeOK
      <3>4. QED
        BY <2>4, <3>1, <3>2, <3>3, RxFrameStepsType, Zenon DEF RxCrzBtns, SafetyTypeOK
    <2>5. CASE RxPedals(f)
      <3> DEFINE armed == "acc_off" \in f.bits \/ "active" \in f.bits
                 allowed == controls_allowed /\ (mazda_longitudinal => armed)
      <3>1. RxFrameSteps(f, allowed) /\ allowed \in BOOLEAN
        BY <2>5, Zenon DEF RxPedals
      <3> HIDE DEF allowed
      <3>2. acc_main_on' \in BOOLEAN /\ cruise_engaged_prev' \in BOOLEAN
        <4>1. \/ acc_main_on' = armed /\ cruise_engaged_prev' = ("active" \in f.bits)
              \/ acc_main_on' = acc_main_on /\ cruise_engaged_prev' = cruise_engaged_prev
          BY <2>5, Zenon DEF RxPedals
        <4>2. QED
          BY <4>1, BitIsBoolean, Zenon DEF SafetyTypeOK
      <3>3. brake_pressed' \in BOOLEAN
        BY <2>5, SMT DEF RxPedals
      <3>4. QED
        BY <2>5, <3>1, <3>2, <3>3, RxFrameStepsType, Zenon DEF RxPedals, SafetyTypeOK
    <2>6. CASE RxOther(f)
      BY <2>6, RxFrameStepsType DEF RxOther, SafetyTypeOK, cruise
    <2>7. QED
      BY <2>1, <2>2, <2>3, <2>4, <2>5, <2>6 DEF safety_rx_hook
  <1>2. CASE \E f \in HostFrames : safety_tx_hook(f)
    <2>1. PICK f \in HostFrame : safety_tx_hook(f)
      BY <1>2, SafetyAssumption DEF SafetyAssumption
    <2>2. out' \in OutFrame
      BY <2>1 DEF safety_tx_hook, OnCarBus, HostFrame, OutFrame, NoFrame, Addr, Cmd, Bus
    <2>3. QED
      BY <2>1, <2>2 DEF safety_tx_hook, SafetyTypeOK, config, pedals, cruise, checks
  <1>3. CASE SetSafetyHooks
    BY <1>3, ResetType DEF SetSafetyHooks
  <1>4. CASE \E allowed \in {controls_allowed, FALSE} : safety_tick(allowed)
    <2>1. PICK allowed \in {controls_allowed, FALSE} : safety_tick(allowed)
      BY <1>4
    <2>2. rx_lag' \in [RxMsgs -> 0..LagCap]
      BY <2>1, SafetyAssumption DEF SafetyAssumption, safety_tick, SafetyTypeOK
    <2>3. safety_mode_cnt' \in 0..MODE_CNT_CAP
      BY <2>1 DEF safety_tick, SafetyTypeOK, MODE_CNT_CAP, RELAY_TRNS_TIMEOUT
    <2>4. NoFrame \in OutFrame
      BY DEF NoFrame, OutFrame, Addr, Cmd, Bus
    <2>5. QED
      BY <2>1, <2>2, <2>3, <2>4
         DEF safety_tick, SafetyTypeOK, Lagging, config, pedals, cruise
  <1>5. CASE UNCHANGED safetyVars
    BY <1>5 DEF safetyVars, SafetyTypeOK, config, pedals, cruise, checks
  <1>6. QED
    BY <1>1, <1>2, <1>3, <1>4, <1>5 DEF SafetyNext

\* The initial state has its type.
LEMMA SafetyTypeInit == SafetyInit => SafetyTypeOK
  <1>1. NoFrame \in OutFrame
    BY DEF NoFrame, OutFrame, Addr, Cmd, Bus
  <1>2. [m \in RxMsgs |-> LagCap] \in [RxMsgs -> 0..LagCap]
    BY SafetyAssumption DEF SafetyAssumption
  <1>3. 0 \in 0..MODE_CNT_CAP
    BY DEF MODE_CNT_CAP, RELAY_TRNS_TIMEOUT
  <1>4. QED
    BY <1>1, <1>2, <1>3 DEF SafetyInit, SafetyTypeOK, SafetyModes

\* Every reachable state of the safety model (safety.h with modes/mazda.h) has
\* its type: the counters stay inside their bounds and the frame of each step is
\* one the buses carry.
THEOREM SafetyTypeCorrect == SafetySpec => []SafetyTypeOK
  <1>1. SafetyTypeOK /\ [SafetyNext]_safetyVars => SafetyTypeOK'
    BY SafetyTypeStep
  <1>2. QED
    BY SafetyTypeInit, <1>1, PTL DEF SafetySpec

----------------------------------------------------------------------------
(* The safety invariant.                                                    *)

\* Only the Mazda mode checks frames, and alpha long does not read CRZ_CTRL.
LEMMA CheckedInMazda ==
  ASSUME NEW f, Checked(f)
  PROVE  /\ current_safety_mode = "MAZDA"
         /\ mazda_longitudinal => f.addr # "CRZ_CTRL"
  BY DEF Checked, rx_checks

\* What the end of safety_rx_hook does on every frame: the mode is kept, control
\* is at most what the mode's hook allowed and never left with the brake down in
\* motion, the *_prev copies are renewed, and nothing the host sent goes out.
LEMMA RxFrameStepsSafe ==
  ASSUME SafetyTypeOK, NEW f \in RxFrame, NEW allowed, RxFrameSteps(f, allowed)
  PROVE  /\ current_safety_mode' = current_safety_mode
         /\ mazda_longitudinal' = mazda_longitudinal
         /\ PrevsAgree'
         /\ controls_allowed' => allowed
         /\ NoControlsBrakingInMotion'
         /\ ActuationIsAuthorised'
  <1>1. controls_allowed' = (allowed /\ ~(brake_pressed' /\ (~brake_pressed_prev \/ vehicle_moving')))
    BY DEF RxFrameSteps, generic_rx_checks
  <1>2. /\ controls_allowed' => allowed
        /\ ~(controls_allowed' /\ brake_pressed' /\ vehicle_moving')
    BY <1>1
  <1>3. ~Actuating(out')
    BY ForwardType DEF RxFrameSteps
  <1>4. ActuationIsAuthorised'
    BY <1>3, Zenon DEF ActuationIsAuthorised, Actuating
  <1>5. PrevsAgree'
    BY DEF RxFrameSteps, generic_rx_checks, PrevsAgree
  <1>6. /\ current_safety_mode' = current_safety_mode
        /\ mazda_longitudinal' = mazda_longitudinal
    BY DEF RxFrameSteps, config
  <1>7. QED
    BY <1>2, <1>4, <1>5, <1>6, Zenon DEF NoControlsBrakingInMotion

\* A host frame that passes safety_tx_hook and moves the car is authorised.
LEMMA TxIsAuthorised ==
  ASSUME SafetyIInv, NEW f \in HostFrame, TxAllowed(f),
         Actuating([src |-> "host", addr |-> f.addr, bus |-> f.bus, cmd |-> f.cmd])
  PROVE  /\ current_safety_mode = "MAZDA" /\ controls_allowed /\ ~relay_malfunction
         /\ f.addr \in {"LKAS", "CRZ_INFO"} => f.cmd # "excess"
         /\ f.addr = "CRZ_INFO" =>
              /\ mazda_longitudinal /\ button_seen
              /\ ~gas_pressed /\ ~(brake_pressed /\ vehicle_moving)
  <1>1. ~relay_malfunction /\ tx_msg_safety_check(f) /\ mazda_tx_hook(f)
    BY DEF TxAllowed
  <1>2. current_safety_mode = "MAZDA"
    BY <1>1 DEF tx_msg_safety_check, tx_msgs
  <1>3. f.addr \in {"CRZ_INFO", "CRZ_CTRL"} => mazda_longitudinal
    BY <1>1, <1>2 DEF tx_msg_safety_check, tx_msgs, MAZDA_TX_MSGS, CanMsg
  <1>4. f.bus = MAZDA_MAIN
    BY DEF Actuating
  <1>5. controls_allowed
    BY <1>1, <1>3, <1>4
       DEF mazda_tx_hook, Actuating, get_longitudinal_allowed
  <1>6. mazda_longitudinal => ~(brake_pressed /\ vehicle_moving)
    BY <1>5 DEF SafetyIInv, NoControlsBrakingInMotion
  <1>7. f.addr \in {"LKAS", "CRZ_INFO"} => f.cmd # "excess"
    BY <1>1, <1>3, <1>4 DEF mazda_tx_hook, Actuating
  <1>8. f.addr = "CRZ_INFO" => (~gas_pressed /\ button_seen)
    BY <1>1, <1>2, <1>3, <1>4, <1>5
       DEF mazda_tx_hook, Actuating, get_longitudinal_allowed, SafetyIInv,
           PrevsAgree, ArmedByButton
  <1>9. QED
    BY <1>1, <1>2, <1>3, <1>5, <1>6, <1>7, <1>8

\* One received frame preserves the invariant, hook by hook.
LEMMA RxPreserves ==
  ASSUME SafetyIInv, SafetyTypeOK', NEW f \in RxFrame, safety_rx_hook(f)
  PROVE  SafetyIInv'
  <1> USE DEF SafetyIInv
  <1>1. CASE RxEngineData(f)
    <2>1. RxFrameSteps(f, controls_allowed) /\ UNCHANGED cruise
      BY <1>1, Zenon DEF RxEngineData
    <2>2. UNCHANGED <<mazda_res_prev, mazda_set_m_prev, button_seen>>
      BY <2>1 DEF cruise
    <2>3. /\ UNCHANGED <<current_safety_mode, mazda_longitudinal>>
          /\ controls_allowed' => controls_allowed
          /\ PrevsAgree' /\ NoControlsBrakingInMotion' /\ ActuationIsAuthorised'
      BY <2>1, RxFrameStepsSafe
    <2>4. QED
      BY <2>2, <2>3, Zenon DEF ButtonsRemembered, IdleHoldsNoControl, ArmedByButton
  <1>2. CASE RxCrzCtrl(f)
    <2>1. /\ \E allowed : RxFrameSteps(f, allowed)
          /\ Checked(f) /\ f.addr = "CRZ_CTRL"
          /\ UNCHANGED <<mazda_res_prev, mazda_set_m_prev, button_seen>>
      BY <1>2, Zenon DEF RxCrzCtrl
    <2>2. current_safety_mode = "MAZDA" /\ ~mazda_longitudinal
      BY <2>1, CheckedInMazda, Zenon
    <2>3. QED
      BY <2>1, <2>2, RxFrameStepsSafe, Zenon
         DEF ButtonsRemembered, IdleHoldsNoControl, ArmedByButton
  <1>3. CASE RxCrzBtns(f)
    <2> DEFINE allowed == IF mazda_longitudinal
                          THEN ButtonGate("cancel" \in f.bits, "res" \in f.bits,
                                          "set_m" \in f.bits)
                          ELSE controls_allowed
    <2>1. RxFrameSteps(f, allowed)
      BY <1>3, Zenon DEF RxCrzBtns
    <2>2. current_safety_mode = "MAZDA"
      BY <1>3, CheckedInMazda, Zenon DEF RxCrzBtns
    <2>3. button_seen' = (button_seen \/ "res" \in f.bits \/ "set_m" \in f.bits)
      BY <1>3, Zenon DEF RxCrzBtns
    <2>4. button_seen' <=> (button_seen \/ "res" \in f.bits \/ "set_m" \in f.bits)
      BY <2>3, Zenon
    <2>5. ButtonsRemembered'
      <3>1. CASE mazda_longitudinal
        <4>1. /\ mazda_res_prev' = ("res" \in f.bits)
              /\ mazda_set_m_prev' = ("set_m" \in f.bits)
          BY <1>3, <3>1, Zenon DEF RxCrzBtns
        <4>2. QED
          BY <4>1, <2>4, Zenon DEF ButtonsRemembered
      <3>2. CASE ~mazda_longitudinal
        BY <1>3, <3>2, <2>4, Zenon DEF RxCrzBtns, ButtonsRemembered
      <3>3. QED
        BY <3>1, <3>2
    <2>6. mazda_longitudinal /\ allowed => button_seen'
      BY <2>2, <2>4, Zenon DEF ButtonGate, ButtonsRemembered, ArmedByButton
    <2> HIDE DEF allowed
    <2>7. /\ UNCHANGED <<current_safety_mode, mazda_longitudinal>>
          /\ controls_allowed' => allowed
          /\ PrevsAgree' /\ NoControlsBrakingInMotion' /\ ActuationIsAuthorised'
      BY <2>1, RxFrameStepsSafe
    <2>8. QED
      BY <2>2, <2>5, <2>6, <2>7, Zenon DEF IdleHoldsNoControl, ArmedByButton
  <1>4. CASE RxPedals(f)
    <2>1. /\ \E allowed : RxFrameSteps(f, controls_allowed /\ allowed)
          /\ Checked(f)
          /\ UNCHANGED <<mazda_res_prev, mazda_set_m_prev, button_seen>>
      BY <1>4, Zenon DEF RxPedals
    <2>2. PICK allowed : RxFrameSteps(f, controls_allowed /\ allowed)
      BY <2>1
    <2>3. QED
      BY <2>1, <2>2, CheckedInMazda, RxFrameStepsSafe, Zenon
         DEF ButtonsRemembered, IdleHoldsNoControl, ArmedByButton
  <1>5. CASE RxOther(f)
    <2>1. RxFrameSteps(f, controls_allowed) /\ UNCHANGED cruise
      BY <1>5, Zenon DEF RxOther
    <2>2. UNCHANGED <<mazda_res_prev, mazda_set_m_prev, button_seen>>
      BY <2>1 DEF cruise
    <2>3. /\ UNCHANGED <<current_safety_mode, mazda_longitudinal>>
          /\ controls_allowed' => controls_allowed
          /\ PrevsAgree' /\ NoControlsBrakingInMotion' /\ ActuationIsAuthorised'
      BY <2>1, RxFrameStepsSafe
    <2>4. QED
      BY <2>2, <2>3, Zenon DEF ButtonsRemembered, IdleHoldsNoControl, ArmedByButton
  <1>6. QED
    BY <1>1, <1>2, <1>3, <1>4, <1>5 DEF safety_rx_hook

\* A host frame changes nothing but the frame that goes out.
LEMMA TxPreserves ==
  ASSUME SafetyIInv, SafetyTypeOK', NEW f \in HostFrame, safety_tx_hook(f)
  PROVE  SafetyIInv'
  <1> USE DEF SafetyIInv
  <1>1. UNCHANGED <<current_safety_mode, mazda_longitudinal, controls_allowed,
                    relay_malfunction, gas_pressed, gas_pressed_prev, brake_pressed,
                    brake_pressed_prev, vehicle_moving, mazda_res_prev,
                    mazda_set_m_prev, button_seen>>
    BY DEF safety_tx_hook, config, pedals, cruise
  <1>2. ActuationIsAuthorised'
    <2>1. CASE TxAllowed(f)
      <3> DEFINE o == [src |-> "host", addr |-> f.addr, bus |-> f.bus, cmd |-> f.cmd]
      <3>1. out' = o \/ out' = NoFrame
        BY <2>1 DEF safety_tx_hook, OnCarBus
      <3>2. Actuating(out') =>
              /\ current_safety_mode = "MAZDA" /\ controls_allowed /\ ~relay_malfunction
              /\ out'.addr \in {"LKAS", "CRZ_INFO"} => out'.cmd # "excess"
              /\ out'.addr = "CRZ_INFO" =>
                   /\ mazda_longitudinal /\ button_seen
                   /\ ~gas_pressed /\ ~(brake_pressed /\ vehicle_moving)
        <4>1. CASE out' = o
          BY <2>1, <4>1, TxIsAuthorised
        <4>2. CASE out' = NoFrame
          BY <4>2 DEF NoFrame, Actuating
        <4>3. QED
          BY <3>1, <4>1, <4>2
      <3>3. QED
        BY <1>1, <3>2, Zenon DEF ActuationIsAuthorised, Actuating
    <2>2. CASE ~TxAllowed(f)
      <3>1. ~Actuating(out')
        BY <2>2 DEF safety_tx_hook, NoFrame, Actuating
      <3>2. QED
        BY <3>1, Zenon DEF ActuationIsAuthorised, Actuating
    <2>3. QED
      BY <2>1, <2>2
  <1>3. QED
    BY <1>1, <1>2, Zenon
       DEF PrevsAgree, ButtonsRemembered, IdleHoldsNoControl,
           NoControlsBrakingInMotion, ArmedByButton

\* The invariant holds in a state that a change of mode has just reset.
LEMMA ResetPreserves ==
  ASSUME SafetyTypeOK', NEW mode, NEW long, NEW cnt, set_safety_hooks(mode, long, cnt)
  PROVE  SafetyIInv'
  <1>1. ~Actuating(out')
    BY DEF set_safety_hooks, NoFrame, Actuating
  <1>2. QED
    BY <1>1, Zenon
       DEF set_safety_hooks, SafetyIInv, PrevsAgree, ButtonsRemembered,
           IdleHoldsNoControl, NoControlsBrakingInMotion, ArmedByButton,
           ActuationIsAuthorised, Actuating

\* The 1 Hz check can only take control away.
LEMMA TickPreserves ==
  ASSUME SafetyIInv, SafetyTypeOK', NEW allowed \in {controls_allowed, FALSE},
         safety_tick(allowed)
  PROVE  SafetyIInv'
  <1> USE DEF SafetyIInv
  <1>1. controls_allowed' => controls_allowed
    BY Zenon DEF safety_tick
  <1>2. ~Actuating(out')
    BY DEF safety_tick, NoFrame, Actuating
  <1>3. UNCHANGED <<config, pedals, cruise>>
    BY DEF safety_tick
  <1>4. QED
    BY <1>1, <1>2, <1>3, Zenon
       DEF config, pedals, cruise, PrevsAgree, ButtonsRemembered, IdleHoldsNoControl,
           NoControlsBrakingInMotion, ArmedByButton, ActuationIsAuthorised, Actuating

\* Every step of the model preserves the invariant.
LEMMA SafetyStep ==
  ASSUME SafetyIInv, [SafetyNext]_safetyVars
  PROVE  SafetyIInv'
  <1>0. SafetyTypeOK'
    BY SafetyTypeStep DEF SafetyIInv
  <1>1. CASE \E f \in RxFrames : safety_rx_hook(f)
    BY <1>0, <1>1, SafetyAssumption, RxPreserves DEF SafetyAssumption
  <1>2. CASE \E f \in HostFrames : safety_tx_hook(f)
    BY <1>0, <1>2, SafetyAssumption, TxPreserves DEF SafetyAssumption
  <1>3. CASE SetSafetyHooks
    BY <1>0, <1>3, ResetPreserves DEF SetSafetyHooks
  <1>4. CASE \E allowed \in {controls_allowed, FALSE} : safety_tick(allowed)
    BY <1>0, <1>4, TickPreserves
  <1>5. CASE UNCHANGED safetyVars
    BY <1>0, <1>5, Zenon
       DEF safetyVars, config, pedals, cruise, SafetyIInv, PrevsAgree, ButtonsRemembered,
           IdleHoldsNoControl, NoControlsBrakingInMotion, ArmedByButton,
           ActuationIsAuthorised, Actuating
  <1>6. QED
    BY <1>1, <1>2, <1>3, <1>4, <1>5 DEF SafetyNext

\* The initial state satisfies the invariant.
LEMMA SafetyIInvInit == SafetyInit => SafetyIInv
  <1> SUFFICES ASSUME SafetyInit PROVE SafetyIInv
    OBVIOUS
  <1>1. ~Actuating(out)
    BY DEF SafetyInit, NoFrame, Actuating
  <1>2. QED
    BY <1>1, SafetyTypeInit, Zenon
       DEF SafetyInit, SafetyIInv, PrevsAgree, ButtonsRemembered, IdleHoldsNoControl,
           NoControlsBrakingInMotion, ArmedByButton, ActuationIsAuthorised

\* The invariant holds in every reachable state.
LEMMA SafetyInvariant == SafetySpec => []SafetyIInv
  <1>1. SafetyIInv /\ [SafetyNext]_safetyVars => SafetyIInv'
    BY SafetyStep
  <1>2. QED
    BY SafetyIInvInit, <1>1, PTL DEF SafetySpec

\* For every order of frames, generic_rx_checks leaves no control with the brake
\* down in a moving car: under alpha long in every build, and with the stock radar
\* in the builds without MAZDA_MADS_BRAKE.
THEOREM BrakeEndsControl == SafetySpec => []NoControlsBrakingInMotion
  <1>1. SafetyIInv => NoControlsBrakingInMotion
    BY DEF SafetyIInv
  <1>2. QED
    BY SafetyInvariant, <1>1, PTL

\* Under alpha long control is only ever held after a RES or SET press in this
\* session of the mode (mazda_rx_hook, mazda_init).
THEOREM ControlIsArmedByButton == SafetySpec => []ArmedByButton
  <1>1. SafetyIInv => ArmedByButton
    BY DEF SafetyIInv
  <1>2. QED
    BY SafetyInvariant, <1>1, PTL

\* Whatever the host sends, no frame that moves the car passes safety_tx_hook
\* without the authority the Mazda mode requires for it.
THEOREM HostIsAuthorised == SafetySpec => []ActuationIsAuthorised
  <1>1. SafetyIInv => ActuationIsAuthorised
    BY DEF SafetyIInv
  <1>2. QED
    BY SafetyInvariant, <1>1, PTL

\* A latched relay malfunction silences the board until the mode is set again
\* (safety_tx_hook, safety_fwd_hook, stock_ecu_check).
THEOREM RelayMalfunctionIsFinal == SafetySpec => RelayMalfunctionLatches
  <1> DEFINE Latched == relay_malfunction =>
               \/ relay_malfunction' /\ out' = NoFrame
               \/ /\ ~controls_allowed' /\ safety_mode_cnt' <= 1
                  /\ rx_lag' = [m \in RxMsgs |-> LagCap]
  <1>1. SafetyNext => Latched
    <2> SUFFICES ASSUME SafetyNext, relay_malfunction PROVE Latched
      OBVIOUS
    <2>1. ASSUME NEW f, NEW allowed, RxFrameSteps(f, allowed)
          PROVE  relay_malfunction' /\ out' = NoFrame
      <3>1. out' = NoFrame
        BY <2>1 DEF RxFrameSteps, OnCarBus, safety_fwd_hook, FwdBlocked
      <3>2. relay_malfunction'
        BY <2>1, Zenon DEF RxFrameSteps, stock_ecu_check
      <3>3. QED
        BY <3>1, <3>2
    <2>2. ASSUME NEW f, safety_rx_hook(f)
          PROVE  \E allowed : RxFrameSteps(f, allowed)
      BY <2>2, Zenon
         DEF safety_rx_hook, RxEngineData, RxCrzCtrl, RxCrzBtns, RxPedals, RxOther
    <2>3. CASE \E f \in RxFrames : safety_rx_hook(f)
      BY <2>1, <2>2, <2>3, Zenon
    <2>4. CASE \E f \in HostFrames : safety_tx_hook(f)
      BY <2>4 DEF safety_tx_hook, TxAllowed
    <2>5. CASE SetSafetyHooks
      BY <2>5 DEF SetSafetyHooks, set_safety_hooks
    <2>6. CASE \E allowed \in {controls_allowed, FALSE} : safety_tick(allowed)
      BY <2>6 DEF safety_tick
    <2>7. QED
      BY <2>3, <2>4, <2>5, <2>6 DEF SafetyNext
  <1>2. [SafetyNext]_safetyVars => [Latched]_safetyVars
    BY <1>1
  <1>3. QED
    BY <1>2, PTL DEF SafetySpec, RelayMalfunctionLatches

----------------------------------------------------------------------------
(* The software relay: what goes out on a bus, and what the idle mode passes *)
(* on.  Beside the frame of the step, only the mode and the latch matter.    *)

RelayIInv ==
  /\ OneSteeringSource
  /\ current_safety_mode = "NOOUTPUT" => ~relay_malfunction

\* A received frame runs the steps that are common to every frame.
LEMMA RxIsFrameSteps ==
  ASSUME NEW f, safety_rx_hook(f)
  PROVE  \E allowed : RxFrameSteps(f, allowed)
  BY Zenon DEF safety_rx_hook, RxEngineData, RxCrzCtrl, RxCrzBtns, RxPedals, RxOther

\* The LKAS frame of the camera is blocked on its way to the car in the Mazda mode.
LEMMA CameraLkasBlocked ==
  ASSUME NEW f, current_safety_mode = "MAZDA", f.addr = "LKAS",
         get_fwd_bus(f.bus) = MAZDA_MAIN
  PROVE  safety_fwd_hook(f) = NoFrame
  <1> DEFINE m == CanMsg("LKAS", 0, TRUE, FALSE)
  <1>1. m \in tx_msgs
    BY DEF tx_msgs, MAZDA_LONG_TX_MSGS, MAZDA_TX_MSGS
  <1>2. /\ m.check_relay /\ ~m.disable_static_blocking
        /\ m.addr = f.addr /\ m.bus = get_fwd_bus(f.bus)
    BY DEF CanMsg, MAZDA_MAIN
  <1>3. FwdBlocked(f)
    BY <1>1, <1>2, Zenon DEF FwdBlocked
  <1>4. QED
    BY <1>3 DEF safety_fwd_hook

\* Every step keeps both: the idle mode has no table that could latch the relay,
\* and every change of mode clears the latch.
LEMMA RelayStep ==
  ASSUME RelayIInv, [SafetyNext]_safetyVars
  PROVE  RelayIInv'
  <1> USE DEF RelayIInv
  <1>1. CASE \E f \in RxFrames : safety_rx_hook(f)
    <2>1. PICK f \in RxFrames : safety_rx_hook(f)
      BY <1>1
    <2>2. PICK allowed : RxFrameSteps(f, allowed)
      BY <2>1, RxIsFrameSteps
    <2>3. /\ current_safety_mode' = current_safety_mode
          /\ out' = safety_fwd_hook(f) \/ out' = NoFrame
      BY <2>2 DEF RxFrameSteps, OnCarBus, config
    <2>4. OneSteeringSource'
      <3>1. CASE out' = NoFrame
        BY <2>3, <3>1 DEF OneSteeringSource, NoFrame
      <3>2. CASE out' # NoFrame
        <4>1. out' = [src |-> "fwd", addr |-> f.addr, bus |-> get_fwd_bus(f.bus),
                      cmd |-> "any"]
          BY <2>3, <3>2 DEF safety_fwd_hook
        <4>2. out'.addr = f.addr /\ out'.bus = get_fwd_bus(f.bus)
          BY <4>1
        <4>3. QED
          BY <2>3, <3>2, <4>2, CameraLkasBlocked, Zenon DEF OneSteeringSource
      <3>3. QED
        BY <3>1, <3>2
    <2>5. current_safety_mode = "NOOUTPUT" => ~relay_malfunction'
      <3> SUFFICES ASSUME current_safety_mode = "NOOUTPUT" PROVE ~relay_malfunction'
        OBVIOUS
      <3>1. tx_msgs = {}
        BY DEF tx_msgs
      <3>2. QED
        BY <2>2, <3>1, Zenon DEF RxFrameSteps, stock_ecu_check
    <2>6. QED
      BY <2>3, <2>4, <2>5
  <1>2. CASE \E f \in HostFrames : safety_tx_hook(f)
    <2>1. PICK f \in HostFrames : safety_tx_hook(f)
      BY <1>2
    <2>2. current_safety_mode' = current_safety_mode
          /\ relay_malfunction' = relay_malfunction
      BY <2>1 DEF safety_tx_hook, config
    <2>3. out'.addr = "OTHER" \/ out'.src = "host"
      BY <2>1 DEF safety_tx_hook, OnCarBus, NoFrame
    <2>4. QED
      BY <2>2, <2>3 DEF OneSteeringSource
  <1>3. CASE SetSafetyHooks
    BY <1>3 DEF SetSafetyHooks, set_safety_hooks, OneSteeringSource, NoFrame
  <1>4. CASE \E allowed \in {controls_allowed, FALSE} : safety_tick(allowed)
    BY <1>4 DEF safety_tick, config, OneSteeringSource, NoFrame
  <1>5. CASE UNCHANGED safetyVars
    BY <1>5 DEF safetyVars, config, OneSteeringSource
  <1>6. QED
    BY <1>1, <1>2, <1>3, <1>4, <1>5 DEF SafetyNext

LEMMA RelayInvariant == SafetySpec => []RelayIInv
  <1>1. SafetyInit => RelayIInv
    BY DEF SafetyInit, RelayIInv, OneSteeringSource
  <1>2. RelayIInv /\ [SafetyNext]_safetyVars => RelayIInv'
    BY RelayStep
  <1>3. QED
    BY <1>1, <1>2, PTL DEF SafetySpec

\* In the Mazda mode every LKAS frame on the car's bus is the host's, whatever the
\* camera sends (safety_fwd_hook).
THEOREM SteeringHasOneSource == SafetySpec => []OneSteeringSource
  <1>1. RelayIInv => OneSteeringSource
    BY DEF RelayIInv
  <1>2. QED
    BY RelayInvariant, <1>1, PTL

\* The idle mode connects the car and the camera, whatever was latched before it
\* (nooutput_init, set_safety_hooks, safety_fwd_hook).
THEOREM IdleBoardForwards == SafetySpec => []IdleModeForwards
  <1>1. RelayIInv => IdleModeForwards
    <2> SUFFICES ASSUME RelayIInv, current_safety_mode = "NOOUTPUT",
                        NEW f \in RxFrames, get_fwd_bus(f.bus) # -1
                 PROVE  safety_fwd_hook(f).src = "fwd"
      BY DEF IdleModeForwards
    <2>1. ~relay_malfunction /\ tx_msgs = {}
      BY DEF RelayIInv, tx_msgs
    <2>2. ~FwdBlocked(f)
      BY <2>1, Zenon DEF FwdBlocked
    <2>3. QED
      BY <2>2 DEF safety_fwd_hook
  <1>2. QED
    BY RelayInvariant, <1>1, PTL
=============================================================================
