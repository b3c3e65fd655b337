---------------------------- MODULE MazdaSafety ----------------------------
(***************************************************************************)
(* The panda safety model as this port builds it: the hooks of             *)
(* car/opendbc/safety/safety.h around the Mazda mode of modes/mazda.h and  *)
(* the idle modes of modes/defaults.h (PANDA_NUCLEO tables).               *)
(*                                                                         *)
(* A received frame is an address, a bus and the set of its payload bits   *)
(* that the hooks look at; a frame the host wants to send is an address, a *)
(* bus and the kind of command it carries.  One received frame is one step *)
(* because can_rx runs the forward hook and then safety_rx_hook on it in a *)
(* single interrupt, and no interrupt of this firmware preempts another.   *)
(***************************************************************************)
EXTENDS Integers

CONSTANTS
  Build,       (* "STOCK", "MADS" or "MADS_BRAKE": the compile-time gate    *)
  RxFrames,    (* the frames that the car and the camera may put on a bus   *)
  HostFrames,  (* the frames that the host may ask the panda to send        *)
  LagCap       (* seconds of silence of a message are counted up to LagCap  *)

Bus  == 0..2
MAZDA_MAIN == 0
MAZDA_CAM  == 2

RxMsgs == {"CRZ_CTRL", "CRZ_BTNS", "STEER_TORQUE", "ENGINE_DATA", "PEDALS"}
Addr == RxMsgs \cup
        {"LKAS", "LKAS_HUD", "CRZ_INFO", "RADAR_UDS", "RADAR_SHADOW", "OTHER"}

\* The payload bits of the received frames that some hook reads.
Bit == {"moving", "gas", "running", "main", "active",
        "cancel", "res", "set_m", "brake", "acc_off"}

RxFrame == [addr : Addr, bus : Bus, bits : SUBSET Bit]

\* What a frame of the host commands.  "limited" is a non-zero torque inside
\* the limits of lateral.h and "excess" a command outside its limits.
Cmd == {"zero", "limited", "command", "excess", "idle", "active", "inactive",
        "tester_present", "session", "cancel", "data", "any"}

HostFrame == [addr : Addr, bus : Bus, cmd : Cmd]

ASSUME SafetyAssumption ==
  /\ Build \in {"STOCK", "MADS", "MADS_BRAKE"}
  /\ RxFrames \subseteq RxFrame
  /\ HostFrames \subseteq HostFrame
  /\ LagCap \in Nat \ {0}

VARIABLES
  current_safety_mode,
  mazda_longitudinal,
  controls_allowed,
  relay_malfunction,
  gas_pressed, gas_pressed_prev,
  brake_pressed, brake_pressed_prev,
  vehicle_moving,
  cruise_engaged_prev,
  acc_main_on,
  mazda_res_prev, mazda_set_m_prev,
  safety_mode_cnt,            (* whole seconds in this mode, as far as it matters *)
  rx_lag,                     (* 1 Hz ticks since each checked message was seen   *)
  safety_rx_checks_invalid,
  out,                        (* the frame this step put on the car's bus         *)
  button_seen                 (* history: a RES or SET press reached the panda    *)
                              (* since the mode was set                           *)

pedals  == <<gas_pressed, gas_pressed_prev, brake_pressed, brake_pressed_prev,
             vehicle_moving>>
cruise  == <<cruise_engaged_prev, acc_main_on, mazda_res_prev, mazda_set_m_prev,
             button_seen>>
config  == <<current_safety_mode, mazda_longitudinal>>
checks  == <<safety_mode_cnt, rx_lag, safety_rx_checks_invalid>>
safetyVars == <<config, controls_allowed, relay_malfunction, pedals, cruise,
                checks, out>>

----------------------------------------------------------------------------
(* The tables of mazda_init and nooutput_init.                             *)

SafetyModes == {"SILENT", "NOOUTPUT", "MAZDA"}

CanMsg(addr, bus, relay, unblocked) ==
  [addr |-> addr, bus |-> bus, check_relay |-> relay,
   disable_static_blocking |-> unblocked]

MAZDA_TX_MSGS ==
  {CanMsg("LKAS", 0, TRUE, FALSE),
   CanMsg("CRZ_BTNS", 0, FALSE, FALSE),
   CanMsg("LKAS_HUD", 0, TRUE, TRUE)}

\* The seven shadow frames of the radar are one address here: they have the
\* same entries and no hook looks inside them.
MAZDA_LONG_TX_MSGS ==
  MAZDA_TX_MSGS \cup
  {CanMsg("RADAR_UDS", 0, FALSE, FALSE)} \cup
  {CanMsg(a, b, FALSE, FALSE) :
     a \in {"CRZ_INFO", "CRZ_CTRL", "RADAR_SHADOW"}, b \in {MAZDA_MAIN, MAZDA_CAM}}

tx_msgs ==
  {m \in MAZDA_LONG_TX_MSGS : /\ current_safety_mode = "MAZDA"
                              /\ mazda_longitudinal \/ m \in MAZDA_TX_MSGS}

rx_checks ==
  {m \in RxMsgs : /\ current_safety_mode = "MAZDA"
                  /\ ~(mazda_longitudinal /\ m = "CRZ_CTRL")}

----------------------------------------------------------------------------
(* Forwarding between the car (bus 0) and the camera (bus 2).              *)

NoFrame == [src |-> "none", addr |-> "OTHER", bus |-> 0, cmd |-> "any"]

get_fwd_bus(bus) ==
  CASE bus = MAZDA_MAIN -> MAZDA_CAM
    [] bus = MAZDA_CAM  -> MAZDA_MAIN
    [] OTHER            -> -1

\* Mutant of FwdBlocked: the table is searched with the source bus.
FwdBlocked_SourceBus(f) ==
  \/ relay_malfunction
  \/ \E m \in tx_msgs : /\ m.check_relay
                        /\ ~m.disable_static_blocking
                        /\ m.addr = f.addr
                        /\ m.bus = f.bus

FwdBlocked(f) ==
  \/ relay_malfunction
  \/ \E m \in tx_msgs : /\ m.check_relay
                        /\ ~m.disable_static_blocking
                        /\ m.addr = f.addr
                        /\ m.bus = get_fwd_bus(f.bus)

\* Every property about sent frames is about the car's bus: out keeps those.
OnCarBus(o) == IF o.bus = MAZDA_MAIN THEN o ELSE NoFrame

\* In SILENT the controllers are in bus-monitoring mode and drive nothing.
safety_fwd_hook(f) ==
  IF \/ FwdBlocked(f)
     \/ get_fwd_bus(f.bus) = -1
     \/ current_safety_mode = "SILENT"
  THEN NoFrame
  ELSE [src |-> "fwd", addr |-> f.addr, bus |-> get_fwd_bus(f.bus), cmd |-> "any"]

----------------------------------------------------------------------------
(* safety_rx_hook: the mode's own hook runs on a frame of the rx table, and *)
(* the generic checks and the relay check run on every frame.               *)

RELAY_TRNS_TIMEOUT == 1

\* rx_msg_safety_check: every Mazda entry ignores checksum, counter and
\* quality flag, so a frame of the table is always valid.
Checked(f) == f.addr \in rx_checks /\ f.bus = MAZDA_MAIN

\* Mutant of generic_rx_checks: only the edge of the brake ends control.
generic_rx_checks_EdgeOnly(allowed) ==
  /\ gas_pressed_prev' = gas_pressed'
  /\ brake_pressed_prev' = brake_pressed'
  /\ controls_allowed' = (allowed /\ ~(brake_pressed' /\ ~brake_pressed_prev))

generic_rx_checks(allowed) ==
  /\ gas_pressed_prev' = gas_pressed'
  /\ brake_pressed_prev' = brake_pressed'
  /\ controls_allowed' =
       (allowed /\ ~(brake_pressed' /\ (~brake_pressed_prev \/ vehicle_moving')))

\* Mutant of stock_ecu_check: the frame is looked up on the bus it is forwarded to.
stock_ecu_check_FarBus(f) ==
  relay_malfunction' =
    (relay_malfunction \/
       /\ safety_mode_cnt > RELAY_TRNS_TIMEOUT
       /\ \E m \in tx_msgs : /\ m.check_relay /\ m.addr = f.addr
                             /\ m.bus = get_fwd_bus(f.bus))

stock_ecu_check(f) ==
  relay_malfunction' =
    (relay_malfunction \/
       /\ safety_mode_cnt > RELAY_TRNS_TIMEOUT
       /\ \E m \in tx_msgs : m.check_relay /\ m.addr = f.addr /\ m.bus = f.bus)

\* The part of can_rx that is common to every frame; allowed is the value that
\* the mode's hook leaves in controls_allowed.
RxFrameSteps(f, allowed) ==
  /\ out' = OnCarBus(safety_fwd_hook(f))
  /\ generic_rx_checks(allowed)
  /\ stock_ecu_check(f)
  /\ rx_lag' = IF Checked(f) THEN [rx_lag EXCEPT ![f.addr] = 0] ELSE rx_lag
  /\ UNCHANGED <<config, safety_mode_cnt, safety_rx_checks_invalid>>

----------------------------------------------------------------------------
(* mazda_rx_hook, one action per address.                                   *)

RxEngineData(f) ==
  /\ f.addr = "ENGINE_DATA" /\ Checked(f)
  /\ vehicle_moving' = ("moving" \in f.bits)
  /\ gas_pressed' = ("gas" \in f.bits)
  /\ UNCHANGED <<brake_pressed, cruise>>
  /\ RxFrameSteps(f, controls_allowed)

\* The gate of the CRZ_CTRL branch: the compile-time choice of this port.
CruiseGate(main, active) ==
  \/ Build = "MADS_BRAKE" /\ main
  \/ Build = "MADS"  /\ main /\ ~brake_pressed
  \/ Build = "STOCK" /\ active /\ (controls_allowed \/ ~cruise_engaged_prev)

RxCrzCtrl(f) ==
  LET main   == "main" \in f.bits
      active == "active" \in f.bits
  IN  /\ f.addr = "CRZ_CTRL" /\ Checked(f)
      /\ cruise_engaged_prev' = IF Build = "STOCK" THEN active ELSE main
      /\ acc_main_on' = main
      /\ UNCHANGED <<brake_pressed, vehicle_moving, gas_pressed, mazda_res_prev,
                     mazda_set_m_prev, button_seen>>
      /\ RxFrameSteps(f, CruiseGate(main, active))

\* Mutant of ButtonGate: SET arms on its level and not on its release.
ButtonGate_SetLevel(cancel, res, set_m) ==
  /\ ~cancel
  /\ controls_allowed \/ (res /\ ~mazda_res_prev) \/ ~set_m

\* RES arms on press and SET on release; a cancel in the same frame wins.
ButtonGate(cancel, res, set_m) ==
  /\ ~cancel
  /\ controls_allowed \/ (res /\ ~mazda_res_prev) \/ (~set_m /\ mazda_set_m_prev)

RxCrzBtns(f) ==
  LET res   == "res" \in f.bits
      set_m == "set_m" \in f.bits
  IN  /\ f.addr = "CRZ_BTNS" /\ Checked(f)
      /\ IF mazda_longitudinal
         THEN /\ mazda_res_prev' = res
              /\ mazda_set_m_prev' = set_m
         ELSE UNCHANGED <<mazda_res_prev, mazda_set_m_prev>>
      /\ button_seen' = (button_seen \/ res \/ set_m)
      /\ UNCHANGED <<brake_pressed, vehicle_moving, gas_pressed,
                     cruise_engaged_prev, acc_main_on>>
      /\ RxFrameSteps(f, IF mazda_longitudinal
                         THEN ButtonGate("cancel" \in f.bits, res, set_m)
                         ELSE controls_allowed)

RxPedals(f) ==
  LET active == "active" \in f.bits
      armed  == "acc_off" \in f.bits \/ active
  IN  /\ f.addr = "PEDALS" /\ Checked(f)
      /\ brake_pressed' = ("brake" \in f.bits)
      /\ IF mazda_longitudinal
         THEN acc_main_on' = armed /\ cruise_engaged_prev' = active
         ELSE UNCHANGED <<acc_main_on, cruise_engaged_prev>>
      /\ UNCHANGED <<vehicle_moving, gas_pressed, mazda_res_prev,
                     mazda_set_m_prev, button_seen>>
      /\ RxFrameSteps(f, controls_allowed /\ (mazda_longitudinal => armed))

\* Every other frame: STEER_TORQUE (its samples live in SteerTorque), frames
\* of a bus or address outside the rx table, and every frame of the idle modes.
RxOther(f) ==
  /\ f.addr = "STEER_TORQUE" \/ ~Checked(f)
  /\ UNCHANGED <<brake_pressed, vehicle_moving, gas_pressed, cruise>>
  /\ RxFrameSteps(f, controls_allowed)

safety_rx_hook(f) ==
  RxEngineData(f) \/ RxCrzCtrl(f) \/ RxCrzBtns(f) \/ RxPedals(f) \/ RxOther(f)

----------------------------------------------------------------------------
(* safety_tx_hook.                                                          *)

\* Mutant of get_longitudinal_allowed: the accelerator does not override.
get_longitudinal_allowed_NoGas == controls_allowed

get_longitudinal_allowed == controls_allowed /\ ~gas_pressed_prev

\* Only bus 0 is looked at.  The torque limits themselves are in SteerTorque.
mazda_tx_hook(f) ==
  f.bus = MAZDA_MAIN =>
    /\ f.addr = "LKAS" =>
         f.cmd = "zero" \/ (controls_allowed /\ f.cmd = "limited")
    /\ (mazda_longitudinal /\ f.addr = "CRZ_INFO") =>
         f.cmd = "idle" \/ (get_longitudinal_allowed /\ f.cmd = "command")
    /\ (mazda_longitudinal /\ f.addr = "CRZ_CTRL") =>
         controls_allowed \/ f.cmd # "active"
    /\ (mazda_longitudinal /\ f.addr = "RADAR_UDS") =>
         f.cmd \in {"tester_present", "session"}
    /\ f.addr = "CRZ_BTNS" =>
         controls_allowed \/ f.cmd = "cancel"

tx_msg_safety_check(f) ==
  \E m \in tx_msgs : m.addr = f.addr /\ m.bus = f.bus

TxAllowed(f) == ~relay_malfunction /\ tx_msg_safety_check(f) /\ mazda_tx_hook(f)

safety_tx_hook(f) ==
  /\ out' = IF TxAllowed(f)
            THEN OnCarBus([src |-> "host", addr |-> f.addr, bus |-> f.bus, cmd |-> f.cmd])
            ELSE NoFrame
  /\ UNCHANGED <<config, controls_allowed, relay_malfunction, pedals, cruise, checks>>

----------------------------------------------------------------------------
(* set_safety_hooks and the 1 Hz check.                                     *)

MODE_CNT_CAP == RELAY_TRNS_TIMEOUT + 1

\* Everything is reset; cnt is 0, or 1 when the tick that changed the mode also
\* counts its own second.  The statics of mazda.h are only written by mazda_init,
\* and only read in the Mazda mode: in the other modes they are given their
\* initial value here.
set_safety_hooks(mode, long, cnt) ==
  /\ current_safety_mode' = mode
  /\ mazda_longitudinal' = (mode = "MAZDA" /\ long)
  /\ controls_allowed' = FALSE
  /\ relay_malfunction' = FALSE
  /\ gas_pressed' = FALSE /\ gas_pressed_prev' = FALSE
  /\ brake_pressed' = FALSE /\ brake_pressed_prev' = FALSE
  /\ vehicle_moving' = FALSE
  /\ cruise_engaged_prev' = FALSE
  /\ acc_main_on' = FALSE
  /\ mazda_res_prev' = FALSE /\ mazda_set_m_prev' = FALSE
  /\ button_seen' = FALSE
  /\ safety_mode_cnt' = cnt
  /\ rx_lag' = [m \in RxMsgs |-> LagCap]
  /\ safety_rx_checks_invalid' = FALSE
  /\ out' = NoFrame

Lagging == \E m \in rx_checks : rx_lag[m] >= 1

\* The second that the tick counts, then safety_tick; allowed is what the rest
\* of the tick leaves in controls_allowed.
safety_tick(allowed) ==
  /\ controls_allowed' = (allowed /\ ~Lagging)
  /\ safety_rx_checks_invalid' = Lagging
  /\ rx_lag' = [m \in RxMsgs |-> IF rx_lag[m] < LagCap THEN rx_lag[m] + 1 ELSE LagCap]
  /\ safety_mode_cnt' =
       IF safety_mode_cnt < MODE_CNT_CAP THEN safety_mode_cnt + 1 ELSE MODE_CNT_CAP
  /\ out' = NoFrame
  /\ UNCHANGED <<config, relay_malfunction, pedals, cruise>>

----------------------------------------------------------------------------
SafetyInit ==
  /\ current_safety_mode = "NOOUTPUT" /\ mazda_longitudinal = FALSE
  /\ controls_allowed = FALSE /\ relay_malfunction = FALSE
  /\ gas_pressed = FALSE /\ gas_pressed_prev = FALSE
  /\ brake_pressed = FALSE /\ brake_pressed_prev = FALSE
  /\ vehicle_moving = FALSE
  /\ cruise_engaged_prev = FALSE /\ acc_main_on = FALSE
  /\ mazda_res_prev = FALSE /\ mazda_set_m_prev = FALSE
  /\ safety_mode_cnt = 0
  /\ rx_lag = [m \in RxMsgs |-> LagCap]
  /\ safety_rx_checks_invalid = FALSE
  /\ out = NoFrame
  /\ button_seen = FALSE

SetSafetyHooks ==
  \E mode \in SafetyModes, long \in BOOLEAN, cnt \in {0, 1} :
    set_safety_hooks(mode, long, cnt)

SafetyNext ==
  \/ \E f \in RxFrames : safety_rx_hook(f)
  \/ \E f \in HostFrames : safety_tx_hook(f)
  \/ SetSafetyHooks
  \/ \E allowed \in {controls_allowed, FALSE} : safety_tick(allowed)

SafetySpec == SafetyInit /\ [][SafetyNext]_safetyVars

----------------------------------------------------------------------------
(* Properties.                                                              *)

OutFrame == [src : {"none", "host", "fwd"}, addr : Addr, bus : Bus, cmd : Cmd]

\* The type of the state of the safety model.
SafetyTypeOK ==
  /\ current_safety_mode \in SafetyModes
  /\ mazda_longitudinal \in BOOLEAN
  /\ controls_allowed \in BOOLEAN
  /\ relay_malfunction \in BOOLEAN
  /\ gas_pressed \in BOOLEAN /\ gas_pressed_prev \in BOOLEAN
  /\ brake_pressed \in BOOLEAN /\ brake_pressed_prev \in BOOLEAN
  /\ vehicle_moving \in BOOLEAN
  /\ cruise_engaged_prev \in BOOLEAN /\ acc_main_on \in BOOLEAN
  /\ mazda_res_prev \in BOOLEAN /\ mazda_set_m_prev \in BOOLEAN
  /\ safety_mode_cnt \in 0..MODE_CNT_CAP
  /\ rx_lag \in [RxMsgs -> 0..LagCap]
  /\ safety_rx_checks_invalid \in BOOLEAN
  /\ out \in OutFrame
  /\ button_seen \in BOOLEAN

\* Whatever the order of wheel-speed, pedal, cruise and button frames, control is
\* never left allowed while the brake is down in a moving car, where the port means
\* it to end: under alpha long in every build, and in the builds without
\* MAZDA_MADS_BRAKE.  generic_rx_checks runs after the mode's own hook on each
\* frame, so a button or cruise frame of the same braking cannot grant it again.
NoControlsBrakingInMotion ==
  (mazda_longitudinal \/ Build # "MADS_BRAKE") =>
    ~(controls_allowed /\ brake_pressed /\ vehicle_moving)

\* What the MADS_BRAKE branch says of itself: "BRAKE NO LONGER DROPS LATERAL"
\* (mazda.h 137), "the panda passes steering torque while the brake is down,
\* whenever cruise MAIN is on" (147).  With MAIN on, the frame that reports the
\* brake does not take the control that was there.
LateralSurvivesBrake ==
  [][(/\ Build = "MADS_BRAKE" /\ ~mazda_longitudinal
      /\ acc_main_on /\ controls_allowed
      /\ ~brake_pressed /\ brake_pressed') => controls_allowed']_safetyVars

\* Under alpha long, controls_allowed means that the driver pressed RES or SET
\* since the mode was set: the button history of an earlier session never reads
\* as an edge in this one (mazda_init clears it).
ArmedByButton ==
  (current_safety_mode = "MAZDA" /\ mazda_longitudinal /\ controls_allowed)
    => button_seen

\* A frame of the host that moves the car: torque, acceleration, an active
\* cruise flag, or a cruise button other than cancel, on the car's bus.
Actuating(o) ==
  /\ o.src = "host" /\ o.bus = MAZDA_MAIN
  /\ \/ o.addr = "LKAS" /\ o.cmd # "zero"
     \/ o.addr = "CRZ_INFO" /\ o.cmd # "idle"
     \/ o.addr = "CRZ_CTRL" /\ o.cmd = "active"
     \/ o.addr = "CRZ_BTNS" /\ o.cmd # "cancel"

\* No host frame that moves the car gets past safety_tx_hook unless the Mazda
\* mode has granted control and no relay malfunction is latched; acceleration
\* never passes with the accelerator down, with the brake down in motion, or
\* before the driver has pressed a button in this session.
ActuationIsAuthorised ==
  Actuating(out) =>
    /\ current_safety_mode = "MAZDA" /\ controls_allowed /\ ~relay_malfunction
    /\ out.addr \in {"LKAS", "CRZ_INFO"} => out.cmd # "excess"
    /\ out.addr = "CRZ_INFO" =>
         /\ mazda_longitudinal /\ button_seen
         /\ ~gas_pressed /\ ~(brake_pressed /\ vehicle_moving)

\* The car has one source of steering: in the Mazda mode no frame of the camera
\* with the LKAS address is forwarded to the car's bus, so every LKAS frame put
\* there is the host's.
OneSteeringSource ==
  (current_safety_mode = "MAZDA" /\ out.addr = "LKAS" /\ out.bus = MAZDA_MAIN)
    => out.src = "host"

\* The software relay is closed in the idle mode: NOOUTPUT forwards every frame
\* of the car to the camera and back, whatever an earlier Mazda session latched.
IdleModeForwards ==
  current_safety_mode = "NOOUTPUT" =>
    \A f \in RxFrames :
      get_fwd_bus(f.bus) # -1 => safety_fwd_hook(f).src = "fwd"

\* A relay malfunction is final for the mode: from the frame that latches it on,
\* nothing is sent or forwarded to the car's bus and it is only left by setting the
\* mode again, which takes control away.
RelayMalfunctionLatches ==
  [][relay_malfunction =>
       \/ relay_malfunction' /\ out' = NoFrame
       \/ /\ ~controls_allowed' /\ safety_mode_cnt' <= 1
          /\ rx_lag' = [m \in RxMsgs |-> LagCap]]_safetyVars

=============================================================================
