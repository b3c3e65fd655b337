---------------------------- MODULE PandaBoard -----------------------------
(***************************************************************************)
(* The board around the safety model: set_safety_mode, the 1 Hz part of    *)
(* tick_handler and boot of firmware/board/main.c, the requests of         *)
(* comms_control_handler (main_comms.h) that touch its state, and the      *)
(* ignition hook of drivers/can_common.h, in the PANDA_NUCLEO build.       *)
(*                                                                         *)
(* The supervisor tick is the only thing that ages anything, so the model  *)
(* says whether its timer is clocked: TIM9 is on the boards of             *)
(* stm32f4/peripherals.h and is not in the peripherals_init of the F446    *)
(* and F407 ports.                                                         *)
(***************************************************************************)
EXTENDS MazdaSafety

CONSTANTS
  TickClocked,
  Requests     (* the control requests that the host makes                   *)

ASSUME BoardAssumption ==
  /\ TickClocked \in BOOLEAN
  /\ Requests \subseteq {"0xdc", "0xf3", "0xf8", "0xe7", "0xd8"}

VARIABLES
  heartbeat_counter, heartbeat_lost, heartbeat_disabled, heartbeat_engaged,
  heartbeat_engaged_mismatches,
  ignition_can, ignition_can_cnt,
  power_save_status,
  can2_irqs,      (* the interrupts of the camera's controller are enabled   *)
  host_alive,     (* environment: the host process still drives the link     *)
  unused_ticks    (* history: ticks in a row with control allowed and unused *)
                  (* since the driver last switched cruise or moved a button *)

heartbeatVars == <<heartbeat_counter, heartbeat_lost, heartbeat_disabled,
                   heartbeat_engaged>>
ignitionVars  == <<ignition_can, ignition_can_cnt>>
powerVars     == <<power_save_status, can2_irqs>>
boardVars == <<safetyVars, heartbeatVars, heartbeat_engaged_mismatches,
               ignitionVars, powerVars, host_alive, unused_ticks>>

HEARTBEAT_IGNITION_CNT_ON  == 5
HEARTBEAT_IGNITION_CNT_OFF == 2
MAX_MISMATCHES == 3

\* Bounds of the counters: heartbeat_counter and ignition_can_cnt are only
\* compared with smaller numbers, the history counter likewise.
HEARTBEAT_CAP == HEARTBEAT_IGNITION_CNT_ON
IGNITION_CAP  == 3
HISTORY_CAP   == MAX_MISMATCHES + 1

Inc(n, cap) == IF n < cap THEN n + 1 ELSE cap

is_car_safety_mode(mode) == mode = "MAZDA"

----------------------------------------------------------------------------
(* One frame from a bus: can_rx, whose tail is the ignition hook.           *)

ignition_can_hook(f) ==
  IF f.addr = "ENGINE_DATA" /\ f.bus = 0
  THEN ignition_can' = ("running" \in f.bits) /\ ignition_can_cnt' = 0
  ELSE UNCHANGED ignitionVars

Rising == controls_allowed' /\ ~controls_allowed

MismatchesAfterRx == IF Rising THEN 0 ELSE heartbeat_engaged_mismatches

DriverActed == \/ cruise_engaged_prev' # cruise_engaged_prev
               \/ mazda_res_prev' # mazda_res_prev
               \/ mazda_set_m_prev' # mazda_set_m_prev

\* A frame of the camera is only read while its controller interrupts.
can_rx(f) ==
  /\ f.bus = MAZDA_CAM => can2_irqs
  /\ safety_rx_hook(f)
  /\ heartbeat_engaged_mismatches' = MismatchesAfterRx
  /\ ignition_can_hook(f)
  /\ unused_ticks' = IF DriverActed THEN 0 ELSE unused_ticks
  /\ UNCHANGED <<heartbeatVars, powerVars, host_alive>>

----------------------------------------------------------------------------
(* Requests of the host.                                                    *)

can_send(f) ==
  /\ host_alive
  /\ safety_tx_hook(f)
  /\ UNCHANGED <<heartbeatVars, heartbeat_engaged_mismatches, ignitionVars,
                 powerVars, host_alive, unused_ticks>>

\* llcan_init enables the interrupts of a controller, in power save too, unless it
\* times out on a controller that stays in initialisation: then they stay as they
\* were.
llcan_init(irqs) == {TRUE, irqs}

\* 0xdc.  A mode that no registry entry has falls back to SILENT; can_init_all
\* initialises every controller.
set_safety_mode(mode, long) ==
  /\ host_alive /\ "0xdc" \in Requests
  /\ set_safety_hooks(IF mode \in SafetyModes THEN mode ELSE "SILENT", long, 0)
  /\ IF is_car_safety_mode(mode)
     THEN heartbeat_counter' = 0 /\ heartbeat_lost' = FALSE
     ELSE UNCHANGED <<heartbeat_counter, heartbeat_lost>>
  /\ can2_irqs' \in llcan_init(can2_irqs)
  /\ UNCHANGED <<heartbeat_disabled, heartbeat_engaged,
                 heartbeat_engaged_mismatches, ignitionVars, power_save_status,
                 host_alive, unused_ticks>>

\* 0xf3
Heartbeat(engaged) ==
  /\ host_alive /\ "0xf3" \in Requests
  /\ heartbeat_counter' = 0
  /\ heartbeat_lost' = FALSE
  /\ heartbeat_disabled' = FALSE
  /\ heartbeat_engaged' = engaged
  /\ UNCHANGED <<safetyVars, heartbeat_engaged_mismatches, ignitionVars,
                 powerVars, host_alive, unused_ticks>>

\* 0xf8
DisableHeartbeat ==
  /\ host_alive /\ "0xf8" \in Requests
  /\ ~is_car_safety_mode(current_safety_mode)
  /\ heartbeat_disabled' = TRUE
  /\ UNCHANGED <<safetyVars, heartbeat_counter, heartbeat_lost, heartbeat_engaged,
                 heartbeat_engaged_mismatches, ignitionVars, powerVars,
                 host_alive, unused_ticks>>

\* The flag decides whether anything is done, not the interrupts themselves.
set_power_save_state(state, irqs) ==
  /\ power_save_status' = state
  /\ can2_irqs' = IF state = power_save_status THEN irqs ELSE ~state

\* 0xe7
SetPowerSave(state) ==
  /\ host_alive /\ "0xe7" \in Requests
  /\ set_power_save_state(state, can2_irqs)
  /\ UNCHANGED <<safetyVars, heartbeatVars, heartbeat_engaged_mismatches,
                 ignitionVars, host_alive, unused_ticks>>

\* 0xd8: the boot path sets NOOUTPUT and every other static starts over.
SystemReset ==
  /\ host_alive /\ "0xd8" \in Requests
  /\ set_safety_hooks("NOOUTPUT", FALSE, 0)
  /\ heartbeat_counter' = 0 /\ heartbeat_lost' = FALSE
  /\ heartbeat_disabled' = FALSE /\ heartbeat_engaged' = FALSE
  /\ heartbeat_engaged_mismatches' = 0
  /\ ignition_can' = FALSE /\ ignition_can_cnt' = 0
  /\ power_save_status' = FALSE /\ can2_irqs' \in llcan_init(FALSE)
  /\ unused_ticks' = 0
  /\ UNCHANGED host_alive

\* The host process dies or the link goes away: nothing more is requested.
HostDies ==
  /\ host_alive
  /\ host_alive' = FALSE
  /\ UNCHANGED <<safetyVars, heartbeatVars, heartbeat_engaged_mismatches,
                 ignitionVars, powerVars, unused_ticks>>

----------------------------------------------------------------------------
(* The 1 Hz part of tick_handler.                                           *)

Unused == controls_allowed /\ ~heartbeat_engaged

Mismatches == IF Unused THEN heartbeat_engaged_mismatches + 1 ELSE 0

\* Mutant of StillUsed: an off-by-one in the comparison.
StillUsed_OffByOne == controls_allowed /\ Mismatches <= MAX_MISMATCHES

\* controls_allowed after the mismatch check.
StillUsed == controls_allowed /\ Mismatches < MAX_MISMATCHES

\* Mutant of DisabledNow: the car mode does not withdraw the request.
DisabledNow_Kept == heartbeat_disabled

\* heartbeat_disabled after it has been withdrawn in a car mode.
DisabledNow == heartbeat_disabled /\ ~is_car_safety_mode(current_safety_mode)

HeartbeatLimit ==
  IF ignition_can THEN HEARTBEAT_IGNITION_CNT_ON ELSE HEARTBEAT_IGNITION_CNT_OFF

HeartbeatExpired ==
  ~DisabledNow /\ Inc(heartbeat_counter, HEARTBEAT_CAP) >= HeartbeatLimit

\* Mutant of ModeExpires: the mode is only left when the host was engaged.
ModeExpires_EngagedOnly ==
  HeartbeatExpired /\ current_safety_mode # "NOOUTPUT" /\ heartbeat_engaged

ModeExpires == HeartbeatExpired /\ current_safety_mode # "NOOUTPUT"

tick_handler ==
  /\ TickClocked
  /\ heartbeat_counter' = Inc(heartbeat_counter, HEARTBEAT_CAP)
  /\ heartbeat_disabled' = DisabledNow
  /\ heartbeat_engaged_mismatches' = Mismatches
  /\ IF HeartbeatExpired
     THEN /\ heartbeat_lost' =
               (heartbeat_lost \/ is_car_safety_mode(current_safety_mode))
          /\ heartbeat_engaged' = FALSE
          /\ \E irqs \in IF ModeExpires THEN llcan_init(can2_irqs) ELSE {can2_irqs} :
               set_power_save_state(power_save_status \/ ~ignition_can, irqs)
     ELSE UNCHANGED <<heartbeat_lost, heartbeat_engaged, powerVars>>
  /\ IF ModeExpires
     THEN set_safety_hooks("NOOUTPUT", FALSE, 1)
     ELSE safety_tick(StillUsed)
  /\ ignition_can' = (ignition_can /\ ignition_can_cnt <= 2)
  /\ ignition_can_cnt' = Inc(ignition_can_cnt, IGNITION_CAP)
  /\ unused_ticks' = IF Unused THEN Inc(unused_ticks, HISTORY_CAP) ELSE 0
  /\ UNCHANGED host_alive

----------------------------------------------------------------------------
BoardInit ==
  /\ SafetyInit
  /\ heartbeat_counter = 0 /\ heartbeat_lost = FALSE
  /\ heartbeat_disabled = FALSE /\ heartbeat_engaged = FALSE
  /\ heartbeat_engaged_mismatches = 0
  /\ ignition_can = FALSE /\ ignition_can_cnt = 0
  /\ power_save_status = FALSE /\ can2_irqs \in llcan_init(FALSE)
  /\ host_alive = TRUE
  /\ unused_ticks = 0

BoardNext ==
  \/ \E f \in RxFrames : can_rx(f)
  \/ \E f \in HostFrames : can_send(f)
  \/ \E mode \in SafetyModes \cup {"UNREGISTERED"}, long \in BOOLEAN :
       set_safety_mode(mode, long)
  \/ \E engaged \in BOOLEAN : Heartbeat(engaged)
  \/ DisableHeartbeat
  \/ \E state \in BOOLEAN : SetPowerSave(state)
  \/ SystemReset
  \/ HostDies
  \/ tick_handler

BoardSpec == BoardInit /\ [][BoardNext]_boardVars

\* The tick is a timer interrupt: if its timer is clocked it keeps coming.
FairBoardSpec == BoardSpec /\ WF_boardVars(tick_handler)

\* The same, with a foreign sender that keeps putting its LKAS frame on bus 0.
ForeignLkas == \E f \in RxFrames : f.addr = "LKAS" /\ f.bus = 0 /\ can_rx(f)

ForeignLkasSpec == FairBoardSpec /\ WF_boardVars(ForeignLkas)

----------------------------------------------------------------------------
(* Properties.                                                              *)

\* The type of the board's own state.
BoardTypeOK ==
  /\ heartbeat_counter \in 0..HEARTBEAT_CAP
  /\ heartbeat_lost \in BOOLEAN
  /\ heartbeat_disabled \in BOOLEAN
  /\ heartbeat_engaged \in BOOLEAN
  /\ heartbeat_engaged_mismatches \in 0..MAX_MISMATCHES
  /\ ignition_can \in BOOLEAN
  /\ ignition_can_cnt \in 0..IGNITION_CAP
  /\ power_save_status \in BOOLEAN /\ can2_irqs \in BOOLEAN
  /\ host_alive \in BOOLEAN
  /\ unused_ticks \in 0..HISTORY_CAP

\* The board never stays in the car mode with an expired heartbeat: not after
\* the host disabled the check in an idle mode and then set the car mode, and
\* not when the mode is set with a counter that was already high.
CarModeNeedsHeartbeat ==
  current_safety_mode = "MAZDA" =>
    heartbeat_counter < HEARTBEAT_IGNITION_CNT_ON /\ ~heartbeat_lost

\* Ticks that ran before a grant of control never count against it: in the stock
\* build with the stock radar, where control is granted on an edge of cruise, the
\* mismatch count is at most the number of unused ticks since the driver's own
\* action, so a fresh grant always has its full few seconds.
MismatchesSinceArmed ==
  (Build = "STOCK" /\ ~mazda_longitudinal /\ controls_allowed) =>
    heartbeat_engaged_mismatches <= unused_ticks

\* Every step of the board is a step of the safety model or leaves it alone:
\* what is shown of the safety model under every environment holds in the board.
BoardImplementsSafety == SafetySpec

Disarmed == ~controls_allowed /\ current_safety_mode # "MAZDA"

\* A dead host is noticed whatever the car's frames do: the heartbeat timeout
\* ends the car mode, and no frame can arm the board again.
HostLossDisarms == ~host_alive ~> []Disarmed

\* The host does not set the car mode again while it is in it.
SteadyMode ==
  (current_safety_mode = "MAZDA" /\ current_safety_mode' = "MAZDA") =>
    safety_mode_cnt' >= safety_mode_cnt

\* A foreign sender of LKAS on the car's bus is noticed: while it keeps sending
\* and the host does not keep setting the mode, the car mode does not last
\* without a relay malfunction.
ForeignLkasNoticed ==
  <>[][SteadyMode]_boardVars =>
    (current_safety_mode = "MAZDA" ~>
       (relay_malfunction \/ current_safety_mode # "MAZDA"))

\* What the comment at the mismatch check says: control that openpilot does not
\* use is withdrawn after a few seconds, and then stays withdrawn until the
\* driver acts.  Of the stock build: the level gate of the MADS builds grants
\* control again with the driver's hands off.
UnusedControlsExpire == Build = "STOCK" => unused_ticks <= MAX_MISMATCHES
=============================================================================
