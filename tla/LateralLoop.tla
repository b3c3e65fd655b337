---------------------------- MODULE LateralLoop ----------------------------
(***************************************************************************)
(* The lateral sender against the panda: tx_thread of                      *)
(* control/control_stack/dashcam_web.py, which keeps its own copy of the   *)
(* torque history, and the torque checks of SteerTorque, which keep the    *)
(* other.  Nothing tells the sender that a frame was rejected: it polls    *)
(* the health record every PollPeriod frames and starts over from zero.    *)
(*                                                                         *)
(* The iteration is split where the panda can change under it: the torque  *)
(* is computed, the health record may be polled, the frame is handed over. *)
(* can_thread also refreshes the health snapshot, with a read that may be  *)
(* old by the time it is stored.                                           *)
(***************************************************************************)
EXTENDS SteerTorque

CONSTANTS
  STEER_MAX, STEER_DELTA_UP, STEER_DELTA_DOWN, STEER_DRIVER_ALLOWANCE,
  PollPeriod,      (* frames between two polls of the health record          *)
  LinkFaults,      (* what goes wrong: a lost "send", a failed "poll", a     *)
                   (* "reset" of the board                                   *)
  MAX_LOST         (* bound: faults between two accepted frames are counted  *)
                   (* up to here                                             *)

Demands == -STEER_MAX..STEER_MAX

ASSUME LoopAssumption ==
  /\ STEER_MAX \in Nat /\ STEER_MAX <= MaxTorque /\ STEER_MAX <= MaxRtDelta
  /\ STEER_DELTA_UP \in Nat /\ STEER_DELTA_UP <= MaxRateUp
  /\ STEER_DELTA_DOWN \in Nat
  /\ STEER_DRIVER_ALLOWANCE \in Nat
  /\ PollPeriod \in Nat \ {0} /\ MAX_LOST \in Nat
  /\ LinkFaults \subseteq {"send", "poll", "reset"}
  /\ Demands \subseteq Torques
  /\ \A d \in DriverTorques :
       DriverMaxLimit(d) >= STEER_MAX /\ DriverMinLimit(d) <= -STEER_MAX

VARIABLES
  pc,              (* where the iteration of tx_thread is                    *)
  ctr,             (* frame counter, modulo PollPeriod                       *)
  apply_last,      (* the sender's history                                   *)
  apply_torque,    (* the torque of this iteration                           *)
  health,          (* controls_allowed of the snapshot: {} before the first  *)
  can_health,      (* a health record that can_thread has read, not stored   *)
  mazda_mode,      (* the board is in the Mazda mode                         *)
  blocked_new,     (* safety_tx_blocked has moved since it was last polled   *)
  undelivered,     (* history: the last frame did not reach the panda        *)
  stall,           (* history: frames rejected since one was accepted        *)
  lost             (* history: link faults and resets since then             *)

\* The rejections that the polls allow for n faults: one period, and one more for
\* each of them.
Allowance(n) == PollPeriod * (n + 1)

\* Bound of the history counter, one past what StallIsBounded allows.
STALL_CAP == Allowance(MAX_LOST) + 1

hostVars == <<pc, ctr, apply_last, apply_torque, health, can_health>>
linkVars == <<mazda_mode, blocked_new, undelivered, stall, lost>>
loopVars == <<steerVars, hostVars, linkVars>>

----------------------------------------------------------------------------
(* apply_driver_steer_torque_limits, on whole counts.                       *)

clip(val, low, high) == MIN(MAX(val, low), high)

driver_clip(val, driver) ==
  clip(val,
       MIN(MAX(-STEER_MAX, -STEER_MAX - STEER_DRIVER_ALLOWANCE + driver), 0),
       MAX(MIN(STEER_MAX, STEER_MAX + STEER_DRIVER_ALLOWANCE + driver), 0))

\* Mutant of rate_clip: a reversal may go past zero by the larger rate.
rate_clip_NoCross(val, last) ==
  IF last > 0
  THEN clip(val, last - STEER_DELTA_DOWN - STEER_DELTA_UP, last + STEER_DELTA_UP)
  ELSE clip(val, last - STEER_DELTA_UP, last + STEER_DELTA_DOWN + STEER_DELTA_UP)

rate_clip(val, last) ==
  IF last > 0
  THEN clip(val, MAX(last - STEER_DELTA_DOWN, -STEER_DELTA_UP), last + STEER_DELTA_UP)
  ELSE clip(val, last - STEER_DELTA_UP, MIN(last + STEER_DELTA_DOWN, STEER_DELTA_UP))

apply_driver_steer_torque_limits(val, last, driver) ==
  rate_clip(driver_clip(val, driver), last)

----------------------------------------------------------------------------
(* tx_thread.                                                               *)

\* The driver torque that the sender uses is what can_thread decoded last, of any
\* age: it is not the panda's.
Compute(want, driver) ==
  /\ pc = "compute"
  /\ apply_torque' = apply_driver_steer_torque_limits(want, apply_last, driver)
  /\ apply_last' = apply_torque'
  /\ pc' = IF ctr = 0 THEN "poll" ELSE "send"
  /\ UNCHANGED <<steerVars, linkVars, ctr, health, can_health>>

StartOver == apply_last' = 0 /\ apply_torque' = 0

\* Mutant of Resync: a rejection is counted and nothing else.
Resync_CountOnly == UNCHANGED <<apply_last, apply_torque>>

\* After a rejection, and after the mode was set again.
Resync ==
  IF blocked_new \/ ~mazda_mode THEN StartOver ELSE UNCHANGED <<apply_last, apply_torque>>

\* Mutant of Poll: the record is used and not stored for the gate.
Poll_StaleHealth ==
  /\ pc = "poll"
  /\ Resync
  /\ blocked_new' = FALSE
  /\ mazda_mode' = TRUE
  /\ IF mazda_mode THEN UNCHANGED steerVars ELSE SteerReset
  /\ pc' = "send"
  /\ UNCHANGED <<ctr, health, can_health, undelivered, stall, lost>>

\* One health read and what it leads to; the mode (with its parameter) is
\* asserted again if the board is not in it.
Poll ==
  /\ pc = "poll"
  /\ health' = {controls_allowed}
  /\ Resync
  /\ blocked_new' = FALSE
  /\ mazda_mode' = TRUE
  /\ IF mazda_mode THEN UNCHANGED steerVars ELSE SteerReset
  /\ pc' = "send"
  /\ UNCHANGED <<ctr, can_health, undelivered, stall, lost>>

\* A fault of the link or a reset of the board, as the history counts them.
Fault == lost' = MIN(lost + 1, MAX_LOST)

\* The read of the record fails, or the write of the mode after it: then the
\* record is stored already, and nothing else of the poll happens.
PollFails ==
  /\ pc = "poll" /\ "poll" \in LinkFaults
  /\ health' \in {health} \cup (IF mazda_mode THEN {} ELSE {{controls_allowed}})
  /\ pc' = "send"
  /\ Fault
  /\ UNCHANGED <<steerVars, mazda_mode, blocked_new, undelivered, stall, ctr,
                 apply_last, apply_torque, can_health>>

\* The snapshot says that control is not allowed.
GateShut == health = {FALSE}

Outgoing == IF GateShut THEN 0 ELSE apply_torque

NextFrame ==
  /\ pc = "send"
  /\ pc' = "compute"
  /\ ctr' = IF ctr + 1 = PollPeriod THEN 0 ELSE ctr + 1
  /\ apply_torque' = Outgoing
  /\ apply_last' = IF GateShut THEN 0 ELSE apply_last
  /\ UNCHANGED <<health, can_health, mazda_mode>>

Rejected == ~mazda_mode \/ violation(Outgoing)

\* can_send of the board: outside the Mazda mode no frame is in the tx table, and
\* the torque checks do not run.
TxHook(t) ==
  IF mazda_mode THEN steer_torque_cmd_checks(t) ELSE UNCHANGED steerVars

Send ==
  /\ NextFrame
  /\ TxHook(Outgoing)
  /\ blocked_new' = (blocked_new \/ Rejected)
  /\ stall' = IF Rejected THEN MIN(stall + 1, STALL_CAP) ELSE 0
  /\ lost' = IF Rejected THEN lost ELSE 0
  /\ undelivered' = FALSE

\* The frame does not reach the panda: it is neither accepted nor rejected, and the
\* sender's history has moved all the same.
SendFails ==
  /\ "send" \in LinkFaults
  /\ NextFrame
  /\ undelivered' = TRUE
  /\ Fault
  /\ UNCHANGED <<steerVars, blocked_new, stall>>

----------------------------------------------------------------------------
(* can_thread's own refresh of the snapshot, and the board.                 *)

ReadHealth ==
  /\ can_health = {}
  /\ can_health' = {controls_allowed}
  /\ UNCHANGED <<steerVars, linkVars, pc, ctr, apply_last, apply_torque, health>>

StoreHealth ==
  /\ can_health # {}
  /\ health' = can_health
  /\ can_health' = {}
  /\ UNCHANGED <<steerVars, linkVars, pc, ctr, apply_last, apply_torque>>

\* Frames of the car: control granted or taken, a driver sample, time.
CarFrame ==
  /\ \/ \E d \in DriverTorques : update_sample(d)
     \/ \E allowed \in BOOLEAN : mazda_mode /\ SetControls(allowed)
     \/ RtWindowEnds
  /\ UNCHANGED <<hostVars, linkVars>>

\* A frame of another sender is rejected (long_tx_thread): safety_tx_blocked counts
\* the rejections of every address.
OtherBlocked ==
  /\ ~blocked_new
  /\ blocked_new' = TRUE
  /\ UNCHANGED <<steerVars, hostVars, mazda_mode, undelivered, stall, lost>>

BoardReset ==
  /\ "reset" \in LinkFaults
  /\ SteerReset
  /\ mazda_mode' = FALSE
  /\ blocked_new' = FALSE
  /\ Fault
  /\ UNCHANGED <<hostVars, undelivered, stall>>

----------------------------------------------------------------------------
LoopInit ==
  /\ SteerInit
  /\ pc = "compute" /\ ctr = 0
  /\ apply_last = 0 /\ apply_torque = 0
  /\ health = {} /\ can_health = {}
  /\ mazda_mode = TRUE
  /\ blocked_new = FALSE /\ undelivered = FALSE
  /\ stall = 0 /\ lost = 0

TxThread ==
  \/ \E want \in Demands, driver \in DriverTorques : Compute(want, driver)
  \/ Poll \/ PollFails \/ Send \/ SendFails

LoopNext ==
  TxThread \/ ReadHealth \/ StoreHealth \/ CarFrame \/ OtherBlocked \/ BoardReset

LoopSpec == LoopInit /\ [][LoopNext]_loopVars

\* tx_thread keeps running: it is a daemon thread that sleeps at most one period.
FairLoopSpec == LoopSpec /\ WF_loopVars(TxThread)

----------------------------------------------------------------------------
(* Properties.                                                              *)

\* The type of the loop's state.
LoopTypeOK ==
  /\ SteerTypeOK
  /\ pc \in {"compute", "poll", "send"}
  /\ ctr \in 0..PollPeriod - 1
  /\ apply_last \in Demands /\ apply_torque \in Demands
  /\ health \in SUBSET BOOLEAN /\ can_health \in SUBSET BOOLEAN
  /\ mazda_mode \in BOOLEAN /\ blocked_new \in BOOLEAN /\ undelivered \in BOOLEAN
  /\ stall \in 0..STALL_CAP /\ lost \in 0..MAX_LOST

\* The two histories only part for a reason: a frame that is rejected after an
\* accepted one met a withdrawn control or mode, or follows a frame that never
\* reached the panda.  In a session with none of these the panda accepts every
\* frame that the sender computes, for every demand and driver torque, although
\* the rejections of other senders make it start over from zero at any poll.
RejectionHasCause ==
  [][(stall = 0 /\ stall' > 0) =>
       ~controls_allowed \/ ~mazda_mode \/ undelivered]_loopVars

\* One rejected frame does not become a dropout: whatever caused it, at most one
\* poll period of frames is rejected before one is accepted, and one more period
\* for each frame, poll or board session that is lost meanwhile.
StallIsBounded == lost < MAX_LOST => stall <= Allowance(lost)

\* A step of a session in which control and link stay up, nobody else's frames are
\* rejected and the demand is full right lock, with the driver's hands off.
SteadyStep ==
  /\ controls_allowed' /\ mazda_mode' /\ ~undelivered' /\ ~OtherBlocked
  /\ (pc = "poll" /\ pc' = "send" => Poll)
  /\ (pc = "compute" /\ pc' # "compute" =>
        apply_last' = apply_driver_steer_torque_limits(STEER_MAX, apply_last, 0))

\* Recovery: after whatever went wrong before, a session that stays up brings the
\* torque that the panda accepts to what is demanded, and keeps it there.
DemandIsReached ==
  <>[][SteadyStep]_loopVars => <>[](accepted = STEER_MAX)

\* Every step of the loop is a step of the torque checks or leaves them alone, so
\* what is shown of the panda under any sender holds under this one.
LoopImplementsSteer == SteerSpec

=============================================================================
