------------------------ MODULE LateralLoop_proofs -------------------------
(***************************************************************************)
(* Proofs about SteerTorque and about LateralLoop, which composes it with  *)
(* the sender, for every value of the limits that keeps SteerAssumption    *)
(* and LoopAssumption.                                                     *)
(*                                                                         *)
(* SteerTorque: the inductive invariant says that the two references of    *)
(* the checks are torques that were accepted or zero: only then does a     *)
(* limit relative to desired_torque_last say anything about the frames     *)
(* that pass.                                                              *)
(* LateralLoop: the inductive invariant relates the two torque histories   *)
(* at each point of the sender's iteration, and the length of a stall to   *)
(* the frames since the last poll and to what was lost meanwhile.          *)
(***************************************************************************)
EXTENDS LateralLoop, TLAPS

-----------------------------------------------------------------------------
(* The panda's checks of a torque frame. *)

\* The reference of the rate check is zero or the torque that was accepted last,
\* which is not beyond the ceiling.
ReferenceIsAccepted ==
  /\ desired_torque_last \in {0, accepted}
  /\ -MaxTorque <= accepted /\ accepted <= MaxTorque

\* Without a clock the window never ends and its reference stays zero.
WindowNeverEnds == ~RtClocked => (~rt_elapsed /\ rt_torque_last = 0)

SteerIInv == SteerTypeOK /\ ReferenceIsAccepted /\ WindowNeverEnds /\ RtCeiling

\* A frame that passes with control is inside the ceiling, the growth limit and
\* the window; without control it is zero (steer_torque_cmd_checks).
LEMMA PassedFrame ==
  ASSUME SteerTypeOK, NEW t \in Torques, ~violation(t)
  PROVE  /\ t # 0 => controls_allowed
         /\ controls_allowed =>
              /\ -MaxTorque <= t /\ t <= MaxTorque
              /\ t <= MAX(desired_torque_last, 0) + MaxRateUp
              /\ t >= MIN(desired_torque_last, 0) - MaxRateUp
              /\ t <= MAX(rt_torque_last, 0) + MaxRtDelta
              /\ t >= MIN(rt_torque_last, 0) - MaxRtDelta
BY SteerAssumption
   DEF SteerTypeOK, violation, max_limit_check, driver_limit_check, rate_limit_check,
       MAX, MIN

\* The initial state satisfies the inductive invariant.
LEMMA SteerInitIInv == SteerInit => SteerIInv
<1> SUFFICES ASSUME SteerInit PROVE SteerIInv
  OBVIOUS
<1>1. torque_driver \in [Samples -> DriverTorques]
  BY SteerAssumption DEF SteerInit
<1>2. controls_allowed \in BOOLEAN /\ rt_elapsed \in BOOLEAN
  BY DEF SteerInit
<1>3. /\ desired_torque_last \in Torques /\ rt_torque_last \in Torques /\ accepted \in Torques
      /\ ReferenceIsAccepted /\ RtCeiling
  BY SteerAssumption DEF SteerInit, ReferenceIsAccepted, RtCeiling
<1>4. WindowNeverEnds
  BY Zenon DEF SteerInit, WindowNeverEnds
<1> QED
  BY <1>1, <1>2, <1>3, <1>4 DEF SteerIInv, SteerTypeOK

\* Every step preserves the type.
LEMMA SteerTypeStep == SteerTypeOK /\ [SteerNext]_steerVars => SteerTypeOK'
<1> SUFFICES ASSUME SteerTypeOK, [SteerNext]_steerVars PROVE SteerTypeOK'
  OBVIOUS
<1> USE SteerAssumption
<1>1. ASSUME NEW t \in Torques, steer_torque_cmd_checks(t) PROVE SteerTypeOK'
  BY <1>1 DEF SteerTypeOK, steer_torque_cmd_checks, ResetHistory, KeepHistory
<1>2. ASSUME NEW d \in DriverTorques, update_sample(d) PROVE SteerTypeOK'
  <2>1. torque_driver' \in [Samples -> DriverTorques]
    BY <1>2 DEF SteerTypeOK, update_sample, Samples
  <2> QED
    BY <1>2, <2>1 DEF SteerTypeOK, update_sample
<1>3. CASE SteerReset
  <2>1. torque_driver' \in [Samples -> DriverTorques]
    BY <1>3 DEF SteerReset
  <2>2. controls_allowed' \in BOOLEAN /\ rt_elapsed' \in BOOLEAN
    BY <1>3, Zenon DEF SteerReset
  <2> QED
    BY <1>3, <2>1, <2>2 DEF SteerTypeOK, SteerReset
<1>4. CASE \/ \E allowed \in BOOLEAN : SetControls(allowed)
           \/ RtWindowEnds
           \/ UNCHANGED steerVars
  BY <1>4 DEF SteerTypeOK, SetControls, RtWindowEnds, steerVars
<1> QED
  BY <1>1, <1>2, <1>3, <1>4 DEF SteerNext

\* Every step preserves the inductive invariant.
LEMMA SteerNextIInv == SteerIInv /\ [SteerNext]_steerVars => SteerIInv'
<1> SUFFICES ASSUME SteerIInv, [SteerNext]_steerVars PROVE SteerIInv'
  OBVIOUS
<1> USE SteerAssumption
<1>0. SteerTypeOK'
  BY SteerTypeStep DEF SteerIInv
<1>1. ASSUME NEW t \in Torques, steer_torque_cmd_checks(t) PROVE SteerIInv'
  <2>1. SteerTypeOK'
    BY <1>0
  <2>2. CASE violation(t)
    BY <1>1, <2>1, <2>2
       DEF SteerIInv, SteerTypeOK, ReferenceIsAccepted, WindowNeverEnds, RtCeiling,
           steer_torque_cmd_checks, ResetHistory
  <2>3. CASE ~violation(t) /\ ~controls_allowed
    <3>1. t = 0
      BY <2>3, PassedFrame DEF SteerIInv
    <3> QED
      BY <1>1, <2>1, <2>3, <3>1
         DEF SteerIInv, SteerTypeOK, ReferenceIsAccepted, WindowNeverEnds, RtCeiling,
             steer_torque_cmd_checks, ResetHistory
  <2>4. CASE ~violation(t) /\ controls_allowed
    <3>1. /\ -MaxTorque <= t /\ t <= MaxTorque
          /\ t <= MAX(rt_torque_last, 0) + MaxRtDelta
          /\ t >= MIN(rt_torque_last, 0) - MaxRtDelta
      BY <2>4, PassedFrame DEF SteerIInv
    <3>2. /\ desired_torque_last' = t /\ accepted' = t
          /\ rt_torque_last' = IF rt_elapsed THEN t ELSE rt_torque_last
          /\ rt_elapsed' = FALSE
      BY <1>1, <2>4 DEF steer_torque_cmd_checks, KeepHistory
    <3>3. ReferenceIsAccepted' /\ WindowNeverEnds'
      BY <3>1, <3>2 DEF SteerIInv, ReferenceIsAccepted, WindowNeverEnds
    <3>4. RtCeiling'
      BY <3>1, <3>2 DEF SteerIInv, WindowNeverEnds, RtCeiling, MAX, MIN
    <3> QED
      BY <2>1, <3>3, <3>4 DEF SteerIInv
  <2> QED
    BY <2>2, <2>3, <2>4
<1>2. ASSUME NEW d \in DriverTorques, update_sample(d) PROVE SteerIInv'
  BY <1>0, <1>2
     DEF SteerIInv, SteerTypeOK, ReferenceIsAccepted, WindowNeverEnds, RtCeiling, update_sample
<1>3. CASE SteerReset
  <2>1. ~RtClocked => ~rt_elapsed'
    BY <1>3, Zenon DEF SteerReset
  <2>2. ReferenceIsAccepted' /\ RtCeiling'
    BY <1>3 DEF SteerIInv, SteerTypeOK, ReferenceIsAccepted, RtCeiling, SteerReset
  <2>3. WindowNeverEnds'
    BY <1>3, <2>1, Zenon DEF SteerReset, WindowNeverEnds
  <2> QED
    BY <1>0, <2>2, <2>3 DEF SteerIInv
<1>4. ASSUME NEW allowed \in BOOLEAN, SetControls(allowed) PROVE SteerIInv'
  BY <1>4 DEF SteerIInv, SteerTypeOK, ReferenceIsAccepted, WindowNeverEnds, RtCeiling, SetControls
<1>5. CASE RtWindowEnds
  BY <1>5 DEF SteerIInv, SteerTypeOK, ReferenceIsAccepted, WindowNeverEnds, RtCeiling, RtWindowEnds
<1>6. CASE UNCHANGED steerVars
  BY <1>6 DEF SteerIInv, SteerTypeOK, ReferenceIsAccepted, WindowNeverEnds, RtCeiling, steerVars
<1> QED
  BY <1>1, <1>2, <1>3, <1>4, <1>5, <1>6 DEF SteerNext

\* The inductive invariant holds in every reachable state.
LEMMA SteerInvariant == SteerSpec => []SteerIInv
BY SteerInitIInv, SteerNextIInv, PTL DEF SteerSpec

\* steer_torque_cmd_checks and the sample update keep the type of their state.
THEOREM SteerTypeCorrect == SteerSpec => []SteerTypeOK
<1>1. SteerIInv => SteerTypeOK
  BY DEF SteerIInv
<1> QED
  BY <1>1, SteerInvariant, PTL

\* With the microsecond timer unclocked, max_rt_delta bounds the accepted torque
\* for ever (rt_torque_rate_limit_check).
THEOREM UnclockedCeiling == SteerSpec => []RtCeiling
<1>1. SteerIInv => RtCeiling
  BY DEF SteerIInv
<1> QED
  BY <1>1, SteerInvariant, PTL

\* Zero torque passes steer_torque_cmd_checks in every reachable state.
THEOREM ZeroPasses == SteerSpec => []ZeroAlwaysPasses
<1>1. SteerIInv => ZeroAlwaysPasses
  BY SteerAssumption
     DEF SteerIInv, SteerTypeOK, ZeroAlwaysPasses, violation, max_limit_check,
         driver_limit_check, rate_limit_check, fights_driver, MAX, MIN
<1> QED
  BY <1>1, SteerInvariant, PTL

\* driver_limit_check: what passes over the driver's limit releases the torque that
\* was accepted last.
THEOREM DriverWins == SteerSpec => []DriverOverrules
<1>1. ASSUME SteerIInv, NEW t \in Torques, ~violation(t)
      PROVE  /\ (t > 0 /\ \A i \in Samples : t > DriverMaxLimit(torque_driver[i]))
                   => t <= accepted - MaxRateDown
             /\ (t < 0 /\ \A i \in Samples : t < DriverMinLimit(torque_driver[i]))
                   => t >= accepted + MaxRateDown
  <2>1. t # 0 => controls_allowed
    BY <1>1, PassedFrame DEF SteerIInv
  <2>2. t # 0 => ~fights_driver(t)
    BY <1>1, <2>1 DEF violation, driver_limit_check
  <2>3. desired_torque_last \in {0, accepted} /\ accepted \in Int /\ t \in Int
    BY <1>1, SteerAssumption DEF SteerIInv, SteerTypeOK, ReferenceIsAccepted
  <2> QED
    BY <2>2, <2>3, SteerAssumption DEF fights_driver
<1>2. SteerIInv => DriverOverrules
  BY <1>1 DEF DriverOverrules
<1> QED
  BY <1>2, SteerInvariant, PTL

\* The torque never grows by more than max_rate_up from one accepted frame to the
\* next, whatever was rejected or reset between them.
THEOREM AcceptedIsSlewLimited == SteerSpec => AcceptedSlew
<1>1. ASSUME SteerIInv, [SteerNext]_steerVars, accepted' # accepted
      PROVE  /\ accepted' <= MAX(accepted, 0) + MaxRateUp
             /\ accepted' >= MIN(accepted, 0) - MaxRateUp
             /\ -MaxTorque <= accepted' /\ accepted' <= MaxTorque
  <2>1. PICK t \in Torques : steer_torque_cmd_checks(t)
    BY <1>1 DEF SteerNext, steerVars, update_sample, SteerReset, SetControls, RtWindowEnds
  <2>2. ~violation(t) /\ accepted' = t
    BY <1>1, <2>1 DEF steer_torque_cmd_checks
  <2>3. desired_torque_last \in {0, accepted} /\ accepted \in Int /\ t \in Int
    BY <1>1, SteerAssumption DEF SteerIInv, SteerTypeOK, ReferenceIsAccepted
  <2>4. CASE t = 0
    BY <2>2, <2>3, <2>4, SteerAssumption DEF MAX, MIN
  <2>5. CASE t # 0
    <3>1. /\ -MaxTorque <= t /\ t <= MaxTorque
          /\ t <= MAX(desired_torque_last, 0) + MaxRateUp
          /\ t >= MIN(desired_torque_last, 0) - MaxRateUp
      BY <1>1, <2>2, <2>5, PassedFrame DEF SteerIInv
    <3> QED
      BY <2>2, <2>3, <3>1, SteerAssumption DEF MAX, MIN
  <2> QED
    BY <2>4, <2>5
<1> QED
  BY <1>1, SteerInvariant, PTL DEF SteerSpec, AcceptedSlew

-----------------------------------------------------------------------------
(* The loop of the sender and the panda. *)

\* The growth limit of the panda does not stop a frame with torque t.
WithinRate(t) ==
  /\ t <= MAX(desired_torque_last, 0) + MaxRateUp
  /\ t >= MIN(desired_torque_last, 0) - MaxRateUp

\* Between two iterations the histories are equal; within one, the torque that is
\* about to be sent is one step away from the panda's.
InStep ==
  /\ pc = "compute" => desired_torque_last = apply_last
  /\ pc # "compute" => WithinRate(apply_torque)

\* The histories only part after a lost or rejected frame or a board reset.
HistoriesAgree == stall > 0 \/ undelivered \/ ~mazda_mode \/ InStep

\* Inside an iteration the sender's two variables hold the same torque.
OneTorque == pc # "compute" => apply_torque = apply_last

\* The rejections are no more than what the faults since the last accepted frame
\* explain.
Explained == stall <= PollPeriod * lost

\* They are no more than the frames since the last poll and what the faults
\* explain; the poll sees that there are more, and the frame after it is zero.
StallSincePoll ==
  /\ pc = "poll" => ctr = 0
  /\ lost < MAX_LOST =>
       /\ ctr # 0 => stall <= ctr + PollPeriod * lost
       /\ StallIsBounded
       /\ ~(pc = "send" /\ ctr = 0) => (blocked_new \/ ~mazda_mode \/ Explained)
       /\ (pc = "send" /\ ctr = 0) => ((apply_torque = 0 /\ mazda_mode) \/ Explained)

LoopIInv == LoopTypeOK /\ HistoriesAgree /\ OneTorque

\* What a fault adds to the allowance is one poll period.
LEMMA AllowanceGrows ==
  ASSUME NEW n \in Nat
  PROVE  /\ PollPeriod * n \in Nat /\ Allowance(n) \in Nat
         /\ Allowance(n) = PollPeriod * n + PollPeriod
         /\ Allowance(n) = PollPeriod * (n + 1)
BY LoopAssumption DEF Allowance

\* The cap of the counter is one past the largest allowance.
LEMMA CapIsNat == STALL_CAP \in Nat \ {0} /\ STALL_CAP = Allowance(MAX_LOST) + 1
BY LoopAssumption, AllowanceGrows DEF STALL_CAP

\* The torque that apply_driver_steer_torque_limits returns is a demand and one
\* step of the panda's growth limit from the last one.
LEMMA SenderSteps ==
  ASSUME NEW want \in Demands, NEW last \in Demands, NEW driver \in DriverTorques
  PROVE  LET t == apply_driver_steer_torque_limits(want, last, driver)
         IN  /\ t \in Demands
             /\ t <= MAX(last, 0) + MaxRateUp
             /\ t >= MIN(last, 0) - MaxRateUp
<1> USE SteerAssumption, LoopAssumption
<1> DEFINE v == driver_clip(want, driver)
<1>1. v \in Demands
  BY DEF driver_clip, clip, MIN, MAX, Demands
<1>2. ASSUME NEW w \in Demands
      PROVE  /\ rate_clip(w, last) \in Demands
             /\ rate_clip(w, last) <= MAX(last, 0) + MaxRateUp
             /\ rate_clip(w, last) >= MIN(last, 0) - MaxRateUp
  BY DEF rate_clip, clip, MIN, MAX, Demands
<1> QED
  BY <1>1, <1>2 DEF apply_driver_steer_torque_limits

\* A torque of the sender's range that is within the growth limit passes
\* steer_torque_cmd_checks while control is allowed.
LEMMA DemandPasses ==
  ASSUME SteerTypeOK, controls_allowed, NEW t \in Demands, WithinRate(t)
  PROVE  ~violation(t)
<1> USE SteerAssumption, LoopAssumption
<1>1. ~max_limit_check(t, MaxTorque, -MaxTorque)
  BY DEF max_limit_check, Demands
<1>2. ~rate_limit_check(t, desired_torque_last, MaxRateUp)
  BY DEF rate_limit_check, max_limit_check, WithinRate, Demands, SteerTypeOK, MAX, MIN
<1>3. ~rate_limit_check(t, rt_torque_last, MaxRtDelta)
  BY DEF rate_limit_check, max_limit_check, Demands, SteerTypeOK, MAX, MIN
<1>4. 1 \in Samples /\ torque_driver[1] \in DriverTorques
  BY DEF Samples, SteerTypeOK
<1>5. DriverMaxLimit(torque_driver[1]) >= STEER_MAX /\ DriverMinLimit(torque_driver[1]) <= -STEER_MAX
  BY <1>4
<1>6. DriverMaxLimit(torque_driver[1]) \in Int /\ DriverMinLimit(torque_driver[1]) \in Int
  <2> DEFINE d == torque_driver[1]
  <2>0. d \in Int
    BY <1>4
  <2>1. d \in Int /\ DriverAllowance + d \in Int /\ -DriverAllowance + d \in Int
    BY <2>0
  <2>2. \A a, b \in Int : a * b \in Int
    OBVIOUS
  <2>3. /\ (DriverAllowance + d) * DriverMultiplier \in Int
        /\ (-DriverAllowance + d) * DriverMultiplier \in Int
    BY <2>1, <2>2
  <2>4. \A e \in Int : MaxTorque + e \in Int /\ -MaxTorque + e \in Int
    OBVIOUS
  <2> QED
    BY <2>3, <2>4 DEF DriverMaxLimit, DriverMinLimit
<1>7. ~(t > DriverMaxLimit(torque_driver[1])) /\ ~(t < DriverMinLimit(torque_driver[1]))
  BY <1>5, <1>6 DEF Demands
<1>8. ~fights_driver(t)
  BY <1>4, <1>7 DEF fights_driver
<1> QED
  BY <1>1, <1>2, <1>3, <1>8 DEF violation, driver_limit_check

\* Zero passes whatever the state.
LEMMA ZeroPassesHere == SteerTypeOK => ~violation(0)
BY SteerAssumption
   DEF SteerTypeOK, violation, max_limit_check, driver_limit_check, rate_limit_check,
       fights_driver, MAX, MIN

\* Each step of the loop is a step of SteerTorque or leaves its state alone.
LEMMA LoopStepIsSteerStep ==
  LoopTypeOK /\ [LoopNext]_loopVars => [SteerNext]_steerVars
<1> SUFFICES ASSUME LoopTypeOK, [LoopNext]_loopVars PROVE [SteerNext]_steerVars
  OBVIOUS
<1>1. ASSUME Send PROVE [SteerNext]_steerVars
  <2>1. Outgoing \in Torques
    BY SteerAssumption, LoopAssumption DEF LoopTypeOK, Outgoing
  <2> QED
    BY <1>1, <2>1 DEF Send, TxHook, SteerNext
<1>2. ASSUME TxThread, ~Send PROVE [SteerNext]_steerVars
  BY <1>2 DEF TxThread, Compute, Poll, PollFails, SendFails, SteerNext
<1>3. ASSUME CarFrame PROVE [SteerNext]_steerVars
  BY <1>3 DEF CarFrame, SteerNext
<1>4. ASSUME ReadHealth \/ StoreHealth \/ OtherBlocked \/ BoardReset \/ UNCHANGED loopVars
      PROVE  [SteerNext]_steerVars
  BY <1>4 DEF ReadHealth, StoreHealth, OtherBlocked, BoardReset, loopVars, SteerNext
<1> QED
  BY <1>1, <1>2, <1>3, <1>4 DEF LoopNext

\* The type of the loop's own state is preserved (SteerTypeOK comes from the
\* refinement).
LEMMA LoopTypeStep == LoopTypeOK /\ [LoopNext]_loopVars => LoopTypeOK'
<1> SUFFICES ASSUME LoopTypeOK, [LoopNext]_loopVars PROVE LoopTypeOK'
  OBVIOUS
<1> USE SteerAssumption, LoopAssumption
<1>0. 0 \in Demands
  BY DEF Demands
<1>1. SteerTypeOK'
  <2>1. [SteerNext]_steerVars
    BY LoopStepIsSteerStep
  <2> QED
    BY <2>1, SteerTypeStep DEF LoopTypeOK
<1>a. ASSUME Fault PROVE lost' \in 0..MAX_LOST
  BY <1>a DEF Fault, LoopTypeOK, MIN
<1>2. ASSUME NEW want \in Demands, NEW driver \in DriverTorques, Compute(want, driver)
      PROVE  LoopTypeOK'
  <2>1. apply_torque' \in Demands
    BY <1>2, SenderSteps DEF Compute, LoopTypeOK
  <2> QED
    BY <1>1, <1>2, <2>1 DEF Compute, LoopTypeOK, linkVars
<1>3. CASE Poll
  <2>1. apply_last' \in Demands /\ apply_torque' \in Demands
    BY <1>0, <1>3 DEF Poll, Resync, StartOver, LoopTypeOK
  <2>2. health' \in SUBSET BOOLEAN
    BY <1>3, Zenon DEF Poll, LoopTypeOK, SteerTypeOK
  <2>3. blocked_new' \in BOOLEAN /\ mazda_mode' \in BOOLEAN
    BY <1>3, Zenon DEF Poll
  <2> QED
    BY <1>1, <1>3, <2>1, <2>2, <2>3 DEF Poll, LoopTypeOK
<1>4. CASE PollFails
  <2>1. health' = health \/ health' = {controls_allowed}
    BY <1>4 DEF PollFails
  <2>2. controls_allowed \in BOOLEAN
    BY DEF LoopTypeOK, SteerTypeOK
  <2>3. health' \in SUBSET BOOLEAN
    BY <2>1, <2>2, Zenon DEF LoopTypeOK
  <2> QED
    BY <1>1, <1>4, <1>a, <2>3 DEF PollFails, LoopTypeOK
<1>5. ASSUME NextFrame
      PROVE  /\ pc' \in {"compute", "poll", "send"} /\ ctr' \in 0..PollPeriod - 1
             /\ apply_last' \in Demands /\ apply_torque' \in Demands
             /\ health' \in SUBSET BOOLEAN /\ can_health' \in SUBSET BOOLEAN
             /\ mazda_mode' \in BOOLEAN
  BY <1>0, <1>5 DEF NextFrame, Outgoing, LoopTypeOK
<1>6. CASE Send
  <2>1. blocked_new' \in BOOLEAN /\ undelivered' \in BOOLEAN
    BY <1>6, Zenon DEF Send
  <2>2. stall' \in 0..STALL_CAP /\ lost' \in 0..MAX_LOST
    BY <1>6, CapIsNat DEF Send, LoopTypeOK, MIN
  <2> QED
    BY <1>1, <1>5, <1>6, <2>1, <2>2 DEF Send, LoopTypeOK
<1>7. CASE SendFails
  BY <1>1, <1>5, <1>7, <1>a DEF SendFails, LoopTypeOK
<1>8. CASE ReadHealth
  <2>1. can_health' \in SUBSET BOOLEAN
    BY <1>8, Zenon DEF ReadHealth, LoopTypeOK, SteerTypeOK
  <2> QED
    BY <1>1, <1>8, <2>1 DEF ReadHealth, LoopTypeOK, linkVars
<1>9. CASE StoreHealth
  BY <1>1, <1>9 DEF StoreHealth, LoopTypeOK, linkVars
<1>10. CASE CarFrame
  BY <1>1, <1>10 DEF CarFrame, LoopTypeOK, hostVars, linkVars
<1>11. CASE BoardReset
  <2>1. mazda_mode' \in BOOLEAN /\ blocked_new' \in BOOLEAN
    BY <1>11, Zenon DEF BoardReset
  <2> QED
    BY <1>1, <1>11, <1>a, <2>1 DEF BoardReset, LoopTypeOK, hostVars
<1>12. CASE OtherBlocked
  BY <1>1, <1>12 DEF OtherBlocked, LoopTypeOK, hostVars
<1>13. CASE UNCHANGED loopVars
  BY <1>1, <1>13 DEF loopVars, LoopTypeOK, hostVars, linkVars
<1> QED
  BY <1>2, <1>3, <1>4, <1>6, <1>7, <1>8, <1>9, <1>10, <1>11, <1>12, <1>13 DEF LoopNext, TxThread

\* After a frame has been handed over the histories agree, or it was rejected.
LEMMA SendAgrees ==
  ASSUME LoopIInv, Send
  PROVE  stall' > 0 \/ ~mazda_mode' \/ (desired_torque_last' = apply_last' /\ pc' = "compute")
<1> USE DEF LoopIInv
<1>1. CASE ~mazda_mode \/ violation(Outgoing)
  BY <1>1, CapIsNat DEF Send, Rejected, LoopTypeOK, MIN
<1>2. CASE mazda_mode /\ ~violation(Outgoing)
  <2>1. apply_last' = Outgoing /\ pc' = "compute"
    BY DEF Send, NextFrame, Outgoing, OneTorque
  <2>2. steer_torque_cmd_checks(Outgoing)
    BY <1>2 DEF Send, TxHook
  <2>3. CASE controls_allowed
    BY <1>2, <2>1, <2>2, <2>3 DEF steer_torque_cmd_checks, KeepHistory
  <2>4. CASE ~controls_allowed
    <3>1. Outgoing = 0
      BY <1>2, <2>4 DEF violation
    <3> QED
      BY <2>1, <2>2, <2>4, <3>1 DEF steer_torque_cmd_checks, ResetHistory
  <2> QED
    BY <2>3, <2>4
<1> QED
  BY <1>1, <1>2

\* Every step preserves the agreement of the histories.
LEMMA LoopNextIInv == LoopIInv /\ [LoopNext]_loopVars => LoopIInv'
<1> SUFFICES ASSUME LoopIInv, [LoopNext]_loopVars PROVE LoopIInv'
  OBVIOUS
<1>0. LoopTypeOK /\ LoopTypeOK'
  BY LoopTypeStep DEF LoopIInv
<1> SUFFICES HistoriesAgree' /\ OneTorque'
  BY <1>0 DEF LoopIInv
<1>1. ASSUME NEW want \in Demands, NEW driver \in DriverTorques, Compute(want, driver)
      PROVE  HistoriesAgree' /\ OneTorque'
  <2>1. OneTorque'
    BY <1>1 DEF Compute, OneTorque
  <2>2. /\ apply_torque' <= MAX(apply_last, 0) + MaxRateUp
        /\ apply_torque' >= MIN(apply_last, 0) - MaxRateUp
    BY <1>0, <1>1, SenderSteps DEF Compute, LoopTypeOK
  <2>3. CASE stall > 0 \/ undelivered \/ ~mazda_mode
    BY <1>1, <2>1, <2>3 DEF Compute, HistoriesAgree, linkVars
  <2>4. CASE InStep
    <3>1. desired_torque_last' = apply_last /\ pc' # "compute"
      BY <1>1, <2>4 DEF Compute, InStep, steerVars
    <3>2. InStep'
      BY <2>2, <3>1 DEF InStep, WithinRate
    <3> QED
      BY <2>1, <3>2 DEF HistoriesAgree
  <2> QED
    BY <2>3, <2>4 DEF LoopIInv, HistoriesAgree
<1>2. CASE Poll
  <2>1. OneTorque'
    BY <1>2 DEF Poll, Resync, StartOver, LoopIInv, OneTorque
  <2>2. CASE blocked_new \/ ~mazda_mode
    <3>1. apply_torque' = 0 /\ pc' = "send"
      BY <1>2, <2>2 DEF Poll, Resync, StartOver
    <3>2. desired_torque_last' \in Int
      BY <1>0, SteerAssumption DEF LoopTypeOK, SteerTypeOK
    <3>3. \A x \in Int : 0 <= MAX(x, 0) + MaxRateUp /\ 0 >= MIN(x, 0) - MaxRateUp
      BY SteerAssumption DEF MAX, MIN
    <3>4. InStep'
      BY <3>1, <3>2, <3>3 DEF InStep, WithinRate
    <3> QED
      BY <2>1, <3>4 DEF HistoriesAgree
  <2>3. CASE ~blocked_new /\ mazda_mode
    BY <1>2, <2>1, <2>3
       DEF Poll, Resync, LoopIInv, HistoriesAgree, InStep, WithinRate, steerVars
  <2> QED
    BY <2>2, <2>3
<1>3. CASE PollFails
  BY <1>3 DEF PollFails, LoopIInv, HistoriesAgree, OneTorque, InStep, WithinRate, steerVars, linkVars
<1>4. CASE Send
  <2>1. OneTorque'
    BY <1>4 DEF Send, NextFrame, OneTorque
  <2> QED
    BY <1>4, <2>1, SendAgrees DEF HistoriesAgree, InStep
<1>5. CASE SendFails
  BY <1>5 DEF SendFails, NextFrame, HistoriesAgree, OneTorque
<1>6. CASE ReadHealth \/ StoreHealth \/ UNCHANGED loopVars
  BY <1>6 DEF ReadHealth, StoreHealth, LoopIInv, HistoriesAgree, OneTorque, InStep, WithinRate,
              steerVars, linkVars, hostVars, loopVars
<1>7. CASE CarFrame
  <2>1. UNCHANGED <<desired_torque_last, hostVars, linkVars>>
    BY <1>7 DEF CarFrame, update_sample, SetControls, RtWindowEnds
  <2> QED
    BY <2>1 DEF LoopIInv, HistoriesAgree, OneTorque, InStep, WithinRate, linkVars, hostVars
<1>8. CASE BoardReset
  BY <1>8 DEF BoardReset, LoopIInv, HistoriesAgree, OneTorque, hostVars
<1>9. CASE OtherBlocked
  BY <1>9 DEF OtherBlocked, LoopIInv, HistoriesAgree, OneTorque, InStep, WithinRate,
              steerVars, hostVars
<1> QED
  BY <1>1, <1>2, <1>3, <1>4, <1>5, <1>6, <1>7, <1>8, <1>9 DEF LoopNext, TxThread

\* The initial state satisfies the inductive invariants.
LEMMA LoopInitIInv == LoopInit => LoopIInv /\ StallSincePoll
<1> SUFFICES ASSUME LoopInit PROVE LoopIInv /\ StallSincePoll
  OBVIOUS
<1> USE SteerAssumption, LoopAssumption
<1>1. SteerTypeOK
  BY SteerInitIInv DEF LoopInit, SteerIInv
<1>2. /\ mazda_mode \in BOOLEAN /\ blocked_new \in BOOLEAN /\ undelivered \in BOOLEAN
      /\ health \in SUBSET BOOLEAN /\ can_health \in SUBSET BOOLEAN
  BY Zenon DEF LoopInit
<1>3. LoopTypeOK
  BY <1>1, <1>2, CapIsNat DEF LoopInit, LoopTypeOK, Demands
<1>4. HistoriesAgree /\ OneTorque
  BY DEF LoopInit, SteerInit, HistoriesAgree, InStep, OneTorque
<1>5. StallSincePoll
  BY AllowanceGrows DEF LoopInit, StallSincePoll, StallIsBounded, Explained
<1> QED
  BY <1>3, <1>4, <1>5 DEF LoopIInv

\* The inductive invariant holds in every reachable state.
LEMMA LoopInvariant == LoopSpec => []LoopIInv
BY LoopInitIInv, LoopNextIInv, PTL DEF LoopSpec

\* tx_thread over any link and beside any other sender: after an accepted frame the
\* panda rejects one only without control or mode or after an undelivered frame.
THEOREM RejectionsAreCaused == LoopSpec => RejectionHasCause
<1>1. ASSUME LoopIInv, [LoopNext]_loopVars, stall = 0, stall' > 0,
             controls_allowed, mazda_mode, ~undelivered
      PROVE  FALSE
  <2>1. Send
    <3>1. ASSUME ~Send PROVE stall' = stall
      BY <1>1, <3>1 DEF LoopNext, TxThread, Compute, Poll, PollFails, SendFails, ReadHealth,
                        StoreHealth, CarFrame, OtherBlocked, BoardReset, loopVars, linkVars
    <3>2. stall' # stall
      BY <1>1
    <3> QED
      BY <3>1, <3>2
  <2>2. violation(Outgoing)
    BY <1>1, <2>1 DEF Send, Rejected
  <2>3. WithinRate(apply_torque)
    BY <1>1, <2>1 DEF LoopIInv, HistoriesAgree, InStep, Send, NextFrame
  <2>4. CASE GateShut
    BY <1>1, <2>2, <2>4, ZeroPassesHere DEF Outgoing, LoopIInv, LoopTypeOK
  <2>5. CASE ~GateShut
    BY <1>1, <2>2, <2>3, <2>5, DemandPasses DEF Outgoing, LoopIInv, LoopTypeOK
  <2> QED
    BY <2>4, <2>5
<1> QED
  BY <1>1, LoopInvariant, PTL DEF LoopSpec, RejectionHasCause

\* The loop implements the torque checks under any sender: everything proved of
\* SteerSpec holds of the frames of this sender.
THEOREM LoopRefinesSteer == LoopSpec => LoopImplementsSteer
<1>1. LoopInit => SteerInit
  BY DEF LoopInit
<1>2. LoopIInv /\ [LoopNext]_loopVars => [SteerNext]_steerVars
  BY LoopStepIsSteerStep DEF LoopIInv
<1> QED
  BY <1>1, <1>2, LoopInvariant, PTL DEF LoopSpec, LoopImplementsSteer, SteerSpec

\* A fault raises what is explained by one poll period, which covers every rejection
\* so far.
LEMMA FaultExplains ==
  ASSUME LoopTypeOK, StallSincePoll, Fault, lost' < MAX_LOST, stall' = stall
  PROVE  /\ Explained' /\ StallIsBounded'
         /\ lost' = lost + 1
<1> USE LoopAssumption
<1>1. lost' = lost + 1 /\ lost < MAX_LOST /\ lost \in Nat /\ stall \in Nat
  BY CapIsNat DEF Fault, MIN, LoopTypeOK
<1>2. stall <= Allowance(lost)
  BY <1>1 DEF StallSincePoll, StallIsBounded
<1>3. PollPeriod * lost' = Allowance(lost) /\ Allowance(lost') = PollPeriod * lost' + PollPeriod
  BY <1>1, AllowanceGrows
<1>4. stall' <= PollPeriod * lost' /\ Allowance(lost) \in Nat
  BY <1>1, <1>2, <1>3, AllowanceGrows
<1> QED
  BY <1>1, <1>3, <1>4 DEF Explained, StallIsBounded

\* Every step keeps the stall within what the polls allow.
LEMMA StallStep == LoopIInv /\ StallSincePoll /\ [LoopNext]_loopVars => StallSincePoll'
<1> SUFFICES ASSUME LoopIInv, StallSincePoll, [LoopNext]_loopVars PROVE StallSincePoll'
  OBVIOUS
<1> USE SteerAssumption, LoopAssumption
<1>0. LoopTypeOK
  BY DEF LoopIInv
<1>1. ASSUME NEW want \in Demands, NEW driver \in DriverTorques, Compute(want, driver)
      PROVE  StallSincePoll'
  BY <1>1 DEF Compute, StallSincePoll, StallIsBounded, Explained, linkVars
<1>2. CASE Poll
  <2>1. /\ pc = "poll" /\ pc' = "send" /\ ctr' = ctr /\ stall' = stall /\ lost' = lost
        /\ mazda_mode'
    BY <1>2 DEF Poll
  <2>2. blocked_new \/ ~mazda_mode => apply_torque' = 0
    BY <1>2 DEF Poll, Resync, StartOver
  <2> QED
    BY <2>1, <2>2 DEF StallSincePoll, StallIsBounded, Explained
<1>3. CASE Send
  <2>1. pc = "send" /\ pc' = "compute"
    BY <1>3 DEF Send, NextFrame
  <2>2. CASE Rejected
    <3> SUFFICES ASSUME lost' < MAX_LOST
                 PROVE  /\ ctr' # 0 => stall' <= ctr' + PollPeriod * lost'
                        /\ StallIsBounded' /\ blocked_new'
      BY <2>1 DEF StallSincePoll
    <3>1. blocked_new' /\ stall' = MIN(stall + 1, STALL_CAP) /\ lost' = lost
      BY <1>3, <2>2 DEF Send
    <3> DEFINE e == PollPeriod * lost
    <3>2. lost \in Nat /\ e \in Nat /\ Allowance(lost) = e + PollPeriod
      BY <1>0, AllowanceGrows DEF LoopTypeOK
    <3>3. ctr = 0 => stall <= e
      <4> SUFFICES ASSUME ctr = 0, ~(stall <= e) PROVE FALSE
        OBVIOUS
      <4>1. Outgoing = 0 /\ mazda_mode
        BY <2>1, <3>1 DEF StallSincePoll, Explained, Outgoing
      <4> QED
        BY <1>0, <2>2, <4>1, ZeroPassesHere DEF Rejected, LoopTypeOK
    <3>4. /\ ctr' = (IF ctr + 1 = PollPeriod THEN 0 ELSE ctr + 1)
          /\ stall \in Nat /\ ctr \in Nat /\ ctr + 1 <= PollPeriod
      BY <1>0, <1>3, CapIsNat DEF Send, NextFrame, LoopTypeOK
    <3>5. stall <= ctr + e
      BY <3>1, <3>2, <3>3, <3>4 DEF StallSincePoll
    <3>6. stall' <= ctr + 1 + e /\ stall' \in Nat
      BY <3>1, <3>2, <3>4, <3>5, CapIsNat DEF MIN
    <3>7. ctr' # 0 => stall' <= ctr' + PollPeriod * lost'
      BY <3>1, <3>2, <3>4, <3>6
    <3>8. StallIsBounded'
      BY <3>1, <3>2, <3>4, <3>6 DEF StallIsBounded
    <3> QED
      BY <3>1, <3>7, <3>8
  <2>3. CASE ~Rejected
    <3>1. stall' = 0 /\ lost' = 0 /\ ctr' \in Nat
      BY <1>0, <1>3, <2>3 DEF Send, NextFrame, LoopTypeOK
    <3> DEFINE e == PollPeriod * lost'
    <3>2. e \in Nat /\ Allowance(lost') \in Nat
      BY <3>1, AllowanceGrows
    <3>3. stall' <= ctr' + e /\ stall' <= e
      <4>1. ASSUME NEW n \in Nat, NEW k \in Nat PROVE 0 <= n + k /\ 0 <= k
        OBVIOUS
      <4> QED
        BY <3>1, <3>2, <4>1
    <3>4. StallIsBounded'
      BY <3>1, <3>2 DEF StallIsBounded
    <3>5. Explained'
      BY <3>3 DEF Explained
    <3> QED
      BY <2>1, <3>3, <3>4, <3>5 DEF StallSincePoll
  <2> QED
    BY <2>2, <2>3
<1>4. ASSUME Fault, stall' = stall, pc' # "poll" \/ ctr' = 0, ctr' \in Nat
      PROVE  StallSincePoll'
  <2> SUFFICES ASSUME lost' < MAX_LOST
               PROVE  Explained' /\ StallIsBounded' /\ stall' <= ctr' + PollPeriod * lost'
    BY <1>4 DEF StallSincePoll
  <2>1. Explained' /\ StallIsBounded' /\ lost' = lost + 1
    BY <1>0, <1>4, FaultExplains
  <2>2. stall' \in Nat /\ lost' \in Nat
    BY <1>0, <1>4, <2>1, CapIsNat DEF LoopTypeOK
  <2>3. PollPeriod * lost' \in Nat
    BY <2>2, AllowanceGrows
  <2> QED
    BY <1>4, <2>1, <2>2, <2>3 DEF Explained
<1>5. CASE SendFails
  <2>1. ctr' \in Nat /\ pc' = "compute"
    BY <1>0, <1>5 DEF SendFails, NextFrame, LoopTypeOK
  <2> QED
    BY <1>4, <1>5, <2>1 DEF SendFails
<1>6. CASE PollFails
  BY <1>0, <1>4, <1>6 DEF PollFails, LoopTypeOK
<1>7. CASE BoardReset
  <2>1. UNCHANGED <<pc, ctr>> /\ Fault /\ stall' = stall
    BY <1>7 DEF BoardReset, hostVars
  <2>2. pc' # "poll" \/ ctr' = 0
    BY <2>1 DEF StallSincePoll
  <2> QED
    BY <1>0, <1>4, <2>1, <2>2 DEF LoopTypeOK
<1>8. CASE ReadHealth \/ StoreHealth \/ CarFrame \/ UNCHANGED loopVars
  <2>1. UNCHANGED <<pc, ctr, apply_torque, linkVars>>
    BY <1>8 DEF ReadHealth, StoreHealth, CarFrame, loopVars, hostVars
  <2> QED
    BY <2>1 DEF StallSincePoll, StallIsBounded, Explained, linkVars
<1>9. CASE OtherBlocked
  BY <1>9 DEF OtherBlocked, StallSincePoll, StallIsBounded, Explained, hostVars
<1> QED
  BY <1>1, <1>2, <1>3, <1>5, <1>6, <1>7, <1>8, <1>9 DEF LoopNext, TxThread

\* After any rejection at most one poll period of frames is rejected before one is
\* accepted, and one more for each fault in between (the resync of tx_thread).
THEOREM StallsAreBounded == LoopSpec => []StallIsBounded
<1>1. StallSincePoll => StallIsBounded
  BY DEF StallSincePoll, StallIsBounded
<1>2. LoopIInv /\ StallSincePoll /\ [LoopNext]_loopVars => StallSincePoll'
  BY StallStep
<1> QED
  BY <1>1, <1>2, LoopInitIInv, LoopInvariant, PTL DEF LoopSpec
=============================================================================
