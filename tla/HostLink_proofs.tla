-------------------------- MODULE HostLink_proofs --------------------------
(***************************************************************************)
(* Proofs about HostLink, for all windows, cooldowns, limits and gaps, and *)
(* for boards with and without an ignition line.                           *)
(***************************************************************************)
EXTENDS HostLink, TLAPS

\* What the board tells of the car, it has seen since it booted: a car that is
\* on, frames in the count of the silicon, and an ignition it remembers.
Remembered ==
  /\ car => seen
  /\ silicon.any => seen
  /\ ignition_can => seen

LinkInv == LinkTypeOK /\ Remembered

\* Counting a call keeps the type of a window.
LEMMA CountType ==
  ASSUME NEW w \in Windows, NEW full \in BOOLEAN
  PROVE  /\ Count(w, full) \in Windows
         /\ Count(w, full).any = (w.any \/ full)
BY DEF Count, Windows

\* A new window has counted nothing.
LEMMA NewWindowType == NewWindow \in Windows /\ ~NewWindow.any
BY DEF NewWindow, Windows

\* An age stays within one of its limit.
LEMMA AgeType ==
  ASSUME NEW limit \in Nat, NEW a \in 0 .. limit + 1, NEW g \in Nat \ {0}
  PROVE  Age(a, g, limit) \in 0 .. limit + 1
BY DEF Age

\* The count of frozen windows is bounded by the limit it is compared with.
LEMMA FrozenWindowsType ==
  ASSUME LinkTypeOK, NEW g, NEW a, NEW read, NEW v
  PROVE  FrozenWindows(g, a, read, v) \in 0 .. FROZEN_LIMIT
<1>1. FROZEN_LIMIT \in Nat /\ FROZEN_LIMIT > 0
  BY LinkAssumption
<1>2. frozen_windows \in 0 .. FROZEN_LIMIT
  BY DEF LinkTypeOK
<1>3. CASE ~Judged(g, a, read) \/ Wedged(g, a, read, v)
  BY <1>2, <1>3 DEF FrozenWindows
<1>4. CASE Judged(g, a, read) /\ ~Wedged(g, a, read, v)
  BY <1>1, <1>2, <1>4 DEF FrozenWindows
<1>5. QED
  BY <1>3, <1>4

\* The watchdogs reset only a board that has seen the car: a bad lock needs
\* frames now, a wedge frames in the window, a frozen core the ignition.
LEMMA ResetNeedsCar ==
  ASSUME LinkInv, NEW g, NEW a \in Amounts, NEW read,
         NEW v \in Verdicts(g, a, Count(silicon, Busy)),
         ResetBy(g, a, read, v) # "none"
  PROVE  seen
<1>1. CASE LockResets(a)
  <2>1. a = "full"
    BY <1>1 DEF LockResets, BadLock
  <2>2. Busy
    BY <2>1 DEF Amounts
  <2>3. QED
    BY <2>2 DEF Busy, LinkInv, Remembered
<1>2. CASE WedgeResets(g, a, read, v)
  <2>1. WindowEnds(g) /\ v.silicon
    BY <1>2 DEF WedgeResets, Wedged, Judged
  <2>2. (~v.silicon) \in Low(Count(silicon, Busy))
    BY <2>1 DEF Verdicts
  <2>3. v.silicon \in BOOLEAN
    BY DEF Verdicts
  <2>4. Count(silicon, Busy).any
    BY <2>1, <2>2, <2>3 DEF Low
  <2>5. silicon.any \/ Busy
    BY <2>4 DEF Count
  <2>6. QED
    BY <2>5 DEF Busy, LinkInv, Remembered
<1>3. CASE FrozenResets(g, a, read, v)
  BY <1>3 DEF FrozenResets, NoTraffic, ignition_on, LinkInv, Remembered
<1>4. QED
  BY <1>1, <1>2, <1>3 DEF ResetBy

\* The invariant holds after the first call.
LEMMA LinkInitInv == Init => LinkInv
<1> SUFFICES ASSUME Init
             PROVE  LinkInv
  OBVIOUS
<1>1. /\ lock_bad \in 0 .. LOCK_LIMIT - 1 /\ window \in 0 .. WINDOW - 1
      /\ soft_age \in 0 .. SOFT_COOLDOWN + 1 /\ board_age \in 0 .. BOARD_COOLDOWN + 1
      /\ frozen_windows \in 0 .. FROZEN_LIMIT /\ frame_age \in 0 .. STALL + 1
      /\ faults \in 0 .. MAX_FAULTS
  BY LinkAssumption DEF Init
<1>2. LinkTypeOK
  BY <1>1, NewWindowType, Zenon DEF Init, LinkTypeOK
<1>3. Remembered
  BY NewWindowType DEF Init, Remembered
<1>4. QED
  BY <1>2, <1>3 DEF LinkInv

\* The car, the board and the link keep the invariant.
LEMMA WorldKeepsInv == LinkInv /\ World => LinkInv'
<1> SUFFICES ASSUME LinkInv, World
             PROVE  LinkInv'
  OBVIOUS
<1>1. UNCHANGED hostVars /\ reset_by' = "none"
  BY DEF World, CarStarts, CarStops, CoreFreezes, IgnitionSeen, LinkFails, LockSlips
<1>2. /\ car' \in BOOLEAN /\ ignition_can' \in BOOLEAN /\ seen' \in BOOLEAN
      /\ link' \in {"ok", "clogged", "wedged"} /\ lock' \in {"right", "wrong"}
      /\ core' \in {"running", "init"}
  BY DEF World, CarStarts, CarStops, CoreFreezes, IgnitionSeen, LinkFails, LockSlips,
         LinkInv, LinkTypeOK, Busy
<1>3. LinkTypeOK'
  BY <1>1, <1>2, Zenon DEF LinkInv, LinkTypeOK, hostVars
<1>4. Remembered'
  <2>1. silicon' = silicon
    BY <1>1 DEF hostVars
  <2>2. (car' => seen') /\ (seen => seen')
    BY DEF World, CarStarts, CarStops, CoreFreezes, IgnitionSeen, LinkFails, LockSlips,
           LinkInv, Remembered
  <2>3. ignition_can' => ignition_can \/ car
    BY DEF World, CarStarts, CarStops, CoreFreezes, IgnitionSeen, LinkFails, LockSlips, Busy
  <2>4. QED
    BY <2>1, <2>2, <2>3 DEF LinkInv, Remembered
<1>5. QED
  BY <1>3, <1>4 DEF LinkInv

\* A call keeps the invariant: it forgets what the board forgets.
LEMMA RecvKeepsInv == LinkInv /\ Recv => LinkInv'
<1> SUFFICES ASSUME LinkInv, NEW g \in Gaps, NEW a \in Amounts, NEW read \in BOOLEAN,
                    read \/ (WindowEnds(g) /\ faults < MAX_FAULTS),
                    recv_resync(g, a, read)
             PROVE  LinkInv'
  BY DEF Recv
<1> DEFINE sil == Count(silicon, Busy)
<1>1. PICK v \in Verdicts(g, a, sil) :
        /\ reset_by' = ResetBy(g, a, read, v)
        /\ soft_age' = IF RateResets(g, v.rate) THEN 0 ELSE Age(soft_age, g, SOFT_COOLDOWN)
        /\ board_age' = IF reset_by' \in {"wedge", "frozen"} THEN 0
                        ELSE Age(board_age, g, BOARD_COOLDOWN)
        /\ hw_last' \in HwLast(g, read, reset_by')
        /\ frozen_windows' = IF reset_by' = "frozen" THEN 0 ELSE FrozenWindows(g, a, read, v)
        /\ silicon' = IF WindowEnds(g) \/ reset_by' # "none" THEN NewWindow ELSE sil
        /\ Recover(reset_by', RateResets(g, v.rate) \/ StallResets(g, a), BadLock(a))
  BY DEF recv_resync
<1>2. /\ g \in Nat \ {0}
      /\ WINDOW \in Nat \ {0} /\ STALL \in Nat \ {0} /\ LOCK_LIMIT \in Nat \ {0}
      /\ SOFT_COOLDOWN \in Nat \ {0} /\ BOARD_COOLDOWN \in Nat \ {0}
      /\ FROZEN_LIMIT \in Nat \ {0} /\ MAX_FAULTS \in Nat
  BY LinkAssumption
<1>3. LinkTypeOK /\ Remembered
  BY DEF LinkInv
<1>4. sil \in Windows /\ (sil.any => seen)
  <2>1. Busy \in BOOLEAN /\ (Busy => seen)
    BY <1>3 DEF Busy, LinkTypeOK, Remembered
  <2>2. silicon \in Windows
    BY <1>3 DEF LinkTypeOK
  <2>3. QED
    BY <2>1, <2>2, <1>3, CountType DEF Remembered
<1>5. lock_bad' \in 0 .. LOCK_LIMIT - 1
  <2>1. lock_bad \in 0 .. LOCK_LIMIT - 1
    BY <1>3 DEF LinkTypeOK
  <2>2. lock_bad' = LockBad(a)
    BY DEF recv_resync
  <2>3. QED
    BY <1>2, <2>1, <2>2 DEF LockBad, LockResets
<1>6. window' \in 0 .. WINDOW - 1
  <2>1. window \in 0 .. WINDOW - 1
    BY <1>3 DEF LinkTypeOK
  <2>2. window' = IF WindowEnds(g) THEN 0 ELSE window + g
    BY DEF recv_resync
  <2>3. QED
    BY <1>2, <2>1, <2>2 DEF WindowEnds
<1>7. soft_age' \in 0 .. SOFT_COOLDOWN + 1 /\ board_age' \in 0 .. BOARD_COOLDOWN + 1
  <2>1. soft_age \in 0 .. SOFT_COOLDOWN + 1 /\ board_age \in 0 .. BOARD_COOLDOWN + 1
    BY <1>3 DEF LinkTypeOK
  <2>2. /\ Age(soft_age, g, SOFT_COOLDOWN) \in 0 .. SOFT_COOLDOWN + 1
        /\ Age(board_age, g, BOARD_COOLDOWN) \in 0 .. BOARD_COOLDOWN + 1
    BY <1>2, <2>1, AgeType
  <2>3. 0 \in 0 .. SOFT_COOLDOWN + 1 /\ 0 \in 0 .. BOARD_COOLDOWN + 1
    BY <1>2
  <2>4. QED
    BY <1>1, <2>2, <2>3, Zenon
<1>8. win' \in Windows /\ hw' \in Windows /\ silicon' \in Windows
  <2>1. win \in Windows /\ hw \in Windows /\ (a = "full") \in BOOLEAN
    BY <1>3 DEF LinkTypeOK
  <2>2. win' \in Windows
    <3>1. win' = IF WindowEnds(g) THEN NewWindow ELSE Count(win, a = "full")
      BY Zenon DEF recv_resync
    <3>2. QED
      BY <2>1, <3>1, CountType, NewWindowType, Zenon
  <2>3. hw' \in Windows
    <3>1. hw' = Count(IF WindowEnds(g) \/ LockResets(a) THEN NewWindow ELSE hw, a = "full")
      BY Zenon DEF recv_resync
    <3>2. (IF WindowEnds(g) \/ LockResets(a) THEN NewWindow ELSE hw) \in Windows
      BY <2>1, NewWindowType, Zenon
    <3>3. QED
      BY <2>1, <3>1, <3>2, CountType, Zenon
  <2>4. silicon' \in Windows
    BY <1>1, <1>4, NewWindowType, Zenon
  <2>5. QED
    BY <2>2, <2>3, <2>4
<1>9. hw_last' \in {"none", "set", "stale"}
  <2>1. hw_last \in {"none", "set", "stale"} /\ hw_last' \in HwLast(g, read, reset_by')
    BY <1>1, <1>3 DEF LinkTypeOK
  <2>2. QED
    BY <2>1 DEF HwLast
<1>10. frozen_windows' \in 0 .. FROZEN_LIMIT
  <2>1. FrozenWindows(g, a, read, v) \in 0 .. FROZEN_LIMIT
    BY <1>3, FrozenWindowsType
  <2>2. 0 \in 0 .. FROZEN_LIMIT
    BY <1>2
  <2>3. QED
    BY <1>1, <2>1, <2>2, Zenon
<1>11. frame_age' \in 0 .. STALL + 1 /\ framed' \in BOOLEAN /\ armed' \in BOOLEAN
  <2>1. frame_age \in 0 .. STALL + 1 /\ framed \in BOOLEAN /\ armed \in BOOLEAN
    BY <1>3 DEF LinkTypeOK
  <2>2. Age(frame_age, g, STALL) \in 0 .. STALL + 1 /\ 0 \in 0 .. STALL + 1
    <3>1. STALL \in Nat /\ frame_age \in 0 .. STALL + 1 /\ g \in Nat \ {0}
      BY <1>2, <2>1
    <3>2. Age(frame_age, g, STALL) \in 0 .. STALL + 1
      BY <3>1, AgeType
    <3>3. QED
      BY <3>1, <3>2
  <2>3. frame_age' = IF a # "none" \/ StallResets(g, a) \/ ~framed THEN 0
                     ELSE Age(frame_age, g, STALL)
    BY Zenon DEF recv_resync
  <2>4. framed' \in BOOLEAN /\ armed' \in BOOLEAN
    BY <2>1, Zenon DEF recv_resync
  <2>5. QED
    BY <2>2, <2>3, <2>4, Zenon
<1>12. faults' \in 0 .. MAX_FAULTS
  <2>1. faults \in 0 .. MAX_FAULTS
    BY <1>3 DEF LinkTypeOK
  <2>2. faults' = IF WindowEnds(g) /\ ~read THEN faults + 1 ELSE faults
    BY Zenon DEF recv_resync
  <2>3. QED
    BY <1>2, <2>1, <2>2
<1>13. reset_by' \in {"none", "lock", "wedge", "frozen"}
  BY <1>1 DEF ResetBy
<1>14. /\ open' \in BOOLEAN /\ car' = car /\ ignition_can' \in BOOLEAN /\ seen' \in BOOLEAN
       /\ link' \in {"ok", "clogged", "wedged"} /\ lock' \in {"right", "wrong"}
       /\ core' \in {"running", "init"}
  BY <1>1, <1>3 DEF Recover, board_reset, soft_reset, LinkTypeOK
<1>15. LinkTypeOK'
  BY <1>3, <1>5, <1>6, <1>7, <1>8, <1>9, <1>10, <1>11, <1>12, <1>13, <1>14, Zenon
     DEF LinkTypeOK
<1>16. Remembered'
  <2>1. CASE reset_by' # "none"
    <3>1. seen' = car /\ car' = car /\ ignition_can' = FALSE
      BY <1>1, <2>1 DEF Recover, board_reset
    <3>2. silicon' = NewWindow
      BY <1>1, <2>1
    <3>3. QED
      BY <3>1, <3>2, NewWindowType DEF Remembered
  <2>2. CASE reset_by' = "none"
    <3>1. seen' = seen /\ car' = car /\ ignition_can' = ignition_can
      BY <1>1, <2>2 DEF Recover, soft_reset
    <3>2. silicon' = NewWindow \/ silicon' = sil
      BY <1>1, Zenon
    <3>3. QED
      BY <1>3, <1>4, <3>1, <3>2, NewWindowType DEF Remembered
  <2>3. QED
    BY <2>1, <2>2
<1>17. QED
  BY <1>15, <1>16 DEF LinkInv

\* Every step keeps the invariant.
LEMMA LinkStepInv == LinkInv /\ [Next]_vars => LinkInv'
<1>1. LinkInv /\ UNCHANGED vars => LinkInv'
  <2> SUFFICES ASSUME LinkInv, UNCHANGED vars
               PROVE  LinkInv'
    OBVIOUS
  <2>1. UNCHANGED hostVars /\ UNCHANGED worldVars /\ reset_by' = reset_by
    BY DEF vars
  <2>2. LinkTypeOK'
    <3>1. /\ car' \in BOOLEAN /\ ignition_can' \in BOOLEAN /\ seen' \in BOOLEAN
          /\ link' \in {"ok", "clogged", "wedged"} /\ lock' \in {"right", "wrong"}
          /\ core' \in {"running", "init"}
          /\ reset_by' \in {"none", "lock", "wedge", "frozen"}
      BY <2>1 DEF worldVars, LinkInv, LinkTypeOK
    <3>2. QED
      BY <2>1, <3>1, Zenon DEF LinkInv, LinkTypeOK, hostVars
  <2>3. Remembered'
    BY <2>1, Zenon DEF LinkInv, Remembered, hostVars, worldVars
  <2>4. QED
    BY <2>2, <2>3 DEF LinkInv
<1>2. QED
  BY <1>1, WorldKeepsInv, RecvKeepsInv DEF Next

\* LinkInv holds throughout.
LEMMA LinkInvariance == LinkSpec => []LinkInv
<1>1. QED
  BY LinkInitInv, LinkStepInv, PTL DEF LinkSpec

\* The state of UsbPanda's watchdogs stays in range, for all limits: LinkTypeOK.
THEOREM LinkTypeCorrect == LinkSpec => []LinkTypeOK
<1>1. LinkInv => LinkTypeOK
  BY DEF LinkInv
<1>2. QED
  BY <1>1, LinkInvariance, PTL

\* No watchdog of _recv_resync resets a board twice unless the car was on in
\* between, for all windows and cooldowns and with or without an ignition line.
THEOREM ParkedCarsAreLeftAlone == LinkSpec => ParkedCarIsLeftAlone
<1>1. LinkInv /\ [Next]_vars => [reset_by' # "none" => seen]_vars
  <2> SUFFICES ASSUME LinkInv, Next, reset_by' # "none"
               PROVE  seen
    BY DEF vars
  <2>1. CASE World
    BY <2>1 DEF World
  <2>2. CASE Recv
    <3>1. PICK g \in Gaps, a \in Amounts, read \in BOOLEAN : recv_resync(g, a, read)
      BY <2>2 DEF Recv
    <3>2. PICK v \in Verdicts(g, a, Count(silicon, Busy)) :
             reset_by' = ResetBy(g, a, read, v)
      BY <3>1 DEF recv_resync
    <3>3. QED
      BY <3>2, ResetNeedsCar
  <2>3. QED
    BY <2>1, <2>2 DEF Next
<1>2. QED
  BY <1>1, LinkInvariance, PTL DEF LinkSpec, ParkedCarIsLeftAlone

============================================================================
