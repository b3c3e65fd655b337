------------------------------ MODULE HostLink ------------------------------
(***************************************************************************)
(* The USB link as UsbPanda sees it (src/control/usb_panda.py): one call of *)
(* _recv_resync after the other, and the four watchdogs it runs after the   *)
(* frames are parsed: wrong lock, rate collapse, silicon against host, and  *)
(* stall.  Two of them reset the board.                                     *)
(*                                                                          *)
(* Rates are abstracted to what the thresholds tell apart.  A call returns  *)
(* no frames, a trickle, or what the bus carries; a window is low when none *)
(* of its calls was full, high when all were, and a mixed window may be     *)
(* judged either way.  A call of the model stands for the calls of a second *)
(* or more, the window of the wrong-lock test.  What is wrong with the link *)
(* or with the board, and what cures it, is external: it is what the        *)
(* comments of the code report.                                             *)
(***************************************************************************)
EXTENDS Naturals

CONSTANTS
  Gaps,            (* time that may pass between two calls, in seconds        *)
  WINDOW,          (* 5.0: of the rate and of the silicon watchdog           *)
  STALL,           (* 3.0                                                    *)
  SOFT_COOLDOWN,   (* 10.0                                                   *)
  BOARD_COOLDOWN,  (* 15.0                                                   *)
  LOCK_LIMIT,      (* 3: bad lock windows in a row                           *)
  FROZEN_LIMIT,    (* 2: windows without a frame                             *)
  IGNITION_LINE,   (* does the board sense the ignition on the harness?      *)
  MAX_FAULTS       (* bound: health reads that fail                          *)

ASSUME LinkAssumption ==
  /\ Gaps \subseteq Nat \ {0}
  /\ {WINDOW, STALL, SOFT_COOLDOWN, BOARD_COOLDOWN, LOCK_LIMIT, FROZEN_LIMIT} \subseteq Nat \ {0}
  /\ IGNITION_LINE \in BOOLEAN
  /\ MAX_FAULTS \in Nat

VARIABLES
  open,            (* self.p is a handle that works                          *)
  lock_bad,
  armed,           (* _peak_rate is that of a real bus                       *)
  window,          (* since _win_t0 and _hw_check_t, which move together     *)
  soft_age,        (* since _last_soft_reset_t and _last_board_reset_t, each *)
  board_age,       (* up to one past its cooldown                            *)
  win, hw,         (* _win_n and _hw_n: was some call full, was every call   *)
  silicon,         (* total_rx_cnt since the last check, likewise            *)
  hw_last,         (* "none", "set", or "stale": of before the board reset   *)
  frozen_windows,  (* up to FROZEN_LIMIT                                     *)
  frame_age,       (* since _last_frame_t, up to one past STALL              *)
  framed,          (* _last_frame_t is set                                   *)
  link,            (* "ok", "clogged" or "wedged"                            *)
  lock,            (* is the parser on a frame boundary: "right" or "wrong"  *)
  core,            (* CAN1: "running", or stuck in "init"                    *)
  car,             (* the engine runs and the bus is busy                    *)
  ignition_can,    (* of the board                                           *)
  faults,
  seen,            (* history: the car was on since the board booted         *)
  reset_by         (* history: which watchdog reset the board in this step   *)

hostVars == <<open, lock_bad, armed, window, soft_age, board_age, win, hw, silicon,
              hw_last, frozen_windows, frame_age, framed, faults>>
worldVars == <<link, lock, core, car, ignition_can, seen>>
vars == <<hostVars, worldVars, reset_by>>

----------------------------------------------------------------------------
Busy == car /\ core = "running"

\* What a call brings back: a wrong lock finds frames as often as the right one.
Amounts ==
  IF ~Busy THEN {"none"} ELSE IF link = "ok" THEN {"full"} ELSE {"none", "trickle"}

NewWindow == [any |-> FALSE, all |-> TRUE]
Count(w, full) == [any |-> w.any \/ full, all |-> w.all /\ full]

\* How the window may be judged: is its rate low?
Low(w) == IF ~w.any THEN {TRUE} ELSE IF w.all THEN {FALSE} ELSE BOOLEAN

Age(a, g, limit) == IF a + g > limit THEN limit + 1 ELSE a + g

----------------------------------------------------------------------------
(* The watchdogs, on a call g seconds after the last that returned amount a. *)

BadLock(a) == lock = "wrong" /\ a = "full"

LockResets(a) == BadLock(a) /\ lock_bad + 1 >= LOCK_LIMIT

\* Mutant of LockBad: the count starts over with every buffer that is dropped.
LockBad_Forgotten(a) == 0

LockBad(a) == IF BadLock(a) /\ ~LockResets(a) THEN lock_bad + 1 ELSE 0

WindowEnds(g) == window + g >= WINDOW

SoftCooled(g) == soft_age + g > SOFT_COOLDOWN

\* The rate has collapsed; low is the judgement of the window.
RateResets(g, low) == WindowEnds(g) /\ armed /\ low /\ SoftCooled(g)

\* Mutant of BoardCooled: both recoveries stamp and test one time.
BoardCooled_Shared(g, soft) == board_age + g > BOARD_COOLDOWN /\ soft_age + g > BOARD_COOLDOWN /\ ~soft

\* Its own cooldown, whatever the soft reset of this call did.
BoardCooled(g, soft) == board_age + g > BOARD_COOLDOWN

\* _ignition_on
ignition_on == (IGNITION_LINE /\ car) \/ ignition_can

\* The health record was read, and there is a count to compare it with.
Judged(g, a, read) == WindowEnds(g) /\ read /\ hw_last # "none" /\ ~LockResets(a)

\* Frames exist and do not cross the link: v are the judgements of the windows.
\* Against a count of before a reset the difference is negative.
Wedged(g, a, read, v) == Judged(g, a, read) /\ hw_last = "set" /\ v.silicon /\ v.host

\* Mutant of NoTraffic: a parked car is taken for a core that is stuck.
NoTraffic_Parked(g, a, read) == Judged(g, a, read) /\ hw_last = "set" /\ ~silicon.any

\* The core does not count although the car is awake.
NoTraffic(g, a, read) ==
  Judged(g, a, read) /\ hw_last = "set" /\ ~silicon.any /\ ignition_on

\* Mutant of FrozenWindows: one window is never enough to remember.
FrozenWindows_Forgotten(g, a, read, v) == 0

FrozenWindows(g, a, read, v) ==
  CASE ~Judged(g, a, read) \/ Wedged(g, a, read, v) -> frozen_windows
    [] Judged(g, a, read) /\ ~Wedged(g, a, read, v) ->
         IF ~NoTraffic(g, a, read) THEN 0
         ELSE IF frozen_windows < FROZEN_LIMIT THEN frozen_windows + 1 ELSE FROZEN_LIMIT

WedgeResets(g, a, read, v) ==
  Wedged(g, a, read, v) /\ BoardCooled(g, RateResets(g, v.rate))

FrozenResets(g, a, read, v) ==
  /\ ~Wedged(g, a, read, v) /\ NoTraffic(g, a, read)
  /\ FrozenWindows(g, a, read, v) >= FROZEN_LIMIT
  /\ BoardCooled(g, RateResets(g, v.rate))

\* Nothing at all has arrived for a while.
StallResets(g, a) == a = "none" /\ framed /\ frame_age + g > STALL

\* The verdicts that the windows allow, where a window ends with this call.
Verdicts(g, a, s) ==
  {v \in [rate : BOOLEAN, host : BOOLEAN, silicon : BOOLEAN] :
     IF WindowEnds(g)
     THEN /\ v.rate \in Low(Count(win, a = "full"))
          /\ v.host \in Low(hw)
          /\ (~v.silicon) \in Low(s)
     ELSE ~v.rate /\ ~v.host /\ ~v.silicon}

----------------------------------------------------------------------------
(* _board_reset: 0xd8, and a new handle if there is a board to open.        *)

board_reset ==
  /\ open' \in BOOLEAN
  /\ link' = "ok" /\ lock' = "right"
  /\ core' = IF car THEN "running" ELSE "init"
  /\ ignition_can' = FALSE
  /\ seen' = car
  /\ UNCHANGED car

\* The buffer is dropped, here or with can_reset_communications, which also clears
\* what the firmware has half sent: the parser may find the boundary again.
soft_reset(comms) ==
  /\ link' = IF comms /\ link = "clogged" THEN "ok" ELSE link
  /\ lock' \in {"right", lock}
  /\ UNCHANGED <<open, core, car, ignition_can, seen>>

ResetBy(g, a, read, v) ==
  CASE LockResets(a) -> "lock"
    [] WedgeResets(g, a, read, v) -> "wedge"
    [] FrozenResets(g, a, read, v) -> "frozen"
    [] OTHER -> "none"

\* What the call does to the link and the board.
Recover(by, comms, dropped) ==
  IF by # "none" THEN board_reset
  ELSE IF comms \/ dropped THEN soft_reset(comms)
  ELSE UNCHANGED <<open, link, lock, core, car, ignition_can, seen>>

\* The count of the silicon that the next check compares with.  _board_reset clears
\* it, and the check that called _board_reset stores the old one again, which the
\* rebooted board may have passed by then.
HwLast(g, read, by) ==
  CASE by = "lock" -> {IF WindowEnds(g) /\ read THEN "set" ELSE "none"}
    [] by # "lock" /\ ~WindowEnds(g) -> {hw_last}
    [] OTHER -> IF ~read THEN {"none"} ELSE IF by = "none" THEN {"set"} ELSE {"set", "stale"}

\* One call, up to its return.
recv_resync(g, a, read) ==
  LET full == a = "full"
      sil  == Count(silicon, Busy)
      ends == WindowEnds(g)
  IN  /\ open
      /\ window' = IF ends THEN 0 ELSE window + g
      /\ win' = IF ends THEN NewWindow ELSE Count(win, full)
      /\ hw' = Count(IF ends \/ LockResets(a) THEN NewWindow ELSE hw, full)
      /\ framed' = (framed \/ a # "none")
      /\ frame_age' = IF a # "none" \/ StallResets(g, a) \/ ~framed THEN 0
                      ELSE Age(frame_age, g, STALL)
      /\ faults' = IF ends /\ ~read THEN faults + 1 ELSE faults
      /\ armed' = (armed \/ (ends /\ Count(win, full).any))
      /\ lock_bad' = LockBad(a)
      /\ \E v \in Verdicts(g, a, sil) :
           /\ reset_by' = ResetBy(g, a, read, v)
           /\ soft_age' = IF RateResets(g, v.rate) THEN 0 ELSE Age(soft_age, g, SOFT_COOLDOWN)
           /\ board_age' = IF reset_by' \in {"wedge", "frozen"} THEN 0
                           ELSE Age(board_age, g, BOARD_COOLDOWN)
           /\ hw_last' \in HwLast(g, read, reset_by')
           /\ frozen_windows' = IF reset_by' = "frozen" THEN 0 ELSE FrozenWindows(g, a, read, v)
           /\ silicon' = IF ends \/ reset_by' # "none" THEN NewWindow ELSE sil
           /\ Recover(reset_by', RateResets(g, v.rate) \/ StallResets(g, a), BadLock(a))

Recv ==
  \E g \in Gaps, a \in Amounts, read \in BOOLEAN :
    /\ read \/ (WindowEnds(g) /\ faults < MAX_FAULTS)
    /\ recv_resync(g, a, read)

----------------------------------------------------------------------------
(* The car, the board and the link: external.                               *)

CarStarts ==
  /\ ~car /\ car' = TRUE /\ seen' = TRUE
  /\ UNCHANGED <<hostVars, link, lock, core, ignition_can>>

CarStops ==
  /\ car /\ car' = FALSE
  /\ UNCHANGED <<hostVars, link, lock, core, ignition_can, seen>>

\* The controller is initialised on a bus that is asleep, and does not come back.
CoreFreezes ==
  /\ ~car /\ core = "running" /\ core' = "init"
  /\ UNCHANGED <<hostVars, link, lock, car, ignition_can, seen>>

\* ENGINE_DATA arrives, or the last one is too old (where the tick is clocked) or
\* says that the engine stands.
IgnitionSeen ==
  /\ ignition_can # Busy /\ ignition_can' = Busy
  /\ UNCHANGED <<hostVars, link, lock, core, car, seen>>

LinkFails ==
  /\ Busy /\ link = "ok"
  /\ link' \in {"clogged", "wedged"}
  /\ UNCHANGED <<hostVars, lock, core, car, ignition_can, seen>>

LockSlips ==
  /\ Busy /\ lock = "right" /\ lock' = "wrong"
  /\ UNCHANGED <<hostVars, link, core, car, ignition_can, seen>>

World ==
  /\ CarStarts \/ CarStops \/ CoreFreezes \/ IgnitionSeen \/ LinkFails \/ LockSlips
  /\ reset_by' = "none"

\* After the first call, which opens the windows and takes the first count.
Init ==
  /\ open = TRUE
  /\ lock_bad = 0 /\ armed = FALSE /\ window = 0
  /\ soft_age = SOFT_COOLDOWN + 1 /\ board_age = BOARD_COOLDOWN + 1
  /\ win = NewWindow /\ hw = NewWindow /\ silicon = NewWindow
  /\ hw_last \in {"none", "set"} /\ frozen_windows = 0
  /\ frame_age = 0 /\ framed = FALSE /\ faults = 0
  /\ link = "ok" /\ lock = "right"
  /\ car \in BOOLEAN /\ core \in {"running", "init"} /\ (core = "init" => ~car)
  /\ ignition_can = FALSE /\ seen = car
  /\ reset_by = "none"

Next == Recv \/ World

LinkSpec == Init /\ [][Next]_vars

\* can_thread calls again and again for as long as the process runs.
FairLinkSpec == LinkSpec /\ WF_vars(Recv)

----------------------------------------------------------------------------
(* Properties.                                                              *)

Windows == [any : BOOLEAN, all : BOOLEAN]

\* The type of the link's state.
LinkTypeOK ==
  /\ open \in BOOLEAN /\ armed \in BOOLEAN /\ framed \in BOOLEAN
  /\ car \in BOOLEAN /\ ignition_can \in BOOLEAN /\ seen \in BOOLEAN
  /\ lock_bad \in 0..LOCK_LIMIT - 1
  /\ window \in 0..WINDOW - 1
  /\ soft_age \in 0..SOFT_COOLDOWN + 1 /\ board_age \in 0..BOARD_COOLDOWN + 1
  /\ win \in Windows /\ hw \in Windows /\ silicon \in Windows
  /\ hw_last \in {"none", "set", "stale"}
  /\ frozen_windows \in 0..FROZEN_LIMIT
  /\ frame_age \in 0..STALL + 1
  /\ link \in {"ok", "clogged", "wedged"} /\ lock \in {"right", "wrong"}
  /\ core \in {"running", "init"}
  /\ faults \in 0..MAX_FAULTS
  /\ reset_by \in {"none", "lock", "wedge", "frozen"}

\* A car that is simply switched off is left alone: between two resets of the
\* board the car was awake, so no watchdog resets a parked car in a loop, with
\* counts of before the reset or an ignition that the board still remembers.
ParkedCarIsLeftAlone == [][reset_by' # "none" => seen]_vars

Starved == Busy /\ link # "ok"

\* Frames that the controller receives and the host does not get are noticed and
\* cured, a trickle as well as silence: the recovery that cannot help never keeps
\* the one that does from running.
StarvationEnds == Starved ~> (~Starved \/ ~open)

WronglyLocked == Busy /\ link = "ok" /\ lock = "wrong"

\* A parser on the wrong byte boundary, which is fast and decodes garbage, finds
\* the right one or has the board reset.
WrongLockEnds == WronglyLocked ~> (~WronglyLocked \/ ~open)

Frozen == car /\ core = "init"

\* A controller that missed the start of the car is reset, for as long as the board
\* reports the ignition.  On a board without the line (PANDA_NUCLEO) that is an
\* ignition remembered from before: ignition_can comes through that controller, and
\* once it is cleared nothing asks for the reset any more.
FrozenCoreIsReset == (Frozen /\ ignition_on) ~> (~Frozen \/ ~ignition_on \/ ~open)

============================================================================
