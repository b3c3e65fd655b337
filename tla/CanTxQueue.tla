------------------------------ MODULE CanTxQueue ------------------------------
(***************************************************************************)
(* The transmit path of the board: the rings and can_send of               *)
(* drivers/can_common.h, process_can, can_sce and can_init of              *)
(* drivers/bxcan.h, the flow control of the USB endpoint (can_comms.h,     *)
(* drivers/usb.h) and the requests that clear rings (main.c, main_comms.h).*)
(*                                                                         *)
(* Two boards.  On the F407 host requests arrive in the USB interrupt,     *)
(* which has the priority of the CAN interrupts: no handler preempts       *)
(* another.  On the F446 they are served in the main loop, and a CAN       *)
(* interrupt may run between any two critical sections of can_send and of  *)
(* can_init_all.  Each level has a program counter; the main level moves   *)
(* only while no handler is active.                                        *)
(*                                                                         *)
(* Buses 0 and 2 are the ones with a controller; nothing is ever put in    *)
(* the ring of bus 1.  The receive ring (frames for the host, echoes and   *)
(* rejections) is left out: no transmit step reads it.                     *)
(***************************************************************************)
EXTENDS Integers, Sequences

CONSTANTS
  HostFrames,  (* what the host hands over, on bus 0                         *)
  CamFrames,   (* and on bus 2, where the tx table of mazda.h lets it        *)
  FwdFrames,   (* what can_rx forwards: can_set_checksum makes these good    *)
  BadFrames,   (* frames of the host whose checksum does not match           *)
  NoFrame,
  FIFO_SIZE,   (* CAN_TX_BUFFER_SIZE                                         *)
  MIN_SLOTS,   (* MAX_CAN_MSGS_PER_USB_BULK_TRANSFER                         *)
  Boards       (* a subset of {"F407", "F446"}                               *)

Frames == HostFrames \cup CamFrames \cup FwdFrames

ASSUME TxAssumption ==
  /\ FIFO_SIZE \in Nat /\ FIFO_SIZE >= 2
  /\ MIN_SLOTS \in 1..(FIFO_SIZE - 1)
  /\ BadFrames \subseteq HostFrames \cup CamFrames
  /\ BadFrames \cap FwdFrames = {}
  /\ NoFrame \notin Frames
  /\ Boards \subseteq {"F407", "F446"}

Buses  == {0, 2}
HostTx(b) == IF b = 0 THEN HostFrames ELSE CamFrames
Levels == {"isr", "main"}

VARIABLES
  board,              (* which of the Boards this is; never changes          *)
  elems, w_ptr, r_ptr,(* the ring of each bus                                *)
  tx_frame,           (* mailbox 0: NoFrame when TME0 is set                 *)
  tx_irq,             (* the transmit interrupt is pending in the NVIC       *)
  pc,                 (* per level: "idle", or the next step of its handler  *)
  ep3,                (* OUT endpoint 3: open, processing a transfer, or nak *)
  batch,              (* frames left in the transfer being processed         *)
  stale,              (* history: the oldest frames of a ring that were      *)
                      (* accepted before the last mode change                *)
  halted,             (* history: the last frame popped had a bad checksum   *)
  shared,             (* history: the buses that a frame was forwarded to    *)
                      (* since the endpoint was opened; empty while it NAKs, *)
                      (* and on the F446, whose transfers are not modelled   *)
  lost_alone          (* history: a frame of the host found the ring full    *)
                      (* although nothing was forwarded to its bus           *)

ringVars == <<elems, w_ptr, r_ptr>>
usbVars  == <<ep3, batch, shared>>
txVars   == <<board, ringVars, tx_frame, tx_irq, pc, usbVars, stale, halted,
              lost_alone>>

-------------------------------------------------------------------------------
(* The ring.  A slot that holds no waiting frame is NoFrame in the model: the *)
(* code leaves the old bytes there, and no step reads them.                  *)

EmptyRing == [i \in 0..(FIFO_SIZE - 1) |-> NoFrame]

Advance(p) == IF p + 1 = FIFO_SIZE THEN 0 ELSE p + 1

can_slots_empty(w, r) ==
  IF w >= r THEN FIFO_SIZE - 1 - w + r ELSE r - w - 1

\* Frames between the two pointers, and the slot of the i-th of them, the oldest
\* being number 1.
Count(w, r) == IF w >= r THEN w - r ELSE FIFO_SIZE - r + w
Slot(r, i)  == IF r + i - 1 < FIFO_SIZE THEN r + i - 1 ELSE r + i - 1 - FIFO_SIZE

\* What a ring holds, oldest first.
Waiting(e, w, r) == [i \in 1..Count(w, r) |-> e[Slot(r, i)]]
Contents(b) == Waiting(elems[b], w_ptr[b], r_ptr[b])

Full(b) == Advance(w_ptr[b]) = r_ptr[b]

\* Mutant of can_push: the pointer moves before the frame is stored.
can_push_Swapped(b, f) ==
  IF Full(b)
  THEN UNCHANGED <<elems, w_ptr>>
  ELSE /\ w_ptr' = [w_ptr EXCEPT ![b] = Advance(@)]
       /\ elems' = [elems EXCEPT ![b][w_ptr'[b]] = f]

can_push(b, f) ==
  IF Full(b)
  THEN UNCHANGED <<elems, w_ptr>>
  ELSE /\ elems' = [elems EXCEPT ![b][w_ptr[b]] = f]
       /\ w_ptr' = [w_ptr EXCEPT ![b] = Advance(@)]

\* refresh_can_tx_slots_available with the pointers w and r, for an endpoint
\* that is in state ep: a NAKed endpoint is opened when every ring has room.
Refreshed(ep, w, r) ==
  IF ep = "nak" /\ \A b \in Buses : can_slots_empty(w[b], r[b]) >= MIN_SLOTS
  THEN "open" ELSE ep

refresh(ep, w, r) ==
  /\ ep3' = Refreshed(ep, w, r)
  /\ shared' = IF ep3' = ep3 THEN shared ELSE {}
  /\ UNCHANGED batch

can_clear(b) ==
  /\ w_ptr' = [w_ptr EXCEPT ![b] = 0]
  /\ r_ptr' = [r_ptr EXCEPT ![b] = 0]
  /\ stale' = [stale EXCEPT ![b] = 0]
  /\ refresh(ep3, w_ptr', r_ptr')
  /\ elems' = [elems EXCEPT ![b] = EmptyRing]
  /\ UNCHANGED <<tx_frame, halted>>

-------------------------------------------------------------------------------
(* process_can: the mailbox is free and a frame is waiting.                  *)

CanTake(b) == tx_frame[b] = NoFrame /\ w_ptr[b] # r_ptr[b]

\* Mutant of Pop: the endpoint is not looked at after a pop.
Pop_NoRefresh(b) ==
  LET f == elems[b][r_ptr[b]] IN
  /\ r_ptr' = [r_ptr EXCEPT ![b] = Advance(@)]
  /\ tx_frame' = IF f \in BadFrames THEN tx_frame ELSE [tx_frame EXCEPT ![b] = f]
  /\ halted' = [halted EXCEPT ![b] = f \in BadFrames]
  /\ stale' = [stale EXCEPT ![b] = IF @ > 0 THEN @ - 1 ELSE 0]
  /\ elems' = [elems EXCEPT ![b][r_ptr[b]] = NoFrame]
  /\ UNCHANGED usbVars

\* Mutant of Pop: the checksum is verified before the read pointer moves.
Pop_KeepsBad(b) ==
  LET f == elems[b][r_ptr[b]]
      good == f \notin BadFrames IN
  /\ r_ptr' = IF good THEN [r_ptr EXCEPT ![b] = Advance(@)] ELSE r_ptr
  /\ elems' = IF good THEN [elems EXCEPT ![b][r_ptr[b]] = NoFrame] ELSE elems
  /\ tx_frame' = IF good THEN [tx_frame EXCEPT ![b] = f] ELSE tx_frame
  /\ halted' = [halted EXCEPT ![b] = ~good]
  /\ stale' = [stale EXCEPT ![b] = IF @ > 0 /\ good THEN @ - 1 ELSE @]
  /\ refresh(ep3, w_ptr, r_ptr')

\* A bad frame is dropped with no request to send, so no interrupt follows it.
Pop(b) ==
  LET f == elems[b][r_ptr[b]] IN
  /\ r_ptr' = [r_ptr EXCEPT ![b] = Advance(@)]
  /\ tx_frame' = IF f \in BadFrames THEN tx_frame ELSE [tx_frame EXCEPT ![b] = f]
  /\ halted' = [halted EXCEPT ![b] = f \in BadFrames]
  /\ stale' = [stale EXCEPT ![b] = IF @ > 0 THEN @ - 1 ELSE 0]
  /\ refresh(ep3, w_ptr, r_ptr')
  /\ elems' = [elems EXCEPT ![b][r_ptr[b]] = NoFrame]

process_can(b) ==
  /\ IF CanTake(b) THEN Pop(b)
                   ELSE UNCHANGED <<elems, r_ptr, tx_frame, halted, stale, usbVars>>
  /\ UNCHANGED <<w_ptr>>

-------------------------------------------------------------------------------
(* Handlers.                                                                 *)

HostLevel == IF board = "F446" THEN "main" ELSE "isr"

\* The level is free to start a handler, or to go on with the one it is in.
Runs(l) == l = "isr" \/ pc["isr"] = "idle"
Free(l) == pc[l] = "idle" /\ Runs(l)

SendPc(b) == IF b = 0 THEN "send0" ELSE "send2"
Goto(l, step) == pc' = [pc EXCEPT ![l] = step]

\* can_send up to its call of process_can, which is a step of its own.
can_send(l, b, f) ==
  /\ can_push(b, f)
  /\ Goto(l, SendPc(b))
  /\ UNCHANGED <<board, r_ptr, tx_frame, tx_irq, stale, halted>>

\* can_rx hands a frame of one bus over to the other.
Forward(b, f) ==
  /\ Free("isr")
  /\ can_send("isr", b, f)
  /\ shared' = shared \cup (IF board = "F407" /\ ep3 # "nak" THEN {b} ELSE {})
  /\ UNCHANGED <<ep3, batch, lost_alone>>

\* A frame of the host that the safety model let pass.  On the F407 it is part
\* of a transfer, which the endpoint takes only when it is open; the frames of one
\* transfer may be for different buses.
HostSend(b, f) ==
  /\ Free(HostLevel)
  /\ can_send(HostLevel, b, f)
  /\ IF board = "F446"
     THEN UNCHANGED <<usbVars, lost_alone>>
     ELSE /\ ep3 = "open" \/ (ep3 = "processing" /\ batch > 0)
          /\ ep3' = "processing"
          /\ batch' = IF ep3 = "open" THEN MIN_SLOTS - 1 ELSE batch - 1
          /\ lost_alone' = (lost_alone \/ (Full(b) /\ b \notin shared))
          /\ UNCHANGED shared

\* Mutant of XferComplete: the endpoint is opened whatever the rings hold.
XferComplete_Opens ==
  /\ Free("isr")
  /\ ep3 = "processing"
  /\ ep3' = "open" /\ shared' = {} /\ UNCHANGED batch
  /\ UNCHANGED <<board, ringVars, tx_frame, tx_irq, pc, stale, halted, lost_alone>>

\* The transfer is complete: the core NAKs the next one until there is room.
XferComplete ==
  /\ Free("isr")
  /\ ep3 = "processing"
  /\ refresh("nak", w_ptr, r_ptr)
  /\ UNCHANGED <<board, ringVars, tx_frame, tx_irq, pc, stale, halted, lost_alone>>

\* The second half of can_send.
Process(l) ==
  /\ Runs(l)
  /\ \E b \in Buses :
       /\ pc[l] = SendPc(b)
       /\ process_can(b)
  /\ Goto(l, "idle")
  /\ UNCHANGED <<board, tx_irq, lost_alone>>

\* Mutant of TxIrq: the interrupt is acknowledged and the ring not looked at.
TxIrq_AckOnly(b) ==
  /\ Free("isr")
  /\ tx_irq[b]
  /\ tx_irq' = [tx_irq EXCEPT ![b] = FALSE]
  /\ UNCHANGED <<board, ringVars, tx_frame, pc, usbVars, stale, halted, lost_alone>>

TxIrq(b) ==
  /\ Free("isr")
  /\ tx_irq[b]
  /\ process_can(b)
  /\ tx_irq' = [tx_irq EXCEPT ![b] = FALSE]
  /\ UNCHANGED <<board, pc, lost_alone>>

\* The controller: the frame is acknowledged on the bus (RQCP0, TXOK0).
Transmit(b) ==
  /\ tx_frame[b] # NoFrame
  /\ tx_frame' = [tx_frame EXCEPT ![b] = NoFrame]
  /\ tx_irq' = [tx_irq EXCEPT ![b] = TRUE]
  /\ UNCHANGED <<board, ringVars, pc, usbVars, stale, halted, lost_alone>>

\* An error interrupt: can_clear_send gives the pending frame up (ABRQ0).
can_sce(b) ==
  /\ Free("isr")
  /\ tx_frame[b] # NoFrame
  /\ tx_frame' = [tx_frame EXCEPT ![b] = NoFrame]
  /\ tx_irq' = [tx_irq EXCEPT ![b] = TRUE]
  /\ UNCHANGED <<board, ringVars, pc, usbVars, stale, halted, lost_alone>>

-------------------------------------------------------------------------------
(* set_safety_mode and can_init_all, one step per critical section.  The      *)
(* mailbox keeps its frame over the initialisation of its controller.        *)

\* The new hooks are in place; every frame in a ring passed the old ones.
SetSafetyMode ==
  /\ Free(HostLevel)
  /\ Goto(HostLevel, "clear0")
  /\ stale' = [b \in Buses |-> Count(w_ptr[b], r_ptr[b])]
  /\ UNCHANGED <<board, ringVars, tx_frame, tx_irq, usbVars, halted, lost_alone>>

\* Mutant of ClearRing2: the loop ends with the last controller.
ClearRing2_Skipped(l) ==
  /\ pc[l] = "clear2"
  /\ Goto(l, "idle")
  /\ UNCHANGED <<ringVars, tx_frame, usbVars, stale, halted>>

ClearRing0(l) == pc[l] = "clear0" /\ can_clear(0) /\ Goto(l, "init0")
InitCan1(l)   == pc[l] = "init0" /\ process_can(0) /\ Goto(l, "init1")

\* can_init(1) ends with process_can(1): that is bus 2 on the F446, and bus 1,
\* whose ring is always empty, on the F407.
InitCan2(l) ==
  /\ pc[l] = "init1"
  /\ IF board = "F446" THEN process_can(2)
     ELSE UNCHANGED <<ringVars, tx_frame, halted, stale, usbVars>>
  /\ Goto(l, "clear2")

\* There is no third controller, but its ring is cleared.
ClearRing2(l) == pc[l] = "clear2" /\ can_clear(2) /\ Goto(l, "idle")

InitStep(l) ==
  /\ Runs(l)
  /\ ClearRing0(l) \/ InitCan1(l) \/ InitCan2(l) \/ ClearRing2(l)
  /\ UNCHANGED <<board, tx_irq, lost_alone>>

\* Request 0xf1 clears one ring.
ClearRequest(b) ==
  /\ Free(HostLevel)
  /\ can_clear(b)
  /\ UNCHANGED <<board, tx_irq, pc, lost_alone>>

-------------------------------------------------------------------------------
TxInit ==
  /\ board \in Boards
  /\ elems = [b \in Buses |-> EmptyRing]
  /\ w_ptr = [b \in Buses |-> 0]
  /\ r_ptr = [b \in Buses |-> 0]
  /\ tx_frame = [b \in Buses |-> NoFrame]
  /\ tx_irq = [b \in Buses |-> FALSE]
  /\ pc = [l \in Levels |-> "idle"]
  /\ ep3 = "open" /\ batch = 0
  /\ stale = [b \in Buses |-> 0]
  /\ halted = [b \in Buses |-> FALSE]
  /\ shared = {} /\ lost_alone = FALSE

TxNext ==
  \/ \E b \in Buses : \E f \in FwdFrames : Forward(b, f)
  \/ \E b \in Buses : \E f \in HostTx(b) : HostSend(b, f)
  \/ XferComplete
  \/ \E l \in Levels : Process(l)
  \/ \E b \in Buses : TxIrq(b)
  \/ \E b \in Buses : Transmit(b)
  \/ \E b \in Buses : can_sce(b)
  \/ SetSafetyMode
  \/ \E l \in Levels : InitStep(l)
  \/ \E b \in Buses : ClearRequest(b)

TxSpec == TxInit /\ [][TxNext]_txVars

\* A handler runs to its end, a frame in a mailbox is acknowledged or its error
\* interrupt gives it up, and the car and the camera go on sending, so that both
\* buses see forwarded frames again and again.
TxFairness ==
  /\ WF_txVars(Process("isr") \/ InitStep("isr"))
  /\ \A b \in Buses : WF_txVars(Transmit(b) \/ can_sce(b))
  /\ \A b \in Buses : SF_txVars(\E f \in FwdFrames : Forward(b, f))

FairTxSpec == TxSpec /\ TxFairness

-------------------------------------------------------------------------------
(* Properties.                                                               *)

SendSteps == {"send0", "send2"}
InitSteps == {"clear0", "init0", "init1", "clear2"}

\* The type of the state of the transmit path.
TxTypeOK ==
  /\ board \in Boards
  /\ elems \in [Buses -> [0..(FIFO_SIZE - 1) -> Frames \cup {NoFrame}]]
  /\ w_ptr \in [Buses -> 0..(FIFO_SIZE - 1)]
  /\ r_ptr \in [Buses -> 0..(FIFO_SIZE - 1)]
  /\ tx_frame \in [Buses -> Frames \cup {NoFrame}]
  /\ tx_irq \in [Buses -> BOOLEAN]
  /\ pc \in [Levels -> {"idle"} \cup SendSteps \cup InitSteps]
  /\ ep3 \in {"open", "processing", "nak"}
  /\ batch \in 0..(MIN_SLOTS - 1)
  /\ stale \in [Buses -> 0..(FIFO_SIZE - 1)]
  /\ halted \in [Buses -> BOOLEAN]
  /\ shared \in SUBSET Buses /\ lost_alone \in BOOLEAN

\* The rings and the mailbox implement the queue of TxFifo: pointers that meet
\* or wrap, a push between two critical sections of a preempted can_send and the
\* clears of a mode change never reorder, duplicate or invent a frame, and
\* process_can never loads one with a bad checksum.
Fifo == INSTANCE TxFifo WITH queue    <- [b \in Buses |-> Contents(b)],
                             inflight <- tx_frame,
                             Capacity <- FIFO_SIZE - 1

RingIsFifo == Fifo!FifoSpec

\* After a mode change only the mailbox may still hold a frame that the old
\* safety mode let pass: can_init_all empties every ring, the one of the third
\* bus included, whatever was pushed while it ran.
ModeChangeEmptiesRings ==
  (\A l \in Levels : pc[l] \notin InitSteps) => \A b \in Buses : stale[b] = 0

\* Something will still call process_can for this bus without a new frame.
WillProcess(b) ==
  \/ tx_frame[b] # NoFrame
  \/ tx_irq[b]
  \/ \E l \in Levels : pc[l] \in {SendPc(b), "clear0", IF b = 0 THEN "init0" ELSE "clear2"}
  \/ b = 2 /\ \E l \in Levels : pc[l] \in {"init0", "init1"}

\* Frames wait with nobody to fetch them only behind a frame whose checksum was
\* bad: process_can is called once per push and once per interrupt, and pops one
\* frame at a time.
NoSilentStall ==
  \A b \in Buses : w_ptr[b] # r_ptr[b] => WillProcess(b) \/ halted[b]

\* No lost wake-up of the host: while the endpoint NAKs, some ring really has
\* less room than one transfer needs.
EndpointReopens ==
  ep3 = "nak" => \E b \in Buses : can_slots_empty(w_ptr[b], r_ptr[b]) < MIN_SLOTS

\* Flow control protects the host's frames: a transfer that the endpoint took
\* fits, each frame in the ring of its bus, unless frames forwarded to that bus used
\* the room in between.
HostFramesFit == ~lost_alone

\* Every waiting frame moves up, the ones behind a bad checksum included (the
\* next forwarded frame of the bus calls process_can): each ring is empty again
\* and again, or gives up a frame again and again.
QueueMoves ==
  \A b \in Buses : \/ []<>(w_ptr[b] = r_ptr[b])
                   \/ []<><<r_ptr'[b] # r_ptr[b]>>_r_ptr
===============================================================================
