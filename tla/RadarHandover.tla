--------------------------- MODULE RadarHandover ---------------------------
(***************************************************************************)
(* The engage-first take-over of the radar's longitudinal frames           *)
(* (OP_ALPHA_ENGAGE_FIRST): takeover_thread and long_tx_thread of          *)
(* dashcam_web.py, the receive liveness they share, and the radar with its *)
(* diagnostic session.                                                     *)
(*                                                                         *)
(* takeover_thread waits for stock ACC, opens our transmit gate, silences  *)
(* the radar, checks that it is silent, and releases it when ACC ends.     *)
(* long_tx_thread sends the frames when the gate is open, keeps the        *)
(* radar's session alive while radar_hold is set, re-enters the session    *)
(* when the radar comes back and drops radar_hold when nothing is received.*)
(*                                                                         *)
(* Time is abstracted: a sleep is a step of its own, and the only duration *)
(* kept is that a session without tester-present (about 5 s) lapses before *)
(* the 20 s wait for the radar's return is over.  The census of 0x21b is   *)
(* kept as what it is compared with: "the radar was counted" or not.       *)
(***************************************************************************)
EXTENDS Naturals

CONSTANTS
  Echoes,       \* the links considered: TRUE for one that reports our own frames
                \* back on bus 0 (the serial panda), FALSE for one that does not
                \* (UsbPanda.can_recv drops them)
  OtherTraffic, \* something other than a bus-0 frame always arrives (bus 2)
  LinkFaults,   \* BOOLEAN: the frames of bus 0 may stop and start
  RadarFaults,  \* subset of AllRadarFaults
  MaxResuppress \* re-entries of the session before giving up (3 in the code)

AllRadarFaults ==
  {"raises",     \* CarInterface.init raises, nothing having been sent
   "refuses",    \* a session request has no effect
   "slow",       \* the radar goes silent only late in CarInterface.init
   "returns",    \* the radar leaves the session by itself
   "no_return"}  \* a lapsed session takes more than 20 s to end

ASSUME HandoverAssumption ==
  /\ Echoes \subseteq BOOLEAN
  /\ {OtherTraffic, LinkFaults} \subseteq BOOLEAN
  /\ RadarFaults \subseteq AllRadarFaults
  /\ MaxResuppress \in Nat

VARIABLES
  tk,            \* where takeover_thread is
  lt,            \* where long_tx_thread is
  stop_flag,
  longtx_gate,   \* our 0x21b/0x21c may be sent
  radar_hold,    \* tester-present may be sent
  handover_done, \* arms the radar-return watchdog
  tries,         \* tx_state["radar_resuppress"]
  counted,       \* more than 20 foreign 0x21b since the count of line 5620
  echoes,        \* the link of this process: chosen once
  feed,          \* frames of bus 0 are arriving
  rx_alive,      \* RxLiveness.alive()
  acc_active,    \* cs_can.acc_active, decoded from 0x165: holds its last value
  radar          \* "sending" or "muted"

host == <<tk, lt, stop_flag, longtx_gate, radar_hold, handover_done, tries,
          counted>>
world == <<echoes, feed, rx_alive, acc_active, radar>>
vars == <<host, world>>

LongTxAlive == lt \in {"run", "reenter", "recheck"}

\* Our 0x21b/0x21c go out: the loop of long_tx_thread runs, gate open.
Transmitting == lt = "run" /\ longtx_gate

\* Tester-present reaches the radar often enough: the re-entry check is far
\* shorter than the session's time-out.
KeptAlive == LongTxAlive /\ radar_hold

\* What census minus crz_info_tx says of the radar over a window.  Without
\* echoes our 50 Hz are subtracted from the radar's 43 Hz.
Foreign == feed /\ radar = "sending" /\ (echoes \/ ~Transmitting)

HandoverInit ==
  /\ tk = "wait" /\ lt = "run" /\ stop_flag = FALSE
  /\ longtx_gate = FALSE /\ radar_hold = TRUE /\ handover_done = FALSE
  /\ tries = 0 /\ counted = FALSE
  /\ feed = TRUE /\ rx_alive = TRUE /\ acc_active = FALSE
  /\ radar = "sending" /\ echoes \in Echoes

---------------------------------------------------------------------------
(* Versions of the steps below with one mistake each *)

\* The release of the first version: our gate closes with tester-present.
Release_GateClosed ==
  /\ tk = "drive" /\ ~stop_flag
  /\ ~rx_alive \/ ~acc_active
  /\ tk' = "release"
  /\ radar_hold' = FALSE
  /\ handover_done' = FALSE
  /\ longtx_gate' = FALSE
  /\ UNCHANGED <<lt, stop_flag, tries, counted, world>>

\* The release forgets to stop tester-present.
Release_StillHeld ==
  /\ tk = "drive" /\ ~stop_flag
  /\ ~rx_alive \/ ~acc_active
  /\ tk' = "release"
  /\ handover_done' = FALSE
  /\ UNCHANGED <<lt, stop_flag, longtx_gate, radar_hold, tries, counted, world>>

\* The abort of the first version: our frames keep flowing.
SuppressRaises_GateOpen ==
  /\ tk = "overlap" /\ "raises" \in RadarFaults
  /\ tk' = "aborted"
  /\ UNCHANGED <<lt, stop_flag, longtx_gate, radar_hold, handover_done, tries,
                 counted, world>>

\* The liveness is also stamped when a frame is handed to the link.
RxExpires_StampedBySend ==
  /\ ~feed /\ ~OtherTraffic /\ rx_alive
  /\ ~Transmitting
  /\ rx_alive' = FALSE
  /\ UNCHANGED <<host, echoes, feed, acc_active, radar>>

---------------------------------------------------------------------------
(* takeover_thread *)

\* The radar has entered ACC and we can see it: open our gate first.
Engage ==
  /\ tk = "wait" /\ ~stop_flag
  /\ rx_alive /\ acc_active
  /\ tk' = "overlap"
  /\ longtx_gate' = TRUE
  /\ UNCHANGED <<lt, stop_flag, radar_hold, handover_done, tries, counted, world>>

\* CarInterface.init raised: close the gate and return.
SuppressRaises ==
  /\ tk = "overlap" /\ "raises" \in RadarFaults
  /\ tk' = "aborted"
  /\ longtx_gate' = FALSE
  /\ UNCHANGED <<lt, stop_flag, radar_hold, handover_done, tries, counted, world>>

\* The effects a request for the diagnostic session may have on the radar.
SessionOutcomes ==
  {"muted"} \cup (IF "refuses" \in RadarFaults THEN {radar} ELSE {})

\* CarInterface.init returned: the UDS helpers report a refusal by their
\* result, which init drops.  The count was started before the call.
SuppressReturns ==
  /\ tk = "overlap"
  /\ tk' = "verify"
  /\ radar' \in SessionOutcomes
  /\ counted' \in {FALSE, Foreign /\ "slow" \in RadarFaults}
  /\ UNCHANGED <<lt, stop_flag, longtx_gate, radar_hold, handover_done, tries,
                 echoes, feed, rx_alive, acc_active>>

\* 1.5 s later: more than 20 foreign frames abort the handover.
StillSending ==
  /\ tk = "verify"
  /\ counted \/ Foreign
  /\ tk' = "aborted"
  /\ longtx_gate' = FALSE
  /\ counted' = FALSE
  /\ UNCHANGED <<lt, stop_flag, radar_hold, handover_done, tries, world>>

TakenOver ==
  /\ tk = "verify"
  /\ ~counted /\ ~Foreign
  /\ tk' = "drive"
  /\ handover_done' = TRUE
  /\ UNCHANGED <<lt, stop_flag, longtx_gate, radar_hold, tries, counted, world>>

\* ACC ended, or we cannot tell: stop tester-present, keep transmitting.
Release ==
  /\ tk = "drive" /\ ~stop_flag
  /\ ~rx_alive \/ ~acc_active
  /\ tk' = "release"
  /\ radar_hold' = FALSE
  /\ handover_done' = FALSE
  /\ UNCHANGED <<lt, stop_flag, longtx_gate, tries, counted, world>>

\* 0x361 is counted again for a second: close our gate and wait for the next
\* ACC entry.  A session request about to be sent is sent within that second.
RadarBack ==
  /\ tk = "release" /\ ~stop_flag
  /\ lt # "reenter"
  /\ feed /\ radar = "sending"
  /\ tk' = "wait"
  /\ longtx_gate' = FALSE
  /\ radar_hold' = TRUE
  /\ UNCHANGED <<lt, stop_flag, handover_done, tries, counted, world>>

\* 20 s without 0x361: close our gate and return.
RadarStaysAway ==
  /\ tk = "release" /\ ~stop_flag
  /\ \/ ~feed /\ radar = "sending"
     \/ radar = "muted" /\ "no_return" \in RadarFaults
  /\ tk' = "gave_up"
  /\ longtx_gate' = FALSE
  /\ UNCHANGED <<lt, stop_flag, radar_hold, handover_done, tries, counted, world>>

\* The loops of takeover_thread end with the process; the two sleeps of a
\* handover do not look at stop_flag.
TakeoverStops ==
  /\ stop_flag /\ tk \in {"wait", "drive", "release"}
  /\ tk' = "stopped"
  /\ UNCHANGED <<lt, stop_flag, longtx_gate, radar_hold, handover_done, tries,
                 counted, world>>

Takeover ==
  \/ Engage \/ SuppressRaises \/ SuppressReturns \/ StillSending \/ TakenOver
  \/ Release \/ RadarBack \/ RadarStaysAway \/ TakeoverStops

---------------------------------------------------------------------------
(* long_tx_thread *)

\* Nothing received for OP_RX_DEAD_S: stop holding the radar.
DeadMan ==
  /\ lt = "run" /\ ~stop_flag
  /\ radar_hold /\ ~rx_alive
  /\ radar_hold' = FALSE
  /\ UNCHANGED <<tk, lt, stop_flag, longtx_gate, handover_done, tries, counted,
                 world>>

\* The watchdog's window closes with the radar counted in it.
RadarReturned ==
  /\ lt = "run" /\ ~stop_flag
  /\ handover_done /\ Foreign
  /\ tries' = tries + 1
  /\ lt' = IF tries' > MaxResuppress THEN "halted" ELSE "reenter"
  /\ UNCHANGED <<tk, stop_flag, longtx_gate, radar_hold, handover_done, counted,
                 world>>

\* The session request itself, sent outside any check of handover_done.
Reenter ==
  /\ lt = "reenter"
  /\ lt' = "recheck"
  /\ radar' \in SessionOutcomes
  /\ UNCHANGED <<tk, stop_flag, longtx_gate, radar_hold, handover_done, tries,
                 counted, echoes, feed, rx_alive, acc_active>>

\* One second in which we send nothing: any 0x21b is the radar's.
Recheck ==
  /\ lt = "recheck"
  /\ lt' = IF Foreign THEN "halted" ELSE "run"
  /\ UNCHANGED <<tk, stop_flag, longtx_gate, radar_hold, handover_done, tries,
                 counted, world>>

LongTxStops ==
  /\ stop_flag /\ lt = "run"
  /\ lt' = "stopped"
  /\ UNCHANGED <<tk, stop_flag, longtx_gate, radar_hold, handover_done, tries,
                 counted, world>>

LongTx == DeadMan \/ RadarReturned \/ Reenter \/ Recheck \/ LongTxStops

---------------------------------------------------------------------------
(* The car, the link and the process around the two threads *)

\* The driver sets or ends ACC; we learn it while frames arrive.  Only a
\* sending radar can perform the ACC entry.
AccChanges ==
  /\ feed
  /\ acc_active \/ radar = "sending"
  /\ acc_active' = ~acc_active
  /\ UNCHANGED <<host, echoes, feed, rx_alive, radar>>

FeedStops ==
  /\ LinkFaults /\ feed
  /\ feed' = FALSE
  /\ UNCHANGED <<host, echoes, rx_alive, acc_active, radar>>

FeedReturns ==
  /\ ~feed
  /\ feed' = TRUE
  /\ rx_alive' = TRUE
  /\ UNCHANGED <<host, echoes, acc_active, radar>>

\* can_thread stamps the liveness on every batch it receives, whatever bus
\* its frames are from, so it expires only when nothing at all arrives.  An
\* echo of our own frame arrives only from a bus that acknowledges it.
RxExpires ==
  /\ ~feed /\ ~OtherTraffic /\ rx_alive
  /\ rx_alive' = FALSE
  /\ UNCHANGED <<host, echoes, feed, acc_active, radar>>

\* The session ends without tester-present.
SessionLapses ==
  /\ radar = "muted" /\ ~KeptAlive
  /\ radar' = "sending"
  /\ UNCHANGED <<host, echoes, feed, rx_alive, acc_active>>

RadarLeaves ==
  /\ radar = "muted" /\ "returns" \in RadarFaults
  /\ radar' = "sending"
  /\ UNCHANGED <<host, echoes, feed, rx_alive, acc_active>>

Stop ==
  /\ ~stop_flag
  /\ stop_flag' = TRUE
  /\ UNCHANGED <<tk, lt, longtx_gate, radar_hold, handover_done, tries, counted,
                 world>>

World == AccChanges \/ FeedStops \/ FeedReturns \/ RxExpires \/ SessionLapses
         \/ RadarLeaves \/ Stop

HandoverNext == Takeover \/ LongTx \/ World

HandoverSpec == HandoverInit /\ [][HandoverNext]_vars

\* Both threads are run by the interpreter, a lapsed session ends and the
\* liveness expires by themselves.  Nothing is assumed of the driver, of the
\* link or of a faulty radar.
FairHandoverSpec ==
  HandoverSpec /\ WF_vars(Takeover) /\ WF_vars(LongTx)
               /\ WF_vars(SessionLapses) /\ WF_vars(RxExpires)

---------------------------------------------------------------------------
(* Properties *)

Pcs == {"wait", "overlap", "verify", "drive", "release", "aborted", "gave_up",
        "stopped"}

\* Type correctness of the flags shared by the two threads.
HandoverTypeOK ==
  /\ tk \in Pcs
  /\ lt \in {"run", "reenter", "recheck", "halted", "stopped"}
  /\ tries \in 0 .. MaxResuppress + 1
  /\ radar \in {"sending", "muted"}
  /\ stop_flag \in BOOLEAN /\ longtx_gate \in BOOLEAN /\ radar_hold \in BOOLEAN
  /\ handover_done \in BOOLEAN /\ counted \in BOOLEAN
  /\ feed \in BOOLEAN /\ rx_alive \in BOOLEAN /\ acc_active \in BOOLEAN
  /\ echoes \in Echoes

\* takeover_thread, 5597-5600 and 5700-5722: the PCM never sees 0x21b stop,
\* at the entry and at the release alike.  While the process runs, a muted
\* radar has its frames sent by us, except in the one-second check after a
\* re-entry, after a halt, and after a handover that was given up.
NoGap ==
  ~stop_flag /\ radar = "muted" /\ ~Transmitting =>
    lt \in {"recheck", "halted"} \/ tk \in {"aborted", "gave_up"}

\* RxLiveness, 2304-2335: the mute fails open.  Once the bus-0 frames stop,
\* the radar comes back, unless the frames do first.
MuteFailsOpen == (radar = "muted" /\ ~feed) ~> (radar = "sending" \/ feed)

\* takeover_thread, 5685-5693: a suppressed radar with ACC off is pure cost;
\* with ACC seen off the radar returns, unless ACC does first.
MuteNeedsAcc ==
  (radar = "muted" /\ feed /\ ~acc_active) ~>
    (radar = "sending" \/ acc_active \/ ~feed)

\* takeover_thread, 5651-5654 and 5700-5722: with ACC seen off, two writers on
\* 0x21b do not last, on a link with echoes and on one without: the release waits
\* for 0x361, which we never send, and then closes our gate.  (With ACC on it is
\* Foreign that would end them, and without echoes Foreign cannot see the radar
\* while we transmit.)
TwoWritersEnd ==
  (radar = "sending" /\ Transmitting /\ feed /\ ~acc_active) ~>
    (radar = "muted" \/ ~Transmitting \/ ~feed \/ acc_active)

\* long_tx_thread, 4236-4238: once the transmission is given up "stock radar
\* has longitudinal again": the radar is not silenced any more.
HaltLeavesRadar ==
  [][lt = "halted" /\ radar = "sending" => radar' = "sending"]_vars

============================================================================
