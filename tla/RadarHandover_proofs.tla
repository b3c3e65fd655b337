------------------------ MODULE RadarHandover_proofs ------------------------
(***************************************************************************)
(* Proofs about RadarHandover, for every link, every set of radar faults   *)
(* and every number of re-entries.                                         *)
(***************************************************************************)
EXTENDS RadarHandover, TLAPS

\* What both threads know of each other: the gate is open from the entry to
\* the end of the release, a waiting takeover_thread has a sending radar, a
\* session request is only pending in a handover that was completed, and the
\* last re-entry ends long_tx_thread.
GateOpen == tk \in {"overlap", "verify", "drive", "release"} => longtx_gate
WaitsForRadar == tk = "wait" => radar = "sending"
DoneIsDriving == handover_done => tk \in {"drive", "stopped"}
ReentryIsLate ==
  lt = "reenter" => /\ radar = "sending"
                    /\ tk \in {"drive", "release", "gave_up", "stopped"}
GivesUpOnce == tries > MaxResuppress => lt = "halted"
RunsUntilStopped == ~stop_flag => lt # "stopped" /\ tk # "stopped"

HandoverInv ==
  /\ HandoverTypeOK
  /\ GateOpen /\ WaitsForRadar /\ DoneIsDriving /\ ReentryIsLate
  /\ GivesUpOnce /\ RunsUntilStopped

\* The threads start with the gate closed and a sending radar.
LEMMA HandoverInitInv == HandoverInit => HandoverInv
<1> SUFFICES ASSUME HandoverInit
             PROVE  HandoverInv
  OBVIOUS
<1>1. tries \in 0 .. MaxResuppress + 1 /\ ~(tries > MaxResuppress)
  <2>1. tries = 0
    BY DEF HandoverInit
  <2>2. QED
    BY <2>1, HandoverAssumption
<1>2. HandoverTypeOK
  BY <1>1, Zenon DEF HandoverInit, HandoverTypeOK, Pcs
<1>3. GateOpen /\ WaitsForRadar /\ DoneIsDriving /\ ReentryIsLate /\ RunsUntilStopped
  BY DEF HandoverInit, GateOpen, WaitsForRadar, DoneIsDriving, ReentryIsLate,
         RunsUntilStopped
<1>4. QED
  BY <1>1, <1>2, <1>3 DEF HandoverInv, GivesUpOnce

\* Each step of takeover_thread keeps the invariant.
LEMMA TakeoverKeepsInv == HandoverInv /\ Takeover => HandoverInv'
<1> SUFFICES ASSUME HandoverInv, Takeover
             PROVE  HandoverInv'
  OBVIOUS
<1> USE HandoverAssumption
    DEF HandoverInv, HandoverTypeOK, Pcs, GateOpen, WaitsForRadar,
        DoneIsDriving, ReentryIsLate, GivesUpOnce, RunsUntilStopped, world
<1>1. CASE Engage
  BY <1>1 DEF Engage
<1>2. CASE SuppressRaises
  BY <1>2 DEF SuppressRaises
<1>3. CASE SuppressReturns
  <2>1. radar' \in {"sending", "muted"}
    BY <1>3 DEF SuppressReturns, SessionOutcomes
  <2>2. counted' \in BOOLEAN
    BY <1>3 DEF SuppressReturns, Foreign
  <2>3. QED
    BY <1>3, <2>1, <2>2 DEF SuppressReturns
<1>4. CASE StillSending
  BY <1>4 DEF StillSending
<1>5. CASE TakenOver
  BY <1>5 DEF TakenOver
<1>6. CASE Release
  BY <1>6 DEF Release
<1>7. CASE RadarBack
  BY <1>7 DEF RadarBack
<1>8. CASE RadarStaysAway
  BY <1>8 DEF RadarStaysAway
<1>9. CASE TakeoverStops
  BY <1>9 DEF TakeoverStops
<1>10. QED
  BY <1>1, <1>2, <1>3, <1>4, <1>5, <1>6, <1>7, <1>8, <1>9 DEF Takeover

\* Each step of long_tx_thread keeps the invariant.
LEMMA LongTxKeepsInv == HandoverInv /\ LongTx => HandoverInv'
<1> SUFFICES ASSUME HandoverInv, LongTx
             PROVE  HandoverInv'
  OBVIOUS
<1> USE HandoverAssumption
    DEF HandoverInv, HandoverTypeOK, Pcs, GateOpen, WaitsForRadar,
        DoneIsDriving, ReentryIsLate, GivesUpOnce, RunsUntilStopped, world
<1>1. CASE DeadMan
  BY <1>1 DEF DeadMan
<1>2. CASE RadarReturned
  <2>1. tries' \in 0 .. MaxResuppress + 1
    BY <1>2 DEF RadarReturned
  <2>2. lt' \in {"halted", "reenter"}
    BY <1>2 DEF RadarReturned
  <2>3. radar = "sending" /\ tk \in {"drive", "stopped"}
    BY <1>2 DEF RadarReturned, Foreign
  <2>4. QED
    BY <1>2, <2>1, <2>2, <2>3 DEF RadarReturned
<1>3. CASE Reenter
  <2>1. radar' \in {"sending", "muted"}
    BY <1>3 DEF Reenter, SessionOutcomes
  <2>2. QED
    BY <1>3, <2>1 DEF Reenter
<1>4. CASE Recheck
  <2>1. lt' \in {"halted", "run"}
    BY <1>4 DEF Recheck
  <2>2. QED
    BY <1>4, <2>1 DEF Recheck
<1>5. CASE LongTxStops
  BY <1>5 DEF LongTxStops
<1>6. QED
  BY <1>1, <1>2, <1>3, <1>4, <1>5 DEF LongTx

\* The car, the link and the end of the process keep it too.
LEMMA WorldKeepsInv == HandoverInv /\ World => HandoverInv'
<1> SUFFICES ASSUME HandoverInv, World
             PROVE  HandoverInv'
  OBVIOUS
<1> USE HandoverAssumption
    DEF HandoverInv, HandoverTypeOK, Pcs, GateOpen, WaitsForRadar,
        DoneIsDriving, ReentryIsLate, GivesUpOnce, RunsUntilStopped, host, world
<1>1. CASE AccChanges
  BY <1>1 DEF AccChanges
<1>2. CASE FeedStops \/ FeedReturns \/ RxExpires
  <2>1. feed' \in BOOLEAN /\ rx_alive' \in BOOLEAN
    BY <1>2, Zenon DEF FeedStops, FeedReturns, RxExpires
  <2>2. UNCHANGED <<host, echoes, acc_active, radar>>
    BY <1>2, Zenon DEF FeedStops, FeedReturns, RxExpires
  <2>3. QED
    BY <2>1, <2>2
<1>3. CASE SessionLapses \/ RadarLeaves
  BY <1>3 DEF SessionLapses, RadarLeaves
<1>4. CASE Stop
  BY <1>4 DEF Stop
<1>5. QED
  BY <1>1, <1>2, <1>3, <1>4 DEF World

\* The invariant holds of every state the two threads reach.
LEMMA HandoverInvariant == HandoverSpec => []HandoverInv
<1>1. HandoverInv /\ [HandoverNext]_vars => HandoverInv'
  <2> SUFFICES ASSUME HandoverInv, [HandoverNext]_vars
               PROVE  HandoverInv'
    OBVIOUS
  <2>1. CASE HandoverNext
    BY <2>1, TakeoverKeepsInv, LongTxKeepsInv, WorldKeepsInv DEF HandoverNext
  <2>2. CASE UNCHANGED vars
    BY <2>2
    DEF vars, host, world, HandoverInv, HandoverTypeOK, Pcs, GateOpen,
        WaitsForRadar, DoneIsDriving, ReentryIsLate, GivesUpOnce, RunsUntilStopped
  <2>3. QED
    BY <2>1, <2>2
<1>2. QED
  BY HandoverInitInv, <1>1, PTL DEF HandoverSpec

\* The shared flags keep their types, and the session is re-entered at most
\* MaxResuppress times whatever the radar does (long_tx_thread).
THEOREM HandoverTypeCorrect == HandoverSpec => []HandoverTypeOK
  BY HandoverInvariant, PTL DEF HandoverInv

\* The entry opens our gate before the radar is silenced and the release
\* closes it only when the radar is back (takeover_thread): a silenced radar
\* is covered by our frames but for the re-entry check, a halt and a
\* handover that was given up.
THEOREM FramesAreCovered == HandoverSpec => []NoGap
<1>1. HandoverInv => NoGap
  BY DEF HandoverInv, HandoverTypeOK, Pcs, GateOpen, WaitsForRadar,
         ReentryIsLate, RunsUntilStopped, NoGap, Transmitting
<1>2. QED
  BY HandoverInvariant, <1>1, PTL
=============================================================================
