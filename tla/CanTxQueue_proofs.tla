--------------------------- MODULE CanTxQueue_proofs ---------------------------
(* Proofs about CanTxQueue for rings of every size.                            *)
EXTENDS CanTxQueue, SequenceTheorems, TLAPS

LEMMA AdvanceRange ==
  ASSUME NEW p \in 0..(FIFO_SIZE - 1)
  PROVE  Advance(p) \in 0..(FIFO_SIZE - 1)
BY TxAssumption DEF Advance

LEMMA CountRange ==
  ASSUME NEW w \in 0..(FIFO_SIZE - 1), NEW r \in 0..(FIFO_SIZE - 1)
  PROVE  /\ Count(w, r) \in 0..(FIFO_SIZE - 1)
         /\ Count(w, r) = 0 <=> w = r
         /\ can_slots_empty(w, r) = FIFO_SIZE - 1 - Count(w, r)
BY TxAssumption DEF Count, can_slots_empty

LEMMA SlotRange ==
  ASSUME NEW r \in 0..(FIFO_SIZE - 1), NEW i \in 1..FIFO_SIZE
  PROVE  Slot(r, i) \in 0..(FIFO_SIZE - 1)
BY TxAssumption DEF Slot

\* Waiting is the sequence that its definition suggests.
WaitingIsSeq(e, w, r, S) ==
  /\ Waiting(e, w, r) \in Seq(S)
  /\ Len(Waiting(e, w, r)) = Count(w, r)
  /\ \A i \in 1..Count(w, r) : Waiting(e, w, r)[i] = e[Slot(r, i)]

LEMMA WaitingType ==
  ASSUME NEW w \in 0..(FIFO_SIZE - 1), NEW r \in 0..(FIFO_SIZE - 1),
         NEW S, NEW e \in [0..(FIFO_SIZE - 1) -> S]
  PROVE  WaitingIsSeq(e, w, r, S)
<1>1. Count(w, r) \in Nat /\ Count(w, r) <= FIFO_SIZE - 1
  BY TxAssumption DEF Count
<1>2. \A i \in 1..Count(w, r) : e[Slot(r, i)] \in S
  BY <1>1, SlotRange, TxAssumption
<1>3. Waiting(e, w, r) \in [1..Count(w, r) -> S]
  BY <1>2 DEF Waiting
<1>4. Waiting(e, w, r) \in Seq(S) /\ Len(Waiting(e, w, r)) = Count(w, r)
  BY <1>1, <1>3
<1> QED BY <1>4 DEF Waiting, WaitingIsSeq

PushIsAppend(e, w, r, f) ==
  /\ Waiting([e EXCEPT ![w] = f], Advance(w), r) = Append(Waiting(e, w, r), f)
  /\ Len(Waiting(e, w, r)) < FIFO_SIZE - 1

PopIsTail(e, w, r, x) ==
  /\ Waiting(e, w, r) # <<>>
  /\ Head(Waiting(e, w, r)) = e[r]
  /\ Waiting([e EXCEPT ![r] = x], w, Advance(r)) = Tail(Waiting(e, w, r))

\* A push appends: the new frame is the last one and nothing else moved.
LEMMA PushAppends ==
  ASSUME NEW w \in 0..(FIFO_SIZE - 1), NEW r \in 0..(FIFO_SIZE - 1),
         NEW S, NEW e \in [0..(FIFO_SIZE - 1) -> S], NEW f \in S,
         Advance(w) # r
  PROVE  PushIsAppend(e, w, r, f)
<1> DEFINE e2 == [e EXCEPT ![w] = f]
           n  == Count(w, r)
           q  == Waiting(e, w, r)
           q2 == Waiting(e2, Advance(w), r)
<1>1. e2 \in [0..(FIFO_SIZE - 1) -> S] /\ Advance(w) \in 0..(FIFO_SIZE - 1)
  BY AdvanceRange
<1>2. n \in 0..(FIFO_SIZE - 2) /\ Count(Advance(w), r) = n + 1
  BY TxAssumption DEF Count, Advance
<1>3. Slot(r, n + 1) = w /\ \A i \in 1..n : Slot(r, i) # w
  BY TxAssumption, <1>2 DEF Slot, Count
<1>4. \A i \in 1..n : Slot(r, i) \in 0..(FIFO_SIZE - 1)
  BY <1>2, SlotRange, TxAssumption
<1>5. q \in Seq(S) /\ Len(q) = n /\ \A i \in 1..n : q[i] = e[Slot(r, i)]
  BY WaitingType DEF WaitingIsSeq
<1>6. q2 \in Seq(S) /\ Len(q2) = n + 1 /\ \A i \in 1..(n + 1) : q2[i] = e2[Slot(r, i)]
  <2> DEFINE c == Advance(w)
  <2>1. c \in 0..(FIFO_SIZE - 1) /\ Count(c, r) = n + 1
    BY <1>1, <1>2
  <2> HIDE DEF e2, n, c
  <2>2. WaitingIsSeq(e2, c, r, S)
    BY <1>1, <2>1, WaitingType
  <2> QED BY <2>1, <2>2 DEF c, WaitingIsSeq
<1>7. \A i \in 1..(n + 1) : q2[i] = IF i = n + 1 THEN f ELSE q[i]
  <2>1. \A i \in 1..n : e2[Slot(r, i)] = e[Slot(r, i)]
    BY <1>3, <1>4
  <2>2. e2[w] = f
    OBVIOUS
  <2> HIDE DEF q, q2, n, e2
  <2>3. q2[n + 1] = f
    BY <1>2, <1>3, <1>6, <2>2
  <2>4. \A i \in 1..n : q2[i] = q[i]
    BY <1>2, <1>5, <1>6, <2>1
  <2> QED BY <1>2, <2>3, <2>4
<1>8. Append(q, f) \in Seq(S) /\ Len(Append(q, f)) = n + 1
      /\ \A i \in 1..(n + 1) : Append(q, f)[i] = IF i = n + 1 THEN f ELSE q[i]
  BY <1>2, <1>5
<1>9. q2 = Append(q, f)
  <2> HIDE DEF q, q2, n
  <2> QED BY <1>2, <1>6, <1>7, <1>8, SeqEqual
<1> HIDE DEF q, q2, n, e2
<1>10. Len(q) < FIFO_SIZE - 1
  BY <1>2, <1>5, TxAssumption
<1> QED BY <1>9, <1>10 DEF q, q2, e2, PushIsAppend

\* A pop takes the head, and clears a slot that no waiting frame is in.
LEMMA PopTakesHead ==
  ASSUME NEW w \in 0..(FIFO_SIZE - 1), NEW r \in 0..(FIFO_SIZE - 1),
         NEW S, NEW e \in [0..(FIFO_SIZE - 1) -> S], NEW x \in S, w # r
  PROVE  PopIsTail(e, w, r, x)
<1> DEFINE e2 == [e EXCEPT ![r] = x]
           n  == Count(w, r)
           q  == Waiting(e, w, r)
           q2 == Waiting(e2, w, Advance(r))
<1>1. e2 \in [0..(FIFO_SIZE - 1) -> S] /\ Advance(r) \in 0..(FIFO_SIZE - 1)
  BY AdvanceRange
<1>2. n \in 1..(FIFO_SIZE - 1) /\ Count(w, Advance(r)) = n - 1
  BY TxAssumption DEF Count, Advance
<1>3. Slot(r, 1) = r
      /\ \A i \in 1..(n - 1) : Slot(Advance(r), i) = Slot(r, i + 1) /\ Slot(r, i + 1) # r
  BY TxAssumption, <1>2 DEF Slot, Advance
<1>4. \A i \in 1..n : Slot(r, i) \in 0..(FIFO_SIZE - 1)
  <2> HIDE DEF n
  <2>1. \A i \in 1..n : i \in 1..FIFO_SIZE
    BY <1>2, TxAssumption
  <2> QED BY <2>1, SlotRange
<1>5. q \in Seq(S) /\ Len(q) = n /\ \A i \in 1..n : q[i] = e[Slot(r, i)]
  BY WaitingType DEF WaitingIsSeq
<1>6. q2 \in Seq(S) /\ Len(q2) = n - 1
      /\ \A i \in 1..(n - 1) : q2[i] = e2[Slot(Advance(r), i)]
  <2> DEFINE c == Advance(r)
  <2>1. c \in 0..(FIFO_SIZE - 1) /\ Count(w, c) = n - 1
    BY <1>1, <1>2
  <2> HIDE DEF e2, n, c
  <2>2. WaitingIsSeq(e2, w, c, S)
    BY <1>1, <2>1, WaitingType
  <2> QED BY <2>1, <2>2 DEF c, WaitingIsSeq
<1>7. \A i \in 1..(n - 1) : q2[i] = q[i + 1]
  <2>1. \A i \in 1..(n - 1) : e2[Slot(Advance(r), i)] = e[Slot(r, i + 1)]
    <3> HIDE DEF n
    <3> QED BY <1>2, <1>3, <1>4
  <2> HIDE DEF q, q2, n, e2
  <2> QED BY <1>2, <1>5, <1>6, <2>1
<1>8. q # <<>> /\ Head(q) = e[r]
  BY <1>2, <1>3, <1>5
<1>9. Tail(q) \in Seq(S) /\ Len(Tail(q)) = n - 1
      /\ \A i \in 1..(n - 1) : Tail(q)[i] = q[i + 1]
  <2> HIDE DEF q, n
  <2> QED BY <1>2, <1>5, <1>8, HeadTailProperties
<1>10. q2 = Tail(q)
  <2> HIDE DEF q, q2, n
  <2> QED BY <1>2, <1>6, <1>7, <1>9, SeqEqual
<1> QED BY <1>8, <1>10 DEF PopIsTail

LEMMA ClearEmpties ==
  ASSUME NEW e
  PROVE  Waiting(e, 0, 0) = <<>>
BY TxAssumption DEF Waiting, Count

-------------------------------------------------------------------------------
(* Type correctness.                                                           *)

LEMMA PopType ==
  ASSUME TxTypeOK, NEW b \in Buses, process_can(b)
  PROVE  /\ elems' \in [Buses -> [0..(FIFO_SIZE - 1) -> Frames \cup {NoFrame}]]
         /\ w_ptr' \in [Buses -> 0..(FIFO_SIZE - 1)]
         /\ r_ptr' \in [Buses -> 0..(FIFO_SIZE - 1)]
         /\ tx_frame' \in [Buses -> Frames \cup {NoFrame}]
         /\ ep3' \in {"open", "processing", "nak"}
         /\ batch' \in 0..(MIN_SLOTS - 1)
         /\ stale' \in [Buses -> 0..(FIFO_SIZE - 1)]
         /\ halted' \in [Buses -> BOOLEAN]
         /\ shared' \in SUBSET Buses
<1>1. CASE ~CanTake(b)
  BY <1>1 DEF process_can, TxTypeOK, usbVars
<1>2. CASE CanTake(b)
  <2>1. Pop(b) /\ UNCHANGED w_ptr
    BY <1>2 DEF process_can
  <2>2. Advance(r_ptr[b]) \in 0..(FIFO_SIZE - 1)
    BY AdvanceRange DEF TxTypeOK
  <2>3. r_ptr' \in [Buses -> 0..(FIFO_SIZE - 1)] /\ w_ptr' \in [Buses -> 0..(FIFO_SIZE - 1)]
    BY <2>1, <2>2 DEF Pop, TxTypeOK
  <2> DEFINE F == Frames \cup {NoFrame}
  <2>a. elems[b] \in [0..(FIFO_SIZE - 1) -> F] /\ r_ptr[b] \in 0..(FIFO_SIZE - 1) /\ NoFrame \in F
    BY DEF TxTypeOK
  <2>b. [elems[b] EXCEPT ![r_ptr[b]] = NoFrame] \in [0..(FIFO_SIZE - 1) -> F]
        /\ elems[b][r_ptr[b]] \in F
    <3> HIDE DEF F
    <3> QED BY <2>a
  <2>4. elems' \in [Buses -> [0..(FIFO_SIZE - 1) -> F]] /\ tx_frame' \in [Buses -> F]
    <3> HIDE DEF F
    <3>1. elems \in [Buses -> [0..(FIFO_SIZE - 1) -> F]] /\ tx_frame \in [Buses -> F]
      BY DEF F, TxTypeOK
    <3>2. elems' = [elems EXCEPT ![b] = [elems[b] EXCEPT ![r_ptr[b]] = NoFrame]]
      BY <2>1, <3>1 DEF Pop
    <3>3. tx_frame' = tx_frame \/ tx_frame' = [tx_frame EXCEPT ![b] = elems[b][r_ptr[b]]]
      BY <2>1 DEF Pop
    <3> QED BY <3>1, <3>2, <3>3, <2>b
  <2>5. stale' \in [Buses -> 0..(FIFO_SIZE - 1)]
    BY <2>1, TxAssumption DEF Pop, TxTypeOK
  <2>6. halted' \in [Buses -> BOOLEAN]
    BY <2>1 DEF Pop, TxTypeOK
  <2>7. ep3' \in {"open", "processing", "nak"} /\ batch' \in 0..(MIN_SLOTS - 1)
    BY <2>1 DEF Pop, TxTypeOK, refresh, Refreshed
  <2>8. shared' \in SUBSET Buses
    BY <2>1 DEF Pop, TxTypeOK, refresh
  <2> QED BY <2>3, <2>4, <2>5, <2>6, <2>7, <2>8
<1> QED BY <1>1, <1>2

LEMMA ClearType ==
  ASSUME TxTypeOK, NEW b \in Buses, can_clear(b)
  PROVE  /\ elems' \in [Buses -> [0..(FIFO_SIZE - 1) -> Frames \cup {NoFrame}]]
         /\ w_ptr' \in [Buses -> 0..(FIFO_SIZE - 1)]
         /\ r_ptr' \in [Buses -> 0..(FIFO_SIZE - 1)]
         /\ tx_frame' \in [Buses -> Frames \cup {NoFrame}]
         /\ ep3' \in {"open", "processing", "nak"}
         /\ batch' \in 0..(MIN_SLOTS - 1)
         /\ stale' \in [Buses -> 0..(FIFO_SIZE - 1)]
         /\ halted' \in [Buses -> BOOLEAN]
         /\ shared' \in SUBSET Buses
<1>1. 0 \in 0..(FIFO_SIZE - 1)
  BY TxAssumption
<1>2. shared' \in SUBSET Buses
  BY DEF can_clear, refresh, TxTypeOK
<1>3. halted' \in [Buses -> BOOLEAN]
  BY DEF can_clear, TxTypeOK
<1>4. elems' \in [Buses -> [0..(FIFO_SIZE - 1) -> Frames \cup {NoFrame}]]
  BY DEF can_clear, TxTypeOK, EmptyRing
<1> QED BY <1>1, <1>2, <1>3, <1>4 DEF can_clear, refresh, Refreshed, TxTypeOK

LEMMA SendType ==
  ASSUME TxTypeOK, NEW b \in Buses, NEW f \in Frames, NEW l \in Levels, can_send(l, b, f)
  PROVE  /\ board' \in Boards
         /\ elems' \in [Buses -> [0..(FIFO_SIZE - 1) -> Frames \cup {NoFrame}]]
         /\ w_ptr' \in [Buses -> 0..(FIFO_SIZE - 1)]
         /\ r_ptr' \in [Buses -> 0..(FIFO_SIZE - 1)]
         /\ tx_frame' \in [Buses -> Frames \cup {NoFrame}]
         /\ tx_irq' \in [Buses -> BOOLEAN]
         /\ pc' \in [Levels -> {"idle"} \cup SendSteps \cup InitSteps]
         /\ stale' \in [Buses -> 0..(FIFO_SIZE - 1)]
         /\ halted' \in [Buses -> BOOLEAN]
<1>1. Advance(w_ptr[b]) \in 0..(FIFO_SIZE - 1)
  BY AdvanceRange DEF TxTypeOK
<1>2. tx_irq' \in [Buses -> BOOLEAN] /\ halted' \in [Buses -> BOOLEAN]
  BY DEF can_send, TxTypeOK
<1>3. pc' \in [Levels -> {"idle"} \cup SendSteps \cup InitSteps]
  BY DEF can_send, TxTypeOK, Goto, SendPc, SendSteps
<1>4. elems' \in [Buses -> [0..(FIFO_SIZE - 1) -> Frames \cup {NoFrame}]]
  <2> DEFINE F == Frames \cup {NoFrame}
  <2>1. elems \in [Buses -> [0..(FIFO_SIZE - 1) -> F]] /\ f \in F /\ w_ptr[b] \in 0..(FIFO_SIZE - 1)
    BY DEF TxTypeOK
  <2> HIDE DEF F
  <2>2. elems' = elems \/ elems' = [elems EXCEPT ![b] = [elems[b] EXCEPT ![w_ptr[b]] = f]]
    BY <2>1 DEF can_send, can_push
  <2>3. [elems[b] EXCEPT ![w_ptr[b]] = f] \in [0..(FIFO_SIZE - 1) -> F]
    BY <2>1
  <2> QED BY <2>1, <2>2, <2>3 DEF F
<1>5. w_ptr' \in [Buses -> 0..(FIFO_SIZE - 1)]
  BY <1>1 DEF can_send, can_push, TxTypeOK
<1> QED BY <1>2, <1>3, <1>4, <1>5 DEF can_send, TxTypeOK

\* Every step keeps the types.
LEMMA TypeStep == TxTypeOK /\ [TxNext]_txVars => TxTypeOK'
<1> SUFFICES ASSUME TxTypeOK, [TxNext]_txVars PROVE TxTypeOK'
  OBVIOUS
<1> USE DEF Levels
<1>1. ASSUME NEW b \in Buses, NEW f \in FwdFrames, Forward(b, f) PROVE TxTypeOK'
  <2>1. f \in Frames /\ can_send("isr", b, f)
    BY <1>1 DEF Forward, Frames
  <2>2. ep3' = ep3 /\ batch' = batch /\ lost_alone' \in BOOLEAN /\ shared' \in SUBSET Buses
    BY <1>1 DEF Forward, TxTypeOK
  <2> QED BY <2>1, <2>2, SendType DEF TxTypeOK
<1>2. ASSUME NEW b \in Buses, NEW f \in HostTx(b), HostSend(b, f) PROVE TxTypeOK'
  <2>1. f \in Frames /\ can_send(HostLevel, b, f) /\ HostLevel \in Levels
    BY <1>2 DEF HostSend, Frames, HostTx, HostLevel
  <2>2. ep3' \in {"open", "processing", "nak"} /\ batch' \in 0..(MIN_SLOTS - 1)
    BY <1>2, TxAssumption DEF HostSend, TxTypeOK, usbVars
  <2>3. shared' \in SUBSET Buses /\ lost_alone' \in BOOLEAN
    BY <1>2 DEF HostSend, TxTypeOK, usbVars
  <2> QED BY <2>1, <2>2, <2>3, SendType DEF TxTypeOK
<1>3. CASE XferComplete
  <2>1. ep3' \in {"open", "processing", "nak"} /\ batch' = batch
    BY <1>3 DEF XferComplete, refresh, Refreshed
  <2>2. shared' \in SUBSET Buses
    BY <1>3 DEF XferComplete, refresh, TxTypeOK
  <2>3. UNCHANGED <<board, elems, w_ptr, r_ptr, tx_frame, tx_irq, pc, stale, halted, lost_alone>>
    BY <1>3 DEF XferComplete, ringVars
  <2> QED BY <2>1, <2>2, <2>3 DEF TxTypeOK
<1>4. ASSUME NEW l \in Levels, Process(l) PROVE TxTypeOK'
  <2>1. PICK b \in Buses : process_can(b)
    BY <1>4 DEF Process
  <2>2. pc' \in [Levels -> {"idle"} \cup SendSteps \cup InitSteps]
    BY <1>4 DEF Process, Goto, TxTypeOK
  <2>3. UNCHANGED <<board, tx_irq, lost_alone>>
    BY <1>4 DEF Process
  <2> QED BY <2>1, <2>2, <2>3, PopType DEF TxTypeOK
<1>5. ASSUME NEW b \in Buses, TxIrq(b) PROVE TxTypeOK'
  <2>1. process_can(b) /\ UNCHANGED <<board, pc, lost_alone>>
    BY <1>5 DEF TxIrq
  <2>2. tx_irq' \in [Buses -> BOOLEAN]
    BY <1>5 DEF TxIrq, TxTypeOK
  <2> QED BY <2>1, <2>2, PopType DEF TxTypeOK
<1>6. ASSUME NEW b \in Buses, Transmit(b) \/ can_sce(b) PROVE TxTypeOK'
  <2>1. UNCHANGED <<board, elems, w_ptr, r_ptr, pc, ep3, batch, shared, stale, halted, lost_alone>>
    BY <1>6 DEF Transmit, can_sce, ringVars, usbVars
  <2>2. tx_irq' \in [Buses -> BOOLEAN] /\ tx_frame' \in [Buses -> Frames \cup {NoFrame}]
    BY <1>6 DEF Transmit, can_sce, TxTypeOK
  <2> QED BY <2>1, <2>2 DEF TxTypeOK
<1>7. CASE SetSafetyMode
  <2>1. UNCHANGED <<board, elems, w_ptr, r_ptr, tx_frame, tx_irq, ep3, batch, shared, halted, lost_alone>>
    BY <1>7 DEF SetSafetyMode, ringVars, usbVars
  <2>2. pc' \in [Levels -> {"idle"} \cup SendSteps \cup InitSteps]
    BY <1>7 DEF SetSafetyMode, Goto, TxTypeOK, InitSteps
  <2>3. \A b \in Buses : Count(w_ptr[b], r_ptr[b]) \in 0..(FIFO_SIZE - 1)
    BY CountRange DEF TxTypeOK
  <2>4. stale' \in [Buses -> 0..(FIFO_SIZE - 1)]
    BY <1>7, <2>3 DEF SetSafetyMode
  <2> QED BY <2>1, <2>2, <2>4 DEF TxTypeOK
<1>8. ASSUME NEW l \in Levels, InitStep(l) PROVE TxTypeOK'
  <2>1. UNCHANGED <<board, tx_irq, lost_alone>>
    BY <1>8 DEF InitStep
  <2>2. pc' \in [Levels -> {"idle"} \cup SendSteps \cup InitSteps]
    BY <1>8 DEF InitStep, ClearRing0, InitCan1, InitCan2, ClearRing2, Goto, TxTypeOK, InitSteps
  <2>3. CASE \E b \in Buses : can_clear(b)
    BY <2>1, <2>2, <2>3, ClearType DEF TxTypeOK
  <2>4. CASE \E b \in Buses : process_can(b)
    BY <2>1, <2>2, <2>4, PopType DEF TxTypeOK
  <2>5. CASE UNCHANGED <<ringVars, tx_frame, halted, stale, usbVars>>
    BY <2>1, <2>2, <2>5 DEF TxTypeOK, ringVars, usbVars
  <2> QED BY <1>8, <2>3, <2>4, <2>5 DEF InitStep, ClearRing0, InitCan1, InitCan2, ClearRing2, Buses
<1>9. ASSUME NEW b \in Buses, ClearRequest(b) PROVE TxTypeOK'
  <2>1. can_clear(b) /\ UNCHANGED <<board, tx_irq, pc, lost_alone>>
    BY <1>9 DEF ClearRequest
  <2> QED BY <2>1, ClearType DEF TxTypeOK
<1>10. CASE UNCHANGED txVars
  BY <1>10 DEF txVars, ringVars, usbVars, TxTypeOK
<1> QED BY <1>1, <1>2, <1>3, <1>4, <1>5, <1>6, <1>7, <1>8, <1>9, <1>10 DEF TxNext

LEMMA TypeInit == TxInit => TxTypeOK
<1> SUFFICES ASSUME TxInit PROVE TxTypeOK
  OBVIOUS
<1>1. tx_irq \in [Buses -> BOOLEAN] /\ halted \in [Buses -> BOOLEAN]
      /\ shared \in SUBSET Buses /\ lost_alone \in BOOLEAN
  BY DEF TxInit
<1> QED BY <1>1, TxAssumption DEF TxInit, TxTypeOK, EmptyRing

\* The transmit path keeps its types: no pointer leaves its ring.
THEOREM TxTypeCorrect == TxSpec => []TxTypeOK
BY TypeInit, TypeStep, PTL DEF TxSpec

-------------------------------------------------------------------------------
(* The rings implement the queue.                                              *)

LEMMA PushIsAccept ==
  ASSUME TxTypeOK, NEW b \in Buses, NEW f \in Frames, can_push(b, f),
         UNCHANGED <<r_ptr, tx_frame>>
  PROVE  [Fifo!FifoNext]_(Fifo!fifoVars)
<1> DEFINE F == Frames \cup {NoFrame}
<1>1. CASE Full(b)
  BY <1>1 DEF can_push, Fifo!fifoVars, Contents
<1>2. CASE ~Full(b)
  <2>1. /\ w_ptr[b] \in 0..(FIFO_SIZE - 1) /\ r_ptr[b] \in 0..(FIFO_SIZE - 1)
        /\ elems[b] \in [0..(FIFO_SIZE - 1) -> F] /\ f \in F
        /\ Advance(w_ptr[b]) # r_ptr[b]
    BY <1>2 DEF TxTypeOK, Full
  <2>2. /\ elems'[b] = [elems[b] EXCEPT ![w_ptr[b]] = f]
        /\ w_ptr'[b] = Advance(w_ptr[b]) /\ r_ptr'[b] = r_ptr[b]
        /\ \A c \in Buses \ {b} : /\ elems'[c] = elems[c] /\ w_ptr'[c] = w_ptr[c]
                                  /\ r_ptr'[c] = r_ptr[c]
    BY <1>2 DEF can_push, TxTypeOK
  <2>3. /\ Waiting(elems'[b], w_ptr'[b], r_ptr'[b])
              = Append(Waiting(elems[b], w_ptr[b], r_ptr[b]), f)
        /\ Len(Waiting(elems[b], w_ptr[b], r_ptr[b])) < FIFO_SIZE - 1
    <3> HIDE DEF F
    <3>1. PushIsAppend(elems[b], w_ptr[b], r_ptr[b], f)
      BY <2>1, PushAppends
    <3> QED BY <2>2, <3>1 DEF PushIsAppend
  <2>4. Contents(b)' = Append(Contents(b), f) /\ Len(Contents(b)) < FIFO_SIZE - 1
    BY <2>3 DEF Contents
  <2>5. \A c \in Buses \ {b} : Contents(c)' = Contents(c)
    BY <2>2 DEF Contents
  <2>6. Fifo!Accept(b, f)
    BY <2>4, <2>5 DEF Fifo!Accept
  <2> QED BY <2>6 DEF Fifo!FifoNext
<1> QED BY <1>1, <1>2

LEMMA ProcessIsTakeOrDiscard ==
  ASSUME TxTypeOK, NEW b \in Buses, process_can(b)
  PROVE  [Fifo!FifoNext]_(Fifo!fifoVars)
<1> DEFINE F == Frames \cup {NoFrame}
<1>1. CASE ~CanTake(b)
  BY <1>1 DEF process_can, Fifo!fifoVars, Contents
<1>2. CASE CanTake(b)
  <2>1. /\ w_ptr[b] \in 0..(FIFO_SIZE - 1) /\ r_ptr[b] \in 0..(FIFO_SIZE - 1)
        /\ elems[b] \in [0..(FIFO_SIZE - 1) -> F] /\ NoFrame \in F
        /\ w_ptr[b] # r_ptr[b] /\ tx_frame[b] = NoFrame
    BY <1>2 DEF TxTypeOK, CanTake
  <2>2. Pop(b) /\ UNCHANGED w_ptr
    BY <1>2 DEF process_can
  <2>3. /\ elems'[b] = [elems[b] EXCEPT ![r_ptr[b]] = NoFrame]
        /\ r_ptr'[b] = Advance(r_ptr[b]) /\ w_ptr'[b] = w_ptr[b]
        /\ \A c \in Buses \ {b} : /\ elems'[c] = elems[c] /\ w_ptr'[c] = w_ptr[c]
                                  /\ r_ptr'[c] = r_ptr[c]
    BY <2>2 DEF Pop, TxTypeOK
  <2>4. /\ Waiting(elems[b], w_ptr[b], r_ptr[b]) # <<>>
        /\ Head(Waiting(elems[b], w_ptr[b], r_ptr[b])) = elems[b][r_ptr[b]]
        /\ Waiting(elems'[b], w_ptr'[b], r_ptr'[b])
              = Tail(Waiting(elems[b], w_ptr[b], r_ptr[b]))
    <3> HIDE DEF F
    <3>1. PopIsTail(elems[b], w_ptr[b], r_ptr[b], NoFrame)
      BY <2>1, PopTakesHead
    <3> QED BY <2>3, <3>1 DEF PopIsTail
  <2>5. /\ Contents(b) # <<>> /\ Head(Contents(b)) = elems[b][r_ptr[b]]
        /\ Contents(b)' = Tail(Contents(b))
    BY <2>4 DEF Contents
  <2>6. \A c \in Buses \ {b} : Contents(c)' = Contents(c)
    BY <2>3 DEF Contents
  <2>7. CASE elems[b][r_ptr[b]] \in BadFrames
    <3>1. tx_frame' = tx_frame
      BY <2>2, <2>7 DEF Pop
    <3>2. Fifo!Discard(b)
      BY <2>5, <2>6, <2>7, <3>1 DEF Fifo!Discard
    <3> QED BY <3>2 DEF Fifo!FifoNext
  <2>8. CASE elems[b][r_ptr[b]] \notin BadFrames
    <3>1. tx_frame' = [tx_frame EXCEPT ![b] = elems[b][r_ptr[b]]]
      BY <2>2, <2>8 DEF Pop
    <3>2. Fifo!Take(b)
      BY <2>1, <2>5, <2>6, <2>8, <3>1 DEF Fifo!Take
    <3> QED BY <3>2 DEF Fifo!FifoNext
  <2> QED BY <2>7, <2>8
<1> QED BY <1>1, <1>2

LEMMA ClearIsClear ==
  ASSUME TxTypeOK, NEW b \in Buses, can_clear(b)
  PROVE  [Fifo!FifoNext]_(Fifo!fifoVars)
<1>1. /\ w_ptr'[b] = 0 /\ r_ptr'[b] = 0
      /\ \A c \in Buses \ {b} : /\ elems'[c] = elems[c] /\ w_ptr'[c] = w_ptr[c]
                                /\ r_ptr'[c] = r_ptr[c]
      /\ tx_frame' = tx_frame
  BY DEF can_clear, TxTypeOK
<1>2. Contents(b)' = <<>>
  BY <1>1, ClearEmpties DEF Contents
<1>3. \A c \in Buses \ {b} : Contents(c)' = Contents(c)
  BY <1>1 DEF Contents
<1>4. Fifo!Clear(b)
  BY <1>1, <1>2, <1>3 DEF Fifo!Clear
<1> QED BY <1>4 DEF Fifo!FifoNext

LEMMA FifoStep == TxTypeOK /\ [TxNext]_txVars => [Fifo!FifoNext]_(Fifo!fifoVars)
<1> SUFFICES ASSUME TxTypeOK, [TxNext]_txVars PROVE [Fifo!FifoNext]_(Fifo!fifoVars)
  OBVIOUS
<1> USE DEF Levels
<1>1. ASSUME NEW b \in Buses, NEW f \in FwdFrames, Forward(b, f)
      PROVE  [Fifo!FifoNext]_(Fifo!fifoVars)
  <2>1. f \in Frames /\ can_push(b, f) /\ UNCHANGED <<r_ptr, tx_frame>>
    BY <1>1 DEF Forward, can_send, Frames
  <2> QED BY <2>1, PushIsAccept
<1>2. ASSUME NEW b \in Buses, NEW f \in HostTx(b), HostSend(b, f) PROVE [Fifo!FifoNext]_(Fifo!fifoVars)
  <2>1. f \in Frames /\ can_push(b, f) /\ UNCHANGED <<r_ptr, tx_frame>>
    BY <1>2 DEF HostSend, can_send, Frames, HostTx
  <2> QED BY <2>1, PushIsAccept
<1>3. CASE XferComplete
  BY <1>3 DEF XferComplete, ringVars, Fifo!fifoVars, Contents
<1>4. ASSUME NEW l \in Levels, Process(l) PROVE [Fifo!FifoNext]_(Fifo!fifoVars)
  BY <1>4, ProcessIsTakeOrDiscard DEF Process
<1>5. ASSUME NEW b \in Buses, TxIrq(b) PROVE [Fifo!FifoNext]_(Fifo!fifoVars)
  BY <1>5, ProcessIsTakeOrDiscard DEF TxIrq
<1>6. ASSUME NEW b \in Buses, Transmit(b) \/ can_sce(b) PROVE [Fifo!FifoNext]_(Fifo!fifoVars)
  <2>1. /\ tx_frame' = [tx_frame EXCEPT ![b] = NoFrame]
        /\ UNCHANGED <<elems, w_ptr, r_ptr>>
    BY <1>6 DEF Transmit, can_sce, ringVars
  <2>2. Fifo!Release(b)
    BY <2>1 DEF Fifo!Release, Contents
  <2> QED BY <2>2 DEF Fifo!FifoNext
<1>7. CASE SetSafetyMode
  BY <1>7 DEF SetSafetyMode, ringVars, Fifo!fifoVars, Contents
<1>8. ASSUME NEW l \in Levels, InitStep(l) PROVE [Fifo!FifoNext]_(Fifo!fifoVars)
  <2>1. CASE \E b \in Buses : can_clear(b)
    BY <2>1, ClearIsClear
  <2>2. CASE \E b \in Buses : process_can(b)
    BY <2>2, ProcessIsTakeOrDiscard
  <2>3. CASE UNCHANGED <<ringVars, tx_frame>>
    BY <2>3 DEF ringVars, Fifo!fifoVars, Contents
  <2> QED BY <1>8, <2>1, <2>2, <2>3 DEF InitStep, ClearRing0, InitCan1, InitCan2, ClearRing2, Buses
<1>9. ASSUME NEW b \in Buses, ClearRequest(b) PROVE [Fifo!FifoNext]_(Fifo!fifoVars)
  BY <1>9, ClearIsClear DEF ClearRequest
<1>10. CASE UNCHANGED txVars
  BY <1>10 DEF txVars, ringVars, Fifo!fifoVars, Contents
<1> QED BY <1>1, <1>2, <1>3, <1>4, <1>5, <1>6, <1>7, <1>8, <1>9, <1>10 DEF TxNext

LEMMA FifoStart == TxInit => Fifo!FifoInit
<1> SUFFICES ASSUME TxInit PROVE Fifo!FifoInit
  OBVIOUS
<1>1. \A b \in Buses : w_ptr[b] = 0 /\ r_ptr[b] = 0
  BY DEF TxInit
<1>2. \A b \in Buses : Contents(b) = <<>>
  BY <1>1, ClearEmpties DEF Contents
<1> QED BY <1>2 DEF TxInit, Fifo!FifoInit

\* The rings, the mailbox and the mode changes implement the queue of TxFifo, for
\* rings of every size and on both boards: order is kept, nothing is duplicated,
\* and no frame with a bad checksum reaches the controller.
THEOREM RingImplementsFifo == TxSpec => RingIsFifo
<1>1. TxInit => Fifo!FifoInit
  BY FifoStart
<1>2. TxTypeOK /\ [TxNext]_txVars => [Fifo!FifoNext]_(Fifo!fifoVars)
  BY FifoStep
<1> QED BY <1>1, <1>2, TxTypeCorrect, PTL DEF TxSpec, RingIsFifo, Fifo!FifoSpec

-------------------------------------------------------------------------------
(* Mode changes.  Only the level of the host changes modes, and the steps of   *)
(* can_init_all leave ring 0 empty of old frames first, then ring 2.           *)

OldFramesGo ==
  /\ \A l \in Levels : pc[l] \in InitSteps => l = HostLevel
  /\ pc[HostLevel] # "clear0" => stale[0] = 0
  /\ pc[HostLevel] \notin InitSteps => stale[2] = 0

LEMMA OldFramesStep == TxTypeOK /\ OldFramesGo /\ [TxNext]_txVars => OldFramesGo'
<1> SUFFICES ASSUME TxTypeOK, OldFramesGo, [TxNext]_txVars PROVE OldFramesGo'
  OBVIOUS
<1> USE DEF Levels, Buses, InitSteps
<1>0. /\ HostLevel \in Levels /\ board' = board /\ HostLevel' = HostLevel
      /\ pc \in [Levels -> {"idle"} \cup SendSteps \cup InitSteps]
      /\ stale \in [Buses -> Nat]
  <2>1. board' = board
    BY DEF TxNext, Forward, can_send, HostSend, XferComplete, Process, TxIrq, Transmit, can_sce,
           SetSafetyMode, InitStep, ClearRequest, txVars
  <2> QED BY <2>1, TxAssumption DEF HostLevel, TxTypeOK
\* A step that starts no mode change and ends none, and makes no frame older.
<1>a. ASSUME \A b \in Buses : stale[b] = 0 => stale'[b] = 0,
             \A l \in Levels : pc'[l] = pc[l] \/ (pc[l] \notin InitSteps /\ pc'[l] \notin InitSteps)
      PROVE  OldFramesGo'
  BY <1>a, <1>0 DEF OldFramesGo
<1>p. ASSUME NEW b \in Buses, process_can(b)
      PROVE  \A c \in Buses : stale[c] = 0 => stale'[c] = 0
  BY <1>p, <1>0 DEF process_can, Pop
<1>c. ASSUME NEW b \in Buses, can_clear(b)
      PROVE  /\ \A c \in Buses : stale[c] = 0 => stale'[c] = 0
             /\ stale'[b] = 0
  BY <1>c, <1>0 DEF can_clear
<1>1. ASSUME NEW b \in Buses, NEW f \in FwdFrames, Forward(b, f) PROVE OldFramesGo'
  <2>1. stale' = stale /\ pc["isr"] = "idle" /\ pc' = [pc EXCEPT !["isr"] = SendPc(b)]
    BY <1>1 DEF Forward, can_send, Goto, Free
  <2> QED BY <2>1, <1>a, <1>0 DEF SendPc
<1>2. ASSUME NEW b \in Buses, NEW f \in HostTx(b), HostSend(b, f) PROVE OldFramesGo'
  <2>1. stale' = stale /\ pc[HostLevel] = "idle" /\ pc' = [pc EXCEPT ![HostLevel] = SendPc(b)]
    BY <1>2 DEF HostSend, can_send, Goto, Free
  <2> QED BY <2>1, <1>a, <1>0 DEF SendPc
<1>3. CASE XferComplete
  BY <1>3, <1>a DEF XferComplete
<1>4. ASSUME NEW l \in Levels, Process(l) PROVE OldFramesGo'
  <2>1. PICK b \in Buses : pc[l] = SendPc(b) /\ process_can(b)
    BY <1>4 DEF Process
  <2>2. pc' = [pc EXCEPT ![l] = "idle"] /\ pc[l] \notin InitSteps
    BY <1>4, <2>1 DEF Process, Goto, SendPc
  <2> QED BY <2>1, <2>2, <1>p, <1>a, <1>0
<1>5. ASSUME NEW b \in Buses, TxIrq(b) PROVE OldFramesGo'
  <2>1. process_can(b) /\ pc' = pc
    BY <1>5 DEF TxIrq
  <2> QED BY <2>1, <1>p, <1>a, <1>0
<1>6. ASSUME NEW b \in Buses, Transmit(b) \/ can_sce(b) PROVE OldFramesGo'
  BY <1>6, <1>a DEF Transmit, can_sce
<1>7. CASE SetSafetyMode
  BY <1>7, <1>0 DEF SetSafetyMode, Goto, Free, OldFramesGo
<1>8. ASSUME NEW l \in Levels, InitStep(l) PROVE OldFramesGo'
  <2>1. l = HostLevel
    BY <1>8 DEF InitStep, ClearRing0, InitCan1, InitCan2, ClearRing2, OldFramesGo
  <2>2. CASE ClearRing0(l)
    BY <2>1, <2>2, <1>0, <1>c DEF ClearRing0, Goto, OldFramesGo
  <2>3. CASE InitCan1(l)
    <3>1. pc[l] = "init0" /\ pc' = [pc EXCEPT ![l] = "init1"] /\ stale[0] = 0
      BY <2>1, <2>3 DEF InitCan1, Goto, OldFramesGo
    <3>2. stale'[0] = 0
      BY <2>3, <1>p, <3>1 DEF InitCan1
    <3> QED BY <2>1, <1>0, <3>1, <3>2 DEF OldFramesGo
  <2>4. CASE InitCan2(l)
    <3>1. pc[l] = "init1" /\ pc' = [pc EXCEPT ![l] = "clear2"] /\ stale[0] = 0
      BY <2>1, <2>4 DEF InitCan2, Goto, OldFramesGo
    <3>2. stale'[0] = 0
      BY <2>4, <1>p, <3>1 DEF InitCan2
    <3> QED BY <2>1, <1>0, <3>1, <3>2 DEF OldFramesGo
  <2>5. CASE ClearRing2(l)
    <3>1. pc[l] = "clear2" /\ pc' = [pc EXCEPT ![l] = "idle"] /\ stale[0] = 0
      BY <2>1, <2>5 DEF ClearRing2, Goto, OldFramesGo
    <3>2. stale'[0] = 0 /\ stale'[2] = 0
      BY <2>5, <1>c, <3>1 DEF ClearRing2
    <3> QED BY <2>1, <1>0, <3>1, <3>2 DEF OldFramesGo
  <2> QED BY <1>8, <2>2, <2>3, <2>4, <2>5 DEF InitStep
<1>9. ASSUME NEW b \in Buses, ClearRequest(b) PROVE OldFramesGo'
  BY <1>9, <1>c, <1>a DEF ClearRequest
<1>10. CASE UNCHANGED txVars
  BY <1>10, <1>a DEF txVars
<1> QED BY <1>1, <1>2, <1>3, <1>4, <1>5, <1>6, <1>7, <1>8, <1>9, <1>10 DEF TxNext

\* After a mode change no ring holds a frame that the old mode let pass.
THEOREM OldFramesCleared == TxSpec => []ModeChangeEmptiesRings
<1>1. TxInit => OldFramesGo
  BY DEF TxInit, OldFramesGo, Levels, InitSteps, HostLevel, Buses
<1>2. OldFramesGo => ModeChangeEmptiesRings
  BY DEF OldFramesGo, ModeChangeEmptiesRings, Levels, InitSteps, HostLevel, Buses
<1> QED BY <1>1, <1>2, OldFramesStep, TxTypeCorrect, PTL DEF TxSpec

-------------------------------------------------------------------------------
(* A waiting frame is a frame: an invariant of the queue, and so of the rings.  *)

ContentsOK == \A b \in Buses : Contents(b) \in Seq(Frames)

LEMMA ContentsStep == ContentsOK /\ [Fifo!FifoNext]_(Fifo!fifoVars) => ContentsOK'
<1> DEFINE Q == [b \in Buses |-> Contents(b)]
<1> SUFFICES ASSUME ContentsOK, [Fifo!FifoNext]_(Fifo!fifoVars), NEW c \in Buses
             PROVE  Contents(c)' \in Seq(Frames)
  BY DEF ContentsOK
<1>1. Q'[c] = Contents(c)' /\ \A b \in Buses : Q[b] = Contents(b) /\ Q[b] \in Seq(Frames)
  BY DEF ContentsOK
<1>2. ASSUME NEW b \in Buses, NEW f \in Frames, Q' = [Q EXCEPT ![b] = Append(@, f)]
      PROVE  Q'[c] \in Seq(Frames)
  <2>1. Append(Q[b], f) \in Seq(Frames)
    <3> HIDE DEF Q
    <3> QED BY <1>1
  <2>2. Q'[c] = Q[c] \/ Q'[c] = Append(Q[b], f)
    BY <1>2
  <2> HIDE DEF Q
  <2> QED BY <1>1, <2>1, <2>2
<1>3. ASSUME NEW b \in Buses, Q[b] # <<>>, Q' = [Q EXCEPT ![b] = Tail(@)]
      PROVE  Q'[c] \in Seq(Frames)
  <2>1. Tail(Q[b]) \in Seq(Frames)
    <3> HIDE DEF Q
    <3> QED BY <1>1, <1>3, HeadTailProperties
  <2>2. Q'[c] = Q[c] \/ Q'[c] = Tail(Q[b])
    BY <1>3
  <2> HIDE DEF Q
  <2> QED BY <1>1, <2>1, <2>2
<1>4. ASSUME NEW b \in Buses, Q' = [Q EXCEPT ![b] = <<>>]
      PROVE  Q'[c] \in Seq(Frames)
  <2>1. Q'[c] = Q[c] \/ Q'[c] = <<>>
    BY <1>4
  <2>2. <<>> \in Seq(Frames)
    OBVIOUS
  <2>3. Q[c] \in Seq(Frames)
    BY <1>1
  <2> HIDE DEF Q
  <2> QED BY <2>1, <2>2, <2>3
<1>5. CASE Fifo!FifoNext
  <2>1. PICK b \in Buses : \/ \E f \in Frames : Fifo!Accept(b, f)
                           \/ Fifo!Take(b) \/ Fifo!Discard(b) \/ Fifo!Release(b) \/ Fifo!Clear(b)
    BY <1>5 DEF Fifo!FifoNext
  <2>2. CASE \E f \in Frames : Fifo!Accept(b, f)
    BY <2>2, <1>1, <1>2 DEF Fifo!Accept
  <2>3. CASE Fifo!Take(b) \/ Fifo!Discard(b)
    BY <2>3, <1>1, <1>3 DEF Fifo!Take, Fifo!Discard
  <2>4. CASE Fifo!Release(b)
    <3>1. Q' = Q
      BY <2>4 DEF Fifo!Release
    <3> HIDE DEF Q
    <3> QED BY <1>1, <3>1
  <2>5. CASE Fifo!Clear(b)
    BY <2>5, <1>1, <1>4 DEF Fifo!Clear
  <2> QED BY <2>1, <2>2, <2>3, <2>4, <2>5
<1>6. CASE UNCHANGED Fifo!fifoVars
  <2>1. Q' = Q
    BY <1>6 DEF Fifo!fifoVars
  <2> HIDE DEF Q
  <2> QED BY <1>1, <2>1
<1> QED BY <1>5, <1>6

LEMMA ContentsStart == TxInit => ContentsOK
<1> SUFFICES ASSUME TxInit, NEW b \in Buses PROVE Contents(b) \in Seq(Frames)
  BY DEF ContentsOK
<1>1. w_ptr[b] = 0 /\ r_ptr[b] = 0
  BY DEF TxInit
<1>2. Contents(b) = <<>>
  BY <1>1, ClearEmpties DEF Contents
<1> QED BY <1>2

LEMMA HeadIsFrame ==
  ASSUME TxTypeOK, ContentsOK, NEW b \in Buses, w_ptr[b] # r_ptr[b]
  PROVE  elems[b][r_ptr[b]] # NoFrame
<1> DEFINE F == Frames \cup {NoFrame}
<1>1. /\ w_ptr[b] \in 0..(FIFO_SIZE - 1) /\ r_ptr[b] \in 0..(FIFO_SIZE - 1)
      /\ elems[b] \in [0..(FIFO_SIZE - 1) -> F] /\ NoFrame \in F
  BY DEF TxTypeOK
<1> HIDE DEF F
<1>2. PopIsTail(elems[b], w_ptr[b], r_ptr[b], NoFrame)
  BY <1>1, PopTakesHead
<1>3. Contents(b) # <<>> /\ Head(Contents(b)) = elems[b][r_ptr[b]]
  BY <1>2 DEF PopIsTail, Contents
<1>4. Contents(b) \in Seq(Frames)
  BY DEF ContentsOK
<1>5. Head(Contents(b)) \in Frames
  BY <1>3, <1>4, HeadTailProperties
<1> QED BY <1>3, <1>5, TxAssumption

-------------------------------------------------------------------------------
(* Nobody is left waiting.                                                     *)

LEMMA ProcessEndsStall ==
  ASSUME TxTypeOK, ContentsOK, NEW b \in Buses, process_can(b)
  PROVE  /\ w_ptr'[b] # r_ptr'[b] => tx_frame'[b] # NoFrame \/ halted'[b]
         /\ \A c \in Buses \ {b} : /\ w_ptr'[c] = w_ptr[c] /\ r_ptr'[c] = r_ptr[c]
                                   /\ tx_frame'[c] = tx_frame[c] /\ halted'[c] = halted[c]
<1>1. CASE ~CanTake(b)
  BY <1>1 DEF process_can, CanTake
<1>2. CASE CanTake(b)
  <2>1. Pop(b) /\ w_ptr' = w_ptr
    BY <1>2 DEF process_can
  <2>2. \A c \in Buses \ {b} : /\ r_ptr'[c] = r_ptr[c] /\ tx_frame'[c] = tx_frame[c]
                               /\ halted'[c] = halted[c]
    BY <2>1 DEF Pop, TxTypeOK
  <2>3. elems[b][r_ptr[b]] # NoFrame
    BY <1>2, HeadIsFrame DEF CanTake
  <2>4. tx_frame'[b] # NoFrame \/ halted'[b]
    BY <2>1, <2>3 DEF Pop, TxTypeOK
  <2> QED BY <2>1, <2>2, <2>4
<1> QED BY <1>1, <1>2

LEMMA StallStep ==
  TxTypeOK /\ ContentsOK /\ NoSilentStall /\ [TxNext]_txVars => NoSilentStall'
<1> SUFFICES ASSUME TxTypeOK, ContentsOK, NoSilentStall, [TxNext]_txVars, NEW c \in Buses,
                    w_ptr'[c] # r_ptr'[c]
             PROVE  WillProcess(c)' \/ halted'[c]
  BY DEF NoSilentStall
<1> USE DEF Levels, Buses
<1>0. /\ HostLevel \in Levels /\ pc \in [Levels -> {"idle"} \cup SendSteps \cup InitSteps]
      /\ w_ptr[c] # r_ptr[c] => WillProcess(c) \/ halted[c]
  BY TxAssumption DEF HostLevel, TxTypeOK, NoSilentStall
\* What this bus waits for is still to come.
<1>a. ASSUME w_ptr'[c] = w_ptr[c], r_ptr'[c] = r_ptr[c], tx_frame'[c] = tx_frame[c],
             tx_irq[c] => tx_irq'[c] \/ tx_frame'[c] # NoFrame, halted'[c] = halted[c],
             \A l \in Levels : pc'[l] = pc[l] \/ pc[l] = "idle"
      PROVE  WillProcess(c)' \/ halted'[c]
  BY <1>a, <1>0 DEF WillProcess, SendPc
<1>1. ASSUME NEW b \in Buses, NEW f \in FwdFrames, Forward(b, f)
      PROVE  WillProcess(c)' \/ halted'[c]
  <2>1. /\ pc["isr"] = "idle" /\ pc' = [pc EXCEPT !["isr"] = SendPc(b)]
        /\ UNCHANGED <<r_ptr, tx_frame, tx_irq, halted>> /\ can_push(b, f)
    BY <1>1 DEF Forward, can_send, Goto, Free
  <2>2. CASE b = c
    BY <2>1, <2>2, <1>0 DEF WillProcess
  <2>3. CASE b # c
    <3>1. w_ptr'[c] = w_ptr[c]
      BY <2>1, <2>3 DEF can_push, TxTypeOK
    <3> QED BY <2>1, <3>1, <1>0, <1>a
  <2> QED BY <2>2, <2>3
<1>2. ASSUME NEW b \in Buses, NEW f \in HostTx(b), HostSend(b, f) PROVE WillProcess(c)' \/ halted'[c]
  <2>1. /\ pc[HostLevel] = "idle" /\ pc' = [pc EXCEPT ![HostLevel] = SendPc(b)]
        /\ UNCHANGED <<r_ptr, tx_frame, tx_irq, halted>> /\ can_push(b, f)
    BY <1>2 DEF HostSend, can_send, Goto, Free
  <2>2. CASE b = c
    BY <2>1, <2>2, <1>0 DEF WillProcess
  <2>3. CASE b # c
    <3>1. w_ptr'[c] = w_ptr[c]
      BY <2>1, <2>3 DEF can_push, TxTypeOK
    <3> QED BY <2>1, <3>1, <1>0, <1>a
  <2> QED BY <2>2, <2>3
<1>3. CASE XferComplete
  BY <1>3, <1>a DEF XferComplete, ringVars
<1>4. ASSUME NEW l \in Levels, Process(l) PROVE WillProcess(c)' \/ halted'[c]
  <2>1. PICK b \in Buses : pc[l] = SendPc(b) /\ process_can(b)
    BY <1>4 DEF Process
  <2>2. pc' = [pc EXCEPT ![l] = "idle"] /\ tx_irq' = tx_irq
    BY <1>4 DEF Process, Goto
  <2>3. CASE b = c
    BY <2>1, <2>3, ProcessEndsStall DEF WillProcess
  <2>4. CASE b # c
    <3>1. /\ w_ptr'[c] = w_ptr[c] /\ r_ptr'[c] = r_ptr[c]
          /\ tx_frame'[c] = tx_frame[c] /\ halted'[c] = halted[c]
      BY <2>1, <2>4, ProcessEndsStall
    <3>2. WillProcess(c) => WillProcess(c)'
      BY <2>1, <2>2, <2>4, <3>1, <1>0 DEF WillProcess, SendPc
    <3> QED BY <3>1, <3>2, <1>0
  <2> QED BY <2>3, <2>4
<1>5. ASSUME NEW b \in Buses, TxIrq(b) PROVE WillProcess(c)' \/ halted'[c]
  <2>1. process_can(b) /\ pc' = pc /\ \A d \in Buses \ {b} : tx_irq'[d] = tx_irq[d]
    BY <1>5 DEF TxIrq, TxTypeOK
  <2>2. CASE b = c
    BY <2>1, <2>2, ProcessEndsStall DEF WillProcess
  <2>3. CASE b # c
    <3>1. /\ w_ptr'[c] = w_ptr[c] /\ r_ptr'[c] = r_ptr[c]
          /\ tx_frame'[c] = tx_frame[c] /\ halted'[c] = halted[c] /\ tx_irq'[c] = tx_irq[c]
      BY <2>1, <2>3, ProcessEndsStall
    <3> QED BY <2>1, <3>1, <1>a
  <2> QED BY <2>2, <2>3
<1>6. ASSUME NEW b \in Buses, Transmit(b) \/ can_sce(b) PROVE WillProcess(c)' \/ halted'[c]
  <2>1. /\ tx_irq' = [tx_irq EXCEPT ![b] = TRUE] /\ tx_frame' = [tx_frame EXCEPT ![b] = NoFrame]
        /\ UNCHANGED <<w_ptr, r_ptr, pc, halted>>
    BY <1>6 DEF Transmit, can_sce, ringVars
  <2>2. CASE b = c
    <3>1. tx_irq'[c]
      BY <2>1, <2>2 DEF TxTypeOK
    <3> QED BY <3>1 DEF WillProcess
  <2>3. CASE b # c
    <3>1. tx_irq'[c] = tx_irq[c] /\ tx_frame'[c] = tx_frame[c]
      BY <2>1, <2>3 DEF TxTypeOK
    <3> QED BY <2>1, <3>1, <1>a
  <2> QED BY <2>2, <2>3
<1>7. CASE SetSafetyMode
  <2>1. pc'[HostLevel] = "clear0"
    BY <1>7, <1>0 DEF SetSafetyMode, Goto
  <2> QED BY <2>1, <1>0 DEF WillProcess, HostLevel
<1>8. ASSUME NEW l \in Levels, InitStep(l) PROVE WillProcess(c)' \/ halted'[c]
  <2>0. tx_irq' = tx_irq
    BY <1>8 DEF InitStep
  <2>1. CASE ClearRing0(l)
    <3>1. pc'[l] = "init0" /\ w_ptr'[0] = 0 /\ r_ptr'[0] = 0
      BY <2>1, <1>0 DEF ClearRing0, Goto, can_clear, TxTypeOK
    <3> QED BY <3>1 DEF WillProcess
  <2>2. CASE InitCan1(l)
    <3>1. pc'[l] = "init1" /\ process_can(0)
      BY <2>2, <1>0 DEF InitCan1, Goto
    <3>2. CASE c = 0
      BY <3>1, <3>2, ProcessEndsStall DEF WillProcess
    <3> QED BY <3>1, <3>2 DEF WillProcess
  <2>3. CASE InitCan2(l)
    <3>1. pc'[l] = "clear2" /\ pc[l] = "init1" /\ pc' = [pc EXCEPT ![l] = "clear2"]
      BY <2>3, <1>0 DEF InitCan2, Goto
    <3>2. CASE c = 2
      BY <3>1, <3>2 DEF WillProcess
    <3>3. CASE c = 0
      <4>1. /\ w_ptr'[0] = w_ptr[0] /\ r_ptr'[0] = r_ptr[0]
            /\ tx_frame'[0] = tx_frame[0] /\ halted'[0] = halted[0]
        <5>1. CASE process_can(2)
          BY <5>1, ProcessEndsStall
        <5>2. CASE ~process_can(2)
          BY <5>2, <2>3 DEF InitCan2, ringVars
        <5> QED BY <5>1, <5>2
      <4>2. WillProcess(0) => WillProcess(0)'
        BY <2>0, <4>1, <3>1, <1>0 DEF WillProcess, SendPc
      <4> QED BY <4>1, <4>2, <3>3, <1>0
    <3> QED BY <3>2, <3>3
  <2>4. CASE ClearRing2(l)
    <3>1. /\ pc[l] = "clear2" /\ pc' = [pc EXCEPT ![l] = "idle"]
          /\ w_ptr'[2] = 0 /\ r_ptr'[2] = 0 /\ w_ptr'[0] = w_ptr[0] /\ r_ptr'[0] = r_ptr[0]
          /\ tx_frame' = tx_frame /\ halted' = halted
      BY <2>4 DEF ClearRing2, Goto, can_clear, TxTypeOK
    <3>2. WillProcess(0) => WillProcess(0)'
      BY <2>0, <3>1, <1>0 DEF WillProcess, SendPc
    <3> QED BY <3>1, <3>2, <1>0
  <2> QED BY <1>8, <2>1, <2>2, <2>3, <2>4 DEF InitStep
<1>9. ASSUME NEW b \in Buses, ClearRequest(b) PROVE WillProcess(c)' \/ halted'[c]
  <2>1. /\ UNCHANGED <<pc, tx_irq, tx_frame, halted>> /\ w_ptr'[b] = 0 /\ r_ptr'[b] = 0
        /\ \A d \in Buses \ {b} : w_ptr'[d] = w_ptr[d] /\ r_ptr'[d] = r_ptr[d]
    BY <1>9 DEF ClearRequest, can_clear, TxTypeOK
  <2>2. b # c
    BY <2>1
  <2> QED BY <2>1, <2>2, <1>a
<1>10. CASE UNCHANGED txVars
  BY <1>10, <1>a DEF txVars, ringVars
<1> QED BY <1>1, <1>2, <1>3, <1>4, <1>5, <1>6, <1>7, <1>8, <1>9, <1>10 DEF TxNext

\* Frames wait with nobody to fetch them only behind a bad checksum, on both
\* boards, whatever preempts can_send and can_init_all on the F446.
THEOREM StallHasCause == TxSpec => []NoSilentStall
<1>1. TxInit => NoSilentStall
  BY DEF TxInit, NoSilentStall
<1> QED BY <1>1, ContentsStart, ContentsStep, FifoStep, StallStep, TxTypeCorrect, PTL DEF TxSpec

-------------------------------------------------------------------------------
(* Flow control of the endpoint.                                               *)

Slots(b) == can_slots_empty(w_ptr[b], r_ptr[b])

\* While nothing is forwarded to a bus its ring keeps the room that the endpoint
\* was opened for.
RoomKept ==
  board = "F407" => \A b \in Buses \ shared :
    /\ ep3 = "open" => Slots(b) >= MIN_SLOTS
    /\ ep3 = "processing" => Slots(b) >= batch

LEMMA SlotsFacts ==
  ASSUME NEW w \in 0..(FIFO_SIZE - 1), NEW r \in 0..(FIFO_SIZE - 1)
  PROVE  /\ can_slots_empty(w, r) \in 0..(FIFO_SIZE - 1)
         /\ Advance(w) = r <=> can_slots_empty(w, r) = 0
         /\ Advance(w) # r => can_slots_empty(Advance(w), r) = can_slots_empty(w, r) - 1
         /\ w # r => can_slots_empty(w, Advance(r)) = can_slots_empty(w, r) + 1
         /\ can_slots_empty(0, 0) = FIFO_SIZE - 1
BY TxAssumption DEF can_slots_empty, Advance

LEMMA SlotsType ==
  ASSUME TxTypeOK, NEW b \in Buses
  PROVE  Slots(b) \in 0..(FIFO_SIZE - 1)
BY SlotsFacts DEF TxTypeOK, Slots

\* What the three ring operations do to the room of each ring.
LEMMA PushRoom ==
  ASSUME TxTypeOK, NEW b \in Buses, NEW f, can_push(b, f), r_ptr' = r_ptr
  PROVE  /\ Full(b) <=> Slots(b) = 0
         /\ Slots(b)' = IF Full(b) THEN Slots(b) ELSE Slots(b) - 1
         /\ \A c \in Buses \ {b} : Slots(c)' = Slots(c)
<1>1. w_ptr[b] \in 0..(FIFO_SIZE - 1) /\ r_ptr[b] \in 0..(FIFO_SIZE - 1)
  BY DEF TxTypeOK
<1>2. Full(b) <=> Slots(b) = 0
  BY <1>1, SlotsFacts DEF Full, Slots
<1>3. \A c \in Buses \ {b} : Slots(c)' = Slots(c)
  BY DEF can_push, TxTypeOK, Slots
<1>4. CASE Full(b)
  BY <1>2, <1>3, <1>4 DEF can_push, Slots
<1>5. CASE ~Full(b)
  <2>1. w_ptr'[b] = Advance(w_ptr[b]) /\ Advance(w_ptr[b]) # r_ptr[b]
    BY <1>5 DEF can_push, TxTypeOK, Full
  <2>2. Slots(b)' = Slots(b) - 1
    BY <1>1, <2>1, SlotsFacts DEF Slots
  <2> QED BY <1>2, <1>3, <1>5, <2>2
<1> QED BY <1>4, <1>5

LEMMA PopRoom ==
  ASSUME TxTypeOK, NEW b \in Buses, Pop(b), CanTake(b), w_ptr' = w_ptr
  PROVE  /\ Slots(b)' = Slots(b) + 1
         /\ \A c \in Buses \ {b} : Slots(c)' = Slots(c)
<1>1. w_ptr[b] \in 0..(FIFO_SIZE - 1) /\ r_ptr[b] \in 0..(FIFO_SIZE - 1) /\ w_ptr[b] # r_ptr[b]
  BY DEF TxTypeOK, CanTake
<1>2. r_ptr'[b] = Advance(r_ptr[b]) /\ \A c \in Buses \ {b} : r_ptr'[c] = r_ptr[c]
  BY DEF Pop, TxTypeOK
<1>3. Slots(b)' = Slots(b) + 1
  BY <1>1, <1>2, SlotsFacts DEF Slots
<1> QED BY <1>2, <1>3 DEF Slots

LEMMA ClearRoom ==
  ASSUME TxTypeOK, NEW b \in Buses, can_clear(b)
  PROVE  /\ Slots(b)' = FIFO_SIZE - 1
         /\ \A c \in Buses \ {b} : Slots(c)' = Slots(c)
<1>1. 0 \in 0..(FIFO_SIZE - 1)
  BY TxAssumption
<1>2. w_ptr'[b] = 0 /\ r_ptr'[b] = 0
      /\ \A c \in Buses \ {b} : w_ptr'[c] = w_ptr[c] /\ r_ptr'[c] = r_ptr[c]
  BY DEF can_clear, TxTypeOK
<1> QED BY <1>1, <1>2, SlotsFacts DEF Slots

\* After a refresh the endpoint NAKs only for a reason, and opens only with room.
LEMMA RefreshDecides ==
  ASSUME TxTypeOK', NEW ep, refresh(ep, w_ptr', r_ptr')
  PROVE  /\ ep3' = "nak" => \E b \in Buses : Slots(b)' < MIN_SLOTS
         /\ ep3' = ep \/ (ep = "nak" /\ ep3' = "open" /\ \A b \in Buses : Slots(b)' >= MIN_SLOTS)
         /\ shared' = IF ep3' = ep3 THEN shared ELSE {}
         /\ batch' = batch
<1>1. \A b \in Buses : Slots(b)' \in Int
  <2>1. \A b \in Buses : w_ptr'[b] \in 0..(FIFO_SIZE - 1) /\ r_ptr'[b] \in 0..(FIFO_SIZE - 1)
    BY DEF TxTypeOK
  <2> QED BY <2>1, SlotsFacts DEF Slots
<1>2. ep3' = IF ep = "nak" /\ \A b \in Buses : Slots(b)' >= MIN_SLOTS THEN "open" ELSE ep
  BY DEF refresh, Refreshed, Slots
<1>3. shared' = (IF ep3' = ep3 THEN shared ELSE {}) /\ batch' = batch
  BY DEF refresh
<1> QED BY <1>1, <1>2, <1>3, TxAssumption

EndpointInv == EndpointReopens /\ RoomKept /\ HostFramesFit

LEMMA SlotsRange ==
  ASSUME TxTypeOK, TxTypeOK'
  PROVE  \A b \in Buses : Slots(b) \in Int /\ Slots(b)' \in Int
<1> SUFFICES ASSUME NEW b \in Buses PROVE Slots(b) \in Int /\ Slots(b)' \in Int
  OBVIOUS
<1>1. w_ptr'[b] \in 0..(FIFO_SIZE - 1) /\ r_ptr'[b] \in 0..(FIFO_SIZE - 1)
  BY DEF TxTypeOK
<1>2. Slots(b)' \in 0..(FIFO_SIZE - 1)
  BY <1>1, SlotsFacts DEF Slots
<1>3. Slots(b) \in 0..(FIFO_SIZE - 1)
  BY SlotsType
<1> QED BY <1>2, <1>3, TxAssumption

\* A step that opens no endpoint, takes no frame of the host and uses no room.
LEMMA RoomGrows ==
  ASSUME TxTypeOK, TxTypeOK', EndpointInv, board' = board, lost_alone' = lost_alone,
         batch' = batch, shared' = shared, ep3' = ep3,
         ep3 = "nak" => \E b \in Buses : Slots(b)' < MIN_SLOTS,
         \A b \in Buses \ shared : Slots(b)' >= Slots(b)
  PROVE  EndpointInv'
<1>1. EndpointReopens'
  BY DEF EndpointInv, EndpointReopens, Slots
<1>2. HostFramesFit'
  BY DEF EndpointInv, HostFramesFit
<1>3. \A b \in Buses : Slots(b) \in Int /\ Slots(b)' \in Int
  BY SlotsRange
<1>4. RoomKept'
  <2>1. batch \in Int /\ MIN_SLOTS \in Int
    BY TxAssumption DEF TxTypeOK
  <2>2. RoomKept
    BY DEF EndpointInv
  <2> HIDE DEF Slots
  <2> QED BY <1>3, <2>1, <2>2 DEF RoomKept
<1> QED BY <1>1, <1>2, <1>4 DEF EndpointInv

\* The same for a step that ends with a refresh of the endpoint.
LEMMA RoomRefreshed ==
  ASSUME TxTypeOK, TxTypeOK', EndpointInv, board' = board, lost_alone' = lost_alone,
         refresh(ep3, w_ptr', r_ptr'), \A b \in Buses : Slots(b)' >= Slots(b)
  PROVE  EndpointInv'
<1>1. CASE ep3' = ep3
  <2>1. ep3' = "nak" => \E b \in Buses : Slots(b)' < MIN_SLOTS
    BY RefreshDecides
  <2>2. batch' = batch /\ shared' = shared
    BY <1>1, RefreshDecides DEF TxTypeOK
  <2> QED BY <1>1, <2>1, <2>2, RoomGrows
<1>2. CASE ep3' # ep3
  <2>1. ep3' = "open" /\ \A b \in Buses : Slots(b)' >= MIN_SLOTS
    BY <1>2, RefreshDecides
  <2>2. RoomKept'
    BY <2>1 DEF RoomKept
  <2> QED BY <2>1, <2>2 DEF EndpointInv, EndpointReopens, HostFramesFit
<1> QED BY <1>1, <1>2

LEMMA EndpointStep == TxTypeOK /\ EndpointInv /\ [TxNext]_txVars => EndpointInv'
<1> SUFFICES ASSUME TxTypeOK, EndpointInv, [TxNext]_txVars PROVE EndpointInv'
  OBVIOUS
<1>0. /\ TxTypeOK' /\ 0 \in Buses /\ 2 \in Buses
      /\ \A b \in Buses : Slots(b) \in Int /\ Slots(b)' \in Int
      /\ MIN_SLOTS \in Int /\ FIFO_SIZE \in Int
  <2>1. TxTypeOK'
    BY TypeStep
  <2>2. 0 \in Buses /\ 2 \in Buses
    BY DEF Buses
  <2> QED BY <2>1, <2>2, SlotsRange, TxAssumption
<1>a. EndpointReopens /\ (ep3 = "nak" => \E b \in Buses : Slots(b) < MIN_SLOTS)
  BY DEF EndpointInv, EndpointReopens, Slots
<1>p. ASSUME NEW b \in Buses, process_can(b), board' = board, lost_alone' = lost_alone
      PROVE  EndpointInv'
  <2>1. CASE ~CanTake(b)
    <3>1. UNCHANGED <<w_ptr, r_ptr, ep3, batch, shared>>
      BY <1>p, <2>1 DEF process_can, usbVars
    <3>2. \A c \in Buses : Slots(c)' = Slots(c)
      BY <3>1 DEF Slots
    <3> QED BY <1>0, <1>a, <1>p, <3>1, <3>2, RoomGrows
  <2>2. CASE CanTake(b)
    <3>1. Pop(b) /\ w_ptr' = w_ptr /\ refresh(ep3, w_ptr', r_ptr')
      BY <1>p, <2>2 DEF process_can, Pop
    <3>2. \A c \in Buses : Slots(c)' >= Slots(c)
      <4>1. Slots(b)' = Slots(b) + 1 /\ \A c \in Buses \ {b} : Slots(c)' = Slots(c)
        BY <2>2, <3>1, PopRoom
      <4> HIDE DEF Slots
      <4> QED BY <1>0, <4>1
    <3> QED BY <1>0, <1>p, <3>1, <3>2, RoomRefreshed
  <2> QED BY <2>1, <2>2
<1>c. ASSUME NEW b \in Buses, can_clear(b), board' = board, lost_alone' = lost_alone
      PROVE  EndpointInv'
  <2>1. refresh(ep3, w_ptr', r_ptr')
    BY <1>c DEF can_clear
  <2>2. \A c \in Buses : Slots(c)' >= Slots(c)
    <3>1. Slots(b)' = FIFO_SIZE - 1 /\ \A c \in Buses \ {b} : Slots(c)' = Slots(c)
      BY <1>c, ClearRoom
    <3>2. Slots(b) <= FIFO_SIZE - 1
      BY <1>0, SlotsType
    <3> HIDE DEF Slots
    <3> QED BY <1>0, <3>1, <3>2
  <2> QED BY <1>0, <1>c, <2>1, <2>2, RoomRefreshed
<1>u. ASSUME UNCHANGED <<board, lost_alone, w_ptr, r_ptr, ep3, batch, shared>>
      PROVE  EndpointInv'
  <2>1. \A c \in Buses : Slots(c)' = Slots(c)
    BY <1>u DEF Slots
  <2> QED BY <1>0, <1>a, <1>u, <2>1, RoomGrows
<1>1. ASSUME NEW b \in Buses, NEW f \in FwdFrames, Forward(b, f) PROVE EndpointInv'
  <2>1. /\ can_push(b, f) /\ UNCHANGED <<board, r_ptr, ep3, batch, lost_alone>>
        /\ shared \subseteq shared' /\ (board = "F407" /\ ep3 # "nak" => b \in shared')
    BY <1>1 DEF Forward, can_send
  <2>2. /\ Full(b) <=> Slots(b) = 0
        /\ Slots(b)' = IF Full(b) THEN Slots(b) ELSE Slots(b) - 1
        /\ \A c \in Buses \ {b} : Slots(c)' = Slots(c)
    BY <2>1, PushRoom
  <2>3. EndpointReopens'
    <3>1. \A c \in Buses : Slots(c)' <= Slots(c) /\ Slots(c) \in Int /\ Slots(c)' \in Int
      BY <1>0, <2>2, SlotsType
    <3>2. ep3' = "nak" => \E c \in Buses : Slots(c)' < MIN_SLOTS
      BY <1>0, <1>a, <2>1, <3>1
    <3> QED BY <3>2 DEF EndpointReopens, Slots
  <2>4. HostFramesFit'
    BY <2>1 DEF EndpointInv, HostFramesFit
  <2>5. RoomKept'
    <3> SUFFICES ASSUME board = "F407", NEW c \in Buses \ shared', ep3 # "nak"
                 PROVE  /\ ep3 = "open" => Slots(c)' >= MIN_SLOTS
                        /\ ep3 = "processing" => Slots(c)' >= batch
      BY <2>1 DEF RoomKept
    <3>1. c # b /\ c \in Buses \ shared
      BY <2>1
    <3>2. Slots(c)' = Slots(c)
      BY <2>2, <3>1
    <3> QED BY <3>1, <3>2 DEF EndpointInv, RoomKept
  <2> QED BY <2>3, <2>4, <2>5 DEF EndpointInv
<1>2. ASSUME NEW b \in Buses, NEW f \in HostTx(b), HostSend(b, f) PROVE EndpointInv'
  <2>1. can_push(b, f) /\ UNCHANGED <<board, r_ptr>>
    BY <1>2 DEF HostSend, can_send
  <2>2. /\ Full(b) <=> Slots(b) = 0
        /\ Slots(b)' = IF Full(b) THEN Slots(b) ELSE Slots(b) - 1
        /\ \A c \in Buses \ {b} : Slots(c)' = Slots(c)
    BY <1>0, <2>1, PushRoom
  <2>3. CASE board = "F446"
    <3>1. UNCHANGED <<ep3, batch, shared, lost_alone>>
      BY <1>2, <2>3 DEF HostSend, usbVars
    <3>2. EndpointReopens'
      <4>1. \A c \in Buses : Slots(c)' <= Slots(c) /\ Slots(c) \in Int /\ Slots(c)' \in Int
        BY <1>0, <2>2
      <4>2. ep3' = "nak" => \E c \in Buses : Slots(c)' < MIN_SLOTS
        BY <1>0, <1>a, <3>1, <4>1
      <4> QED BY <4>2 DEF EndpointReopens, Slots
    <3> QED BY <2>1, <2>3, <3>1, <3>2 DEF EndpointInv, RoomKept, HostFramesFit
  <2>4. CASE board # "F446"
    <3>1. /\ ep3 = "open" \/ (ep3 = "processing" /\ batch > 0)
          /\ ep3' = "processing" /\ shared' = shared
          /\ batch' = IF ep3 = "open" THEN MIN_SLOTS - 1 ELSE batch - 1
          /\ lost_alone' = (lost_alone \/ (Full(b) /\ b \notin shared))
      BY <1>2, <2>4 DEF HostSend
    <3>2. board = "F407" /\ batch \in Int /\ MIN_SLOTS > 0
      BY <2>4, TxAssumption DEF TxTypeOK
    <3>3. \A c \in Buses \ shared : Slots(c) > 0 /\ Slots(c)' >= batch'
      <4> SUFFICES ASSUME NEW c \in Buses \ shared PROVE Slots(c) > 0 /\ Slots(c)' >= batch'
        OBVIOUS
      <4>1. (ep3 = "open" => Slots(c) >= MIN_SLOTS) /\ (ep3 = "processing" => Slots(c) >= batch)
        BY <3>2 DEF EndpointInv, RoomKept
      <4> HIDE DEF Slots
      <4>2. Slots(c)' = Slots(c) \/ Slots(c)' = Slots(c) - 1
        BY <2>2
      <4> QED BY <1>0, <3>1, <3>2, <4>1, <4>2
    <3>4. HostFramesFit'
      <4>1. ~lost_alone
        BY DEF EndpointInv, HostFramesFit
      <4>2. b \notin shared => Slots(b) > 0
        BY <3>3
      <4>3. Full(b) => b \in shared
        BY <2>2, <4>2
      <4> QED BY <3>1, <4>1, <4>3 DEF HostFramesFit
    <3>5. RoomKept'
      BY <3>1, <3>3 DEF RoomKept
    <3> QED BY <3>1, <3>4, <3>5 DEF EndpointInv, EndpointReopens
  <2> QED BY <2>3, <2>4
<1>3. CASE XferComplete
  <2>1. UNCHANGED <<board, w_ptr, r_ptr, lost_alone>> /\ refresh("nak", w_ptr', r_ptr')
    BY <1>3 DEF XferComplete, ringVars
  <2>2. /\ ep3' = "nak" => \E b \in Buses : Slots(b)' < MIN_SLOTS
        /\ ep3' = "nak" \/ (ep3' = "open" /\ \A b \in Buses : Slots(b)' >= MIN_SLOTS)
    BY <1>0, <2>1, RefreshDecides
  <2>3. EndpointReopens'
    BY <2>2 DEF EndpointReopens, Slots
  <2>4. RoomKept'
    BY <2>2 DEF RoomKept
  <2> QED BY <2>1, <2>3, <2>4 DEF EndpointInv, HostFramesFit
<1>4. ASSUME NEW l \in Levels, Process(l) PROVE EndpointInv'
  BY <1>4, <1>p DEF Process
<1>5. ASSUME NEW b \in Buses, TxIrq(b) PROVE EndpointInv'
  BY <1>5, <1>p DEF TxIrq
<1>6. ASSUME NEW b \in Buses, Transmit(b) \/ can_sce(b) PROVE EndpointInv'
  BY <1>6, <1>u DEF Transmit, can_sce, ringVars, usbVars
<1>7. CASE SetSafetyMode
  BY <1>7, <1>u DEF SetSafetyMode, ringVars, usbVars
<1>8. ASSUME NEW l \in Levels, InitStep(l) PROVE EndpointInv'
  <2>0. UNCHANGED <<board, lost_alone>>
    BY <1>8 DEF InitStep
  <2>1. CASE \E b \in Buses : can_clear(b)
    BY <2>0, <2>1, <1>c
  <2>2. CASE \E b \in Buses : process_can(b)
    BY <2>0, <2>2, <1>p
  <2>3. CASE UNCHANGED <<ringVars, usbVars>>
    BY <2>0, <2>3, <1>u DEF ringVars, usbVars
  <2> QED BY <1>8, <1>0, <2>1, <2>2, <2>3 DEF InitStep, ClearRing0, InitCan1, InitCan2, ClearRing2
<1>9. ASSUME NEW b \in Buses, ClearRequest(b) PROVE EndpointInv'
  BY <1>9, <1>c DEF ClearRequest
<1>10. CASE UNCHANGED txVars
  BY <1>10, <1>u DEF txVars, ringVars, usbVars
<1> QED BY <1>1, <1>2, <1>3, <1>4, <1>5, <1>6, <1>7, <1>8, <1>9, <1>10 DEF TxNext

LEMMA EndpointInit == TxInit => EndpointInv
<1> SUFFICES ASSUME TxInit PROVE EndpointInv
  OBVIOUS
<1>1. ep3 = "open" /\ ~lost_alone /\ \A b \in Buses : w_ptr[b] = 0 /\ r_ptr[b] = 0
  BY DEF TxInit
<1>2. \A b \in Buses : Slots(b) >= MIN_SLOTS
  BY <1>1, TxAssumption DEF Slots, can_slots_empty
<1> QED BY <1>1, <1>2 DEF EndpointInv, EndpointReopens, RoomKept, HostFramesFit

LEMMA EndpointCorrect == TxSpec => []EndpointInv
BY EndpointInit, EndpointStep, TxTypeCorrect, PTL DEF TxSpec

\* No wake-up of the host is lost.
THEOREM EndpointNakHasCause == TxSpec => []EndpointReopens
<1>1. EndpointInv => EndpointReopens
  BY DEF EndpointInv
<1> QED BY <1>1, EndpointCorrect, PTL

\* A transfer of the host fits unless forwarded frames used its room.
THEOREM TransfersFit == TxSpec => []HostFramesFit
<1>1. EndpointInv => HostFramesFit
  BY DEF EndpointInv
<1> QED BY <1>1, EndpointCorrect, PTL
===============================================================================
