-------------------------------- MODULE TxFifo --------------------------------
(***************************************************************************)
(* What the transmit path of the board promises for every bus: frames      *)
(* leave for the controller in the order they were accepted, each once,    *)
(* one at a time, and none with a bad checksum.  A frame is lost only when *)
(* the queue is full, when its checksum is bad, when the queue is cleared, *)
(* or after it reached the controller.                                     *)
(* CanTxQueue implements this with rings of pointers (drivers/can_common.h)*)
(* and the mailbox of a bxCAN controller (drivers/bxcan.h).                *)
(***************************************************************************)
EXTENDS Naturals, Sequences

CONSTANTS
  Buses,
  Frames,
  BadFrames,   (* the frames whose checksum does not match                   *)
  NoFrame,
  Capacity     (* frames a queue holds                                       *)

VARIABLES
  queue,       (* accepted and not yet handed to the controller              *)
  inflight     (* the frame the controller is sending, or NoFrame            *)

fifoVars == <<queue, inflight>>

FifoInit ==
  /\ queue = [b \in Buses |-> <<>>]
  /\ inflight = [b \in Buses |-> NoFrame]

Accept(b, f) ==
  /\ Len(queue[b]) < Capacity
  /\ queue' = [queue EXCEPT ![b] = Append(@, f)]
  /\ UNCHANGED inflight

Take(b) ==
  /\ inflight[b] = NoFrame
  /\ queue[b] # <<>>
  /\ Head(queue[b]) \notin BadFrames
  /\ inflight' = [inflight EXCEPT ![b] = Head(queue[b])]
  /\ queue' = [queue EXCEPT ![b] = Tail(@)]

Discard(b) ==
  /\ queue[b] # <<>>
  /\ Head(queue[b]) \in BadFrames
  /\ queue' = [queue EXCEPT ![b] = Tail(@)]
  /\ UNCHANGED inflight

\* The frame is on the wire, or its transmission was given up.
Release(b) ==
  /\ inflight' = [inflight EXCEPT ![b] = NoFrame]
  /\ UNCHANGED queue

Clear(b) ==
  /\ queue' = [queue EXCEPT ![b] = <<>>]
  /\ UNCHANGED inflight

FifoNext ==
  \E b \in Buses :
    \/ \E f \in Frames : Accept(b, f)
    \/ Take(b)
    \/ Discard(b)
    \/ Release(b)
    \/ Clear(b)

FifoSpec == FifoInit /\ [][FifoNext]_fifoVars
===============================================================================
