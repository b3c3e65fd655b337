-------------------------------- MODULE Msgq --------------------------------
(***************************************************************************)
(* msgq, the shared-memory queue between the processes of openpilot        *)
(* (src/msgq/msgq/msgq.cc): one publisher, up to NUM_READERS subscribers,  *)
(* no lock.  A step is one access to the shared memory; what a process     *)
(* computes from its own variables happens in the step before it.          *)
(*                                                                         *)
(* A cell of the buffer is ALIGN's 8 bytes: a size tag, a wrap-around tag  *)
(* or one payload word, which carries the number and the size of its       *)
(* message so that a torn copy shows.  Processes may die between any two   *)
(* steps and start again: the shared memory outlives them.                 *)
(***************************************************************************)
EXTENDS Integers, Sequences

CONSTANTS Readers,      \* the subscribing processes
          NUM_READERS,  \* slots in the header (15 in msgq.h)
          SIZE,         \* cells of the data segment
          Sizes,        \* payload sizes a message may have, in cells
          SETTLED,      \* TRUE: only the timings of the section "Timing"
          MAX_SENT,     \* bound: messages sent
          MAX_DEATHS    \* bound: process deaths

NoUid == "none"

ASSUME MsgqAssumption ==
    /\ NoUid \notin Readers
    /\ NUM_READERS \in Nat \ {0}
    /\ SIZE \in Nat \ {0}
    /\ Sizes \subseteq Nat \ {0}
    /\ \A s \in Sizes : 3 * (s + 1) <= SIZE   \* the assertion of msgq_msg_send
    /\ SETTLED \in BOOLEAN
    /\ MAX_SENT \in Nat /\ MAX_DEATHS \in Nat

VARIABLES
    num_readers, write_pointer,              \* msgq_header_t
    read_pointers, read_valids, read_uids,
    data,       \* the data segment
    w,          \* the publisher: its place in the code and its locals
    r,          \* the subscribers, likewise
    sent,       \* messages the publisher began to send
    got,        \* number of the newest message each subscriber was handed
    conflate,   \* the subscribers that ask for the newest message only; fixed
    deaths

header == <<num_readers, write_pointer, read_pointers, read_valids, read_uids>>
vars == <<header, data, w, r, sent, got, conflate, deaths>>

Slots == 0 .. NUM_READERS - 1

(* The packed 64-bit words: cycle counter and offset. *)
At(c, p) == [cycles |-> c, ptr |-> p]

WRAP    == [kind |-> "wrap"]
Zero    == [kind |-> "zero"]
Tag(s)  == [kind |-> "size", size |-> s]
Word(n, s, i) == [kind |-> "word", msg |-> n, size |-> s, at |-> i]

-----------------------------------------------------------------------------
(* Timing.  The slots have no lock of their own: msgq relies on being      *)
(* quick.  SETTLED states what it relies on: the publisher starts, and a   *)
(* subscriber evicts the others, while no other subscriber is inside a     *)
(* call; when a publisher dies withdrawing the slots, the next one         *)
(* withdraws the rest before a subscriber claims one of them, and no       *)
(* subscriber dies withdrawing them while another has its own; and no send *)
(* reaches a write pointer that a subscriber has loaded in                 *)
(* msgq_reset_reader and has not stored yet, a whole lap later.            *)

InCall(q)   == r[q].pc \notin {"down", "idle"}
Evicting(q) == r[q].pc \in {"evict_valid", "evict_uid"}

(* The subscriber has stored its uid in its slot and it is still there. *)
Holds(q) ==
    /\ r[q].pc \notin {"down", "register", "evict", "evict_valid", "evict_uid",
                       "claim", "new_valid", "new_pointer", "new_uid"}
    /\ read_uids[r[q].id] = q

Free(q, i) == SETTLED => \A o \in Readers \ {q} : Holds(o) => r[o].id # i

Alone(q) == SETTLED => \A o \in Readers \ {q} : ~InCall(o)

MayCall(q) ==
    SETTLED => /\ w.pc # "init"
               /\ \A o \in Readers \ {q} : ~Evicting(o)

\* Mutant: no room kept for the tag of the next wrap-around.
MustWrap_NoTag(s) == SIZE - write_pointer.ptr - (s + 1) < 0

(* No room for the message and the wrap-around tag of the next one. *)
MustWrap(s) == SIZE - write_pointer.ptr - (s + 1) - 1 <= 0

Laps(s, p) ==
    IF MustWrap(s)
    THEN \/ p.cycles # write_pointer.cycles /\ p.ptr > write_pointer.ptr
         \/ p.cycles # write_pointer.cycles + 1 /\ p.ptr <= s
    ELSE p.cycles # write_pointer.cycles /\ p.ptr <= write_pointer.ptr + s

MaySend(s) ==
    SETTLED => \A q \in Readers : r[q].pc = "reset_store" => ~Laps(s, r[q].wp)

-----------------------------------------------------------------------------
(* The publisher. *)

WriterAt(pc) == [pc |-> pc, size |-> 0, n |-> 0, i |-> 0, hit |-> FALSE]

(* msgq_init_publisher: every slot is withdrawn, one store at a time. *)
msgq_init_publisher ==
    /\ w.pc = "down"
    /\ SETTLED => \A q \in Readers : ~InCall(q)
    /\ num_readers' = 0
    /\ w' = WriterAt("init")
    /\ UNCHANGED <<write_pointer, read_pointers, read_valids, read_uids,
                   data, r, sent, got, conflate, deaths>>

InitSlot ==
    /\ w.pc = "init"
    /\ \/ /\ ~w.hit
          /\ read_valids' = [read_valids EXCEPT ![w.i] = FALSE]
          /\ w' = [w EXCEPT !.hit = TRUE]
          /\ UNCHANGED read_uids
       \/ /\ w.hit
          /\ read_uids' = [read_uids EXCEPT ![w.i] = NoUid]
          /\ w' = IF w.i + 1 < NUM_READERS
                  THEN [w EXCEPT !.i = @ + 1, !.hit = FALSE]
                  ELSE WriterAt("idle")
          /\ UNCHANGED read_valids
    /\ UNCHANGED <<num_readers, write_pointer, read_pointers, data, r, sent,
                   got, conflate, deaths>>

(* msgq_msg_send up to the first store. *)
msgq_msg_send(s) ==
    /\ w.pc = "idle" /\ sent < MAX_SENT /\ MaySend(s)
    /\ sent' = sent + 1
    /\ w' = [WriterAt(IF MustWrap(s) THEN "tag" ELSE "area")
               EXCEPT !.size = s, !.n = num_readers]
    /\ UNCHANGED <<header, data, r, got, conflate, deaths>>

WrapTag ==
    /\ w.pc = "tag"
    /\ data' = [data EXCEPT ![write_pointer.ptr] = WRAP]
    /\ w' = [w EXCEPT !.pc = "beyond"]
    /\ UNCHANGED <<header, r, sent, got, conflate, deaths>>

(* The two conditions under which a slot is invalidated. *)
InTheWay(rp) ==
    /\ rp.cycles # write_pointer.cycles
    /\ IF w.pc = "beyond"
       THEN rp.ptr > write_pointer.ptr
       ELSE /\ rp.ptr >= write_pointer.ptr
            /\ rp.ptr < write_pointer.ptr + w.size + 1

(* One round of either loop: load the read pointer, then clear the flag. *)
Inspect ==
    /\ w.pc \in {"beyond", "area"} /\ w.i < w.n /\ ~w.hit
    /\ w' = IF InTheWay(read_pointers[w.i])
            THEN [w EXCEPT !.hit = TRUE]
            ELSE [w EXCEPT !.i = @ + 1]
    /\ UNCHANGED <<header, data, r, sent, got, conflate, deaths>>

Invalidate ==
    /\ w.pc \in {"beyond", "area"} /\ w.hit
    /\ read_valids' = [read_valids EXCEPT ![w.i] = FALSE]
    /\ w' = [w EXCEPT !.hit = FALSE, !.i = @ + 1]
    /\ UNCHANGED <<num_readers, write_pointer, read_pointers, read_uids,
                   data, r, sent, got, conflate, deaths>>

WrapAround ==
    /\ w.pc = "beyond" /\ w.i = w.n
    /\ write_pointer' = At(write_pointer.cycles + 1, 0)
    /\ w' = [w EXCEPT !.pc = "area", !.i = 0]
    /\ UNCHANGED <<num_readers, read_pointers, read_valids, read_uids,
                   data, r, sent, got, conflate, deaths>>

SizeTag ==
    /\ w.pc = "area" /\ w.i = w.n
    /\ data' = [data EXCEPT ![write_pointer.ptr] = Tag(w.size)]
    /\ w' = [w EXCEPT !.pc = "copy", !.i = 1]
    /\ UNCHANGED <<header, r, sent, got, conflate, deaths>>

CopyIn ==
    /\ w.pc = "copy" /\ w.i <= w.size
    /\ data' = [data EXCEPT ![write_pointer.ptr + w.i] = Word(sent, w.size, w.i)]
    /\ w' = [w EXCEPT !.i = @ + 1]
    /\ UNCHANGED <<header, r, sent, got, conflate, deaths>>

Publish ==
    /\ w.pc = "copy" /\ w.i > w.size
    /\ write_pointer' = At(write_pointer.cycles, write_pointer.ptr + w.size + 1)
    /\ w' = WriterAt("idle")
    /\ UNCHANGED <<num_readers, read_pointers, read_valids, read_uids,
                   data, r, sent, got, conflate, deaths>>

-----------------------------------------------------------------------------
(* The subscribers. *)

ReaderAt(pc, id) ==
    [pc |-> pc, id |-> id, rp |-> At(0, 0), wp |-> At(0, 0),
     size |-> 0, copy |-> << >>]

Goto(q, pc) == r' = [r EXCEPT ![q].pc = pc]

(* goto start, with msg and the locals forgotten *)
Restart(q) == r' = [r EXCEPT ![q] = ReaderAt("uid", r[q].id)]

id(q) == r[q].id

(* msgq_init_subscriber: a load, and the eviction of every slot or a       *)
(* compare-and-swap.                                                       *)
LoadCount(q) ==
    /\ r[q].pc = "register"
    /\ r' = [r EXCEPT ![q] = IF num_readers + 1 > NUM_READERS
                             THEN ReaderAt("evict", 0)
                             ELSE ReaderAt("claim", num_readers)]
    /\ UNCHANGED <<header, data, w, sent, got, conflate, deaths>>

EvictAll(q) ==
    /\ r[q].pc = "evict" /\ Alone(q)
    /\ num_readers' = 0
    /\ r' = [r EXCEPT ![q] = ReaderAt("evict_valid", 0)]
    /\ UNCHANGED <<write_pointer, read_pointers, read_valids, read_uids,
                   data, w, sent, got, conflate, deaths>>

EvictValid(q) ==
    /\ r[q].pc = "evict_valid"
    /\ read_valids' = [read_valids EXCEPT ![id(q)] = FALSE]
    /\ Goto(q, "evict_uid")
    /\ UNCHANGED <<num_readers, write_pointer, read_pointers, read_uids,
                   data, w, sent, got, conflate, deaths>>

EvictUid(q) ==
    /\ r[q].pc = "evict_uid"
    /\ read_uids' = [read_uids EXCEPT ![id(q)] = NoUid]
    /\ r' = [r EXCEPT ![q] = IF id(q) + 1 < NUM_READERS
                             THEN ReaderAt("evict_valid", id(q) + 1)
                             ELSE ReaderAt("register", 0)]
    /\ UNCHANGED <<num_readers, write_pointer, read_pointers, read_valids,
                   data, w, sent, got, conflate, deaths>>

Claim(q) ==
    /\ r[q].pc = "claim"
    /\ IF num_readers = id(q)
       THEN Free(q, id(q)) /\ num_readers' = num_readers + 1 /\ Goto(q, "new_valid")
       ELSE Goto(q, "register") /\ UNCHANGED num_readers
    /\ UNCHANGED <<write_pointer, read_pointers, read_valids, read_uids,
                   data, w, sent, got, conflate, deaths>>

NewValid(q) ==
    /\ r[q].pc = "new_valid"
    /\ read_valids' = [read_valids EXCEPT ![id(q)] = FALSE]
    /\ Goto(q, "new_pointer")
    /\ UNCHANGED <<num_readers, write_pointer, read_pointers, read_uids,
                   data, w, sent, got, conflate, deaths>>

NewPointer(q) ==
    /\ r[q].pc = "new_pointer"
    /\ read_pointers' = [read_pointers EXCEPT ![id(q)] = At(0, 0)]
    /\ Goto(q, "new_uid")
    /\ UNCHANGED <<num_readers, write_pointer, read_valids, read_uids,
                   data, w, sent, got, conflate, deaths>>

NewUid(q) ==
    /\ r[q].pc = "new_uid"
    /\ read_uids' = [read_uids EXCEPT ![id(q)] = q]
    /\ Goto(q, "reset")
    /\ UNCHANGED <<num_readers, write_pointer, read_pointers, read_valids,
                   data, w, sent, got, conflate, deaths>>

(* msgq_reset_reader: the flag, a load of the write pointer, its store. *)
ResetValid(q) ==
    /\ r[q].pc = "reset"
    /\ read_valids' = [read_valids EXCEPT ![id(q)] = TRUE]
    /\ Goto(q, "reset_load")
    /\ UNCHANGED <<num_readers, write_pointer, read_pointers, read_uids,
                   data, w, sent, got, conflate, deaths>>

ResetLoad(q) ==
    /\ r[q].pc = "reset_load"
    /\ r' = [r EXCEPT ![q].pc = "reset_store", ![q].wp = write_pointer]
    /\ UNCHANGED <<header, data, w, sent, got, conflate, deaths>>

ResetStore(q) ==
    /\ r[q].pc = "reset_store"
    /\ read_pointers' = [read_pointers EXCEPT ![id(q)] = r[q].wp]
    /\ Restart(q)
    /\ UNCHANGED <<num_readers, write_pointer, read_valids, read_uids,
                   data, w, sent, got, conflate, deaths>>

(* msgq_msg_recv; the call is the first step from "idle". *)
\* Mutant: an evicted subscriber does not connect again.
CheckUid_NoReconnect(q) ==
    /\ r[q].pc = "uid" \/ (r[q].pc = "idle" /\ MayCall(q))
    /\ Goto(q, IF read_uids[id(q)] # q THEN "idle" ELSE "valid")
    /\ UNCHANGED <<header, data, w, sent, got, conflate, deaths>>

CheckUid(q) ==
    /\ r[q].pc = "uid" \/ (r[q].pc = "idle" /\ MayCall(q))
    /\ Goto(q, IF read_uids[id(q)] # q THEN "register" ELSE "valid")
    /\ UNCHANGED <<header, data, w, sent, got, conflate, deaths>>

CheckValid(q) ==
    /\ r[q].pc = "valid"
    /\ Goto(q, IF read_valids[id(q)] THEN "load_rp" ELSE "reset")
    /\ UNCHANGED <<header, data, w, sent, got, conflate, deaths>>

LoadReadPointer(q) ==
    /\ r[q].pc = "load_rp"
    /\ r' = [r EXCEPT ![q].pc = "load_wp", ![q].rp = read_pointers[id(q)]]
    /\ UNCHANGED <<header, data, w, sent, got, conflate, deaths>>

LoadWritePointer(q) ==
    /\ r[q].pc = "load_wp"
    /\ r' = [r EXCEPT ![q] = IF @.rp.ptr = write_pointer.ptr
                             THEN ReaderAt("idle", @.id)
                             ELSE [@ EXCEPT !.pc = "tag", !.wp = write_pointer]]
    /\ UNCHANGED <<header, data, w, sent, got, conflate, deaths>>

(* A tag that is no size: the assertions abort the process, or the word    *)
(* passes for a size; either way the state is kept for the properties.     *)
LoadTag(q) ==
    /\ r[q].pc = "tag"
    /\ r' = [r EXCEPT ![q].pc = "valid_tag", ![q].copy = <<data[r[q].rp.ptr]>>]
    /\ UNCHANGED <<header, data, w, sent, got, conflate, deaths>>

NewReadPointer(q, s) == r[q].rp.ptr + 1 + s

CheckTag(q) ==
    LET tag == r[q].copy[1] IN
    /\ r[q].pc = "valid_tag"
    /\ r' = [r EXCEPT ![q] =
         IF ~read_valids[id(q)] THEN ReaderAt("reset", @.id)
         ELSE IF tag = WRAP THEN [@ EXCEPT !.pc = "wrap", !.copy = << >>]
         ELSE IF tag.kind # "size" THEN [@ EXCEPT !.pc = "abort"]
         ELSE IF conflate[q] /\ NewReadPointer(q, tag.size) # @.wp.ptr
              THEN [@ EXCEPT !.pc = "skip", !.size = tag.size, !.copy = << >>]
              ELSE [@ EXCEPT !.pc = "copy", !.size = tag.size, !.copy = << >>]]
    /\ UNCHANGED <<header, data, w, sent, got, conflate, deaths>>

StoreWrap(q) ==
    /\ r[q].pc = "wrap"
    /\ read_pointers' = [read_pointers EXCEPT ![id(q)] = At(r[q].rp.cycles + 1, 0)]
    /\ Restart(q)
    /\ UNCHANGED <<num_readers, write_pointer, read_valids, read_uids,
                   data, w, sent, got, conflate, deaths>>

StoreSkip(q) ==
    /\ r[q].pc = "skip"
    /\ read_pointers' = [read_pointers EXCEPT ![id(q)] =
                           At(r[q].rp.cycles, NewReadPointer(q, r[q].size))]
    /\ Restart(q)
    /\ UNCHANGED <<num_readers, write_pointer, read_valids, read_uids,
                   data, w, sent, got, conflate, deaths>>

CopyOut(q) ==
    LET i == Len(r[q].copy) + 1 IN
    /\ r[q].pc = "copy" /\ i <= r[q].size
    /\ r' = [r EXCEPT ![q].copy = Append(@, data[r[q].rp.ptr + i])]
    /\ UNCHANGED <<header, data, w, sent, got, conflate, deaths>>

\* Mutant: the read pointer stays at the message that was copied.
StoreReadPointer_Stays(q) ==
    /\ r[q].pc = "copy" /\ Len(r[q].copy) = r[q].size
    /\ Goto(q, "valid_data")
    /\ UNCHANGED <<header, data, w, sent, got, conflate, deaths>>

StoreReadPointer(q) ==
    /\ r[q].pc = "copy" /\ Len(r[q].copy) = r[q].size
    /\ read_pointers' = [read_pointers EXCEPT ![id(q)] =
                           At(r[q].rp.cycles, NewReadPointer(q, r[q].size))]
    /\ r' = [r EXCEPT ![q] = [ReaderAt("valid_data", @.id)
                                EXCEPT !.size = r[q].size, !.copy = r[q].copy]]
    /\ UNCHANGED <<num_readers, write_pointer, read_valids, read_uids,
                   data, w, sent, got, conflate, deaths>>

\* Mutant: the flag is not looked at again after the copy.
CheckData_Trusting(q) ==
    /\ r[q].pc = "valid_data"
    /\ Goto(q, "deliver")
    /\ UNCHANGED <<header, data, w, sent, got, conflate, deaths>>

CheckData(q) ==
    /\ r[q].pc = "valid_data"
    /\ IF read_valids[id(q)]
       THEN Goto(q, "deliver")
       ELSE r' = [r EXCEPT ![q] = ReaderAt("reset", @.id)]
    /\ UNCHANGED <<header, data, w, sent, got, conflate, deaths>>

Deliver(q) ==
    /\ r[q].pc = "deliver"
    /\ got' = [got EXCEPT ![q] = r[q].copy[1].msg]
    /\ r' = [r EXCEPT ![q] = ReaderAt("idle", @.id)]
    /\ UNCHANGED <<header, data, w, sent, conflate, deaths>>

-----------------------------------------------------------------------------
(* Processes come up and go down; the manager starts them again. *)

WriterDies ==
    /\ w.pc # "down" /\ deaths < MAX_DEATHS
    /\ w' = WriterAt("down")
    /\ deaths' = deaths + 1
    /\ UNCHANGED <<header, data, r, sent, got, conflate>>

ReaderStarts(q) ==
    /\ r[q].pc = "down" /\ MayCall(q)
    /\ Goto(q, "register")
    /\ UNCHANGED <<header, data, w, sent, got, conflate, deaths>>

ReaderDies(q) ==
    /\ r[q].pc # "down" /\ deaths < MAX_DEATHS
    /\ Evicting(q) => \A i \in Slots : Free(q, i)
    /\ r' = [r EXCEPT ![q] = ReaderAt("down", 0)]
    /\ deaths' = deaths + 1
    /\ UNCHANGED <<header, data, w, sent, got, conflate>>

-----------------------------------------------------------------------------
Init ==
    /\ num_readers = 0
    /\ write_pointer = At(0, 0)
    /\ read_pointers = [i \in Slots |-> At(0, 0)]
    /\ read_valids = [i \in Slots |-> FALSE]
    /\ read_uids = [i \in Slots |-> NoUid]
    /\ data = [a \in 0 .. SIZE - 1 |-> Zero]
    /\ w = WriterAt("down")
    /\ r = [q \in Readers |-> ReaderAt("down", 0)]
    /\ sent = 0
    /\ got = [q \in Readers |-> 0]
    /\ conflate \in [Readers -> BOOLEAN]
    /\ deaths = 0

Writer ==
    \/ msgq_init_publisher \/ InitSlot
    \/ WrapTag \/ Inspect \/ Invalidate \/ WrapAround
    \/ SizeTag \/ CopyIn \/ Publish

Subscriber(q) ==
    \/ ReaderStarts(q)
    \/ LoadCount(q) \/ EvictAll(q) \/ EvictValid(q) \/ EvictUid(q) \/ Claim(q)
    \/ NewValid(q) \/ NewPointer(q) \/ NewUid(q)
    \/ ResetValid(q) \/ ResetLoad(q) \/ ResetStore(q)
    \/ CheckUid(q) \/ CheckValid(q) \/ LoadReadPointer(q) \/ LoadWritePointer(q)
    \/ LoadTag(q) \/ CheckTag(q) \/ StoreWrap(q) \/ StoreSkip(q)
    \/ CopyOut(q) \/ StoreReadPointer(q) \/ CheckData(q) \/ Deliver(q)

Next ==
    \/ Writer
    \/ \E s \in Sizes : msgq_msg_send(s)
    \/ \E q \in Readers : Subscriber(q)
    \/ WriterDies
    \/ \E q \in Readers : ReaderDies(q)

Spec == Init /\ [][Next]_vars

FairSpec ==
    /\ Spec
    /\ WF_vars(Writer)
    /\ \A q \in Readers : WF_vars(Subscriber(q))

-----------------------------------------------------------------------------
(* Properties.                                                             *)

Pointers == [cycles : Nat, ptr : 0 .. SIZE - 1]
Cells    == {WRAP, Zero} \cup [kind : {"size"}, size : Sizes]
                         \cup [kind : {"word"}, msg : Nat, size : Sizes, at : Nat]
WriterPcs == {"down", "init", "idle", "tag", "beyond", "area", "copy"}
ReaderPcs == {"down", "register", "evict", "evict_valid", "evict_uid", "claim",
              "new_valid", "new_pointer", "new_uid", "reset", "reset_load",
              "reset_store", "idle", "uid", "valid", "load_rp", "load_wp", "tag",
              "valid_tag", "wrap", "skip", "copy", "valid_data", "deliver", "abort"}

\* Every offset lies in the data segment, with a cell left for the wrap-around
\* tag ("there always needs to be 8 bytes of empty space at the end").
MsgqTypeOK ==
    /\ num_readers \in 0 .. NUM_READERS
    /\ write_pointer \in Pointers
    /\ read_pointers \in [Slots -> Pointers]
    /\ read_valids \in [Slots -> BOOLEAN]
    /\ read_uids \in [Slots -> Readers \cup {NoUid}]
    /\ \A a \in 0 .. SIZE - 1 : data[a] \in Cells
    /\ w.pc \in WriterPcs /\ w.size \in Sizes \cup {0} /\ w.n \in 0 .. NUM_READERS
    /\ \A q \in Readers : /\ r[q].pc \in ReaderPcs /\ r[q].id \in Slots
                           /\ r[q].rp \in Pointers /\ r[q].wp \in Pointers
    /\ sent \in 0 .. MAX_SENT /\ got \in [Readers -> 0 .. MAX_SENT]
    /\ deaths \in 0 .. MAX_DEATHS

Intact(q) ==
    LET n == r[q].copy[1].msg IN
    r[q].copy = [i \in 1 .. r[q].size |-> Word(n, r[q].size, i)]

\* The consumer never gets garbage: whatever the publisher overwrites while a
\* subscriber reads, a message that msgq_msg_recv returns is one that was sent,
\* whole, and no payload is ever taken for a size tag.
DeliveredIntact ==
    \A q \in Readers : /\ r[q].pc # "abort"
                       /\ r[q].pc = "deliver" => Intact(q)

\* A subscriber never gets a message again and never gets an older one, across
\* laps, resets, evictions and restarts of either side.
DeliveredInOrder ==
    \A q \in Readers : r[q].pc = "deliver" => r[q].copy[1].msg > got[q]

\* Once the publisher stops, every subscriber holds a slot and has reached the
\* write pointer: no loop of retries in msgq_msg_recv goes on for ever.
CatchesUp ==
    \A q \in Readers :
        <>[](/\ read_uids[id(q)] = q
             /\ read_pointers[id(q)].ptr = write_pointer.ptr)
=============================================================================
