---------------------------- MODULE Msgq_proofs ----------------------------
(***************************************************************************)
(* Proofs about Msgq for any number of subscribers and of slots, a data    *)
(* segment of any size and messages of any sizes, under the timings of     *)
(* SETTLED.                                                                *)
(*                                                                         *)
(* The inductive invariant has four parts: who holds which slot; what is   *)
(* in the data segment on either side of the write pointer; how far the    *)
(* publisher got with the message it sends; and, for a subscriber whose    *)
(* flag is set, where it stands and what it has loaded.  The last three    *)
(* are predicates of the values of the variables, so that a process that   *)
(* does not move keeps them when what they speak of does not change.       *)
(***************************************************************************)
EXTENDS Msgq, SequenceTheorems, TLAPS

Addr == 0 .. SIZE - 1

IsSize(c) == c.kind = "size"

\* The number of the message that starts at a.
Num(d, a) == d[a + 1].msg

Sending == {"tag", "beyond", "area", "copy"}

\* A bound on the numbers of the messages that can be read.
Pub(wr, n) == IF wr.pc \in Sending THEN n - 1 ELSE n

-----------------------------------------------------------------------------
(* The data segment.                                                       *)

\* Every message of the publisher's lap, which ends at p, is newer than k.
Newer(d, p, k) == \A b \in Addr : b < p /\ IsSize(d[b]) => k < Num(d, b)

\* The words of a message of size s that starts at a are whole, and behind them
\* is the next message, the write pointer p or the wrap-around tag of the last lap.
MsgAt(d, p, top, a, s) ==
  /\ s \in Sizes /\ a + s + 1 < SIZE
  /\ \A i \in 1 .. s : d[a + i] = Word(Num(d, a), s, i)
  /\ Num(d, a) \in 1 .. top
  /\ a < p => a + s + 1 <= p
  /\ a + s + 1 # p => \/ IsSize(d[a + s + 1]) /\ Num(d, a) < Num(d, a + s + 1)
                      \/ a >= p /\ d[a + s + 1] = WRAP
  /\ a >= p => Newer(d, p, Num(d, a))

\* Every size tag starts a whole message, but for the one at the write pointer,
\* and the messages before the write pointer form a chain from the first cell.
SegmentOK(d, p, top) ==
  /\ \A a \in Addr : a # p /\ IsSize(d[a]) => MsgAt(d, p, top, a, d[a].size)
  /\ p > 0 => IsSize(d[0])

LEMMA SizesFit ==
  ASSUME NEW s \in Sizes
  PROVE  s \in Nat /\ s >= 1 /\ 3 * (s + 1) <= SIZE /\ SIZE \in Nat /\ SIZE >= 1
BY MsgqAssumption

LEMMA CellKinds ==
  /\ \A n, s, i : ~IsSize(Word(n, s, i)) /\ Word(n, s, i).msg = n
  /\ ~IsSize(WRAP) /\ ~IsSize(Zero)
  /\ \A s : IsSize(Tag(s)) /\ Tag(s).size = s /\ Tag(s) # WRAP
  /\ \A n, s, i : Word(n, s, i) # WRAP
  /\ \A c \in Cells : IsSize(c) => c.size \in Sizes
BY DEF IsSize, Word, WRAP, Zero, Tag, Cells

\* The tags of the publisher's lap and the words behind them lie before p.
LEMMA LapBefore ==
  ASSUME NEW d \in [Addr -> Cells], NEW p \in Addr, NEW top \in Nat,
         SegmentOK(d, p, top), NEW b \in Addr, b < p, IsSize(d[b])
  PROVE  b + 1 < p /\ Num(d, b) \in 1 .. top
<1>1. MsgAt(d, p, top, b, d[b].size)
  BY DEF SegmentOK, Addr
<1> QED BY <1>1, SizesFit DEF MsgAt, Addr

\* The segments d and e differ in the cell x alone.
SameBut(d, e, x) == \A y \in Addr : y # x => e[y] = d[y]

\* A store at or behind the write pointer does not touch a message before the
\* write pointer, or one that starts where the store is or behind it.
LEMMA StoreKeepsMessage ==
  ASSUME NEW d \in [Addr -> Cells], NEW p \in Addr, NEW top \in Nat,
         SegmentOK(d, p, top), NEW x \in Addr, x >= p, NEW e, SameBut(d, e, x),
         NEW a \in Addr, NEW s, MsgAt(d, p, top, a, s), a < p \/ a >= x
  PROVE  MsgAt(e, p, top, a, s) /\ Num(e, a) = Num(d, a)
<1>1. s \in Nat /\ s >= 1 /\ a + s + 1 < SIZE /\ SIZE \in Nat /\ s \in Sizes
  BY SizesFit DEF MsgAt
<1>2. \A y \in Addr : y # x => e[y] = d[y]
  BY DEF SameBut
<1>3. \A i \in 1 .. s : a + i \in Addr /\ a + i # x
  BY <1>1 DEF MsgAt, Addr
<1>4. Num(e, a) = Num(d, a)
  BY <1>1, <1>2, <1>3 DEF Num
<1>5. \A b \in Addr : b < p /\ (IsSize(e[b]) \/ IsSize(d[b]))
                     => IsSize(d[b]) /\ IsSize(e[b]) /\ Num(e, b) = Num(d, b)
  <2> SUFFICES ASSUME NEW b \in Addr, b < p, IsSize(e[b]) \/ IsSize(d[b])
               PROVE  IsSize(d[b]) /\ IsSize(e[b]) /\ Num(e, b) = Num(d, b)
    OBVIOUS
  <2>1. e[b] = d[b]
    BY <1>2 DEF Addr
  <2>2. b + 1 < p
    BY <2>1, LapBefore
  <2>3. b + 1 \in Addr /\ b + 1 # x
    BY <2>2, <1>1 DEF Addr
  <2> QED BY <1>2, <2>1, <2>3 DEF Num
<1>7. \A i \in 1 .. s : e[a + i] = Word(Num(e, a), s, i)
  BY <1>2, <1>3, <1>4 DEF MsgAt
<1>8. Num(e, a) \in 1 .. top /\ (a < p => a + s + 1 <= p)
  BY <1>4 DEF MsgAt
<1>9. a + s + 1 # p => \/ IsSize(e[a + s + 1]) /\ Num(e, a) < Num(e, a + s + 1)
                       \/ a >= p /\ e[a + s + 1] = WRAP
  <2> SUFFICES ASSUME a + s + 1 # p
               PROVE  \/ IsSize(e[a + s + 1]) /\ Num(e, a) < Num(e, a + s + 1)
                      \/ a >= p /\ e[a + s + 1] = WRAP
    OBVIOUS
  <2>1. a + s + 1 \in Addr
    BY <1>1 DEF Addr
  <2>2. CASE a < p
    <3>1. a + s + 1 < p /\ IsSize(d[a + s + 1]) /\ Num(d, a) < Num(d, a + s + 1)
      BY <2>2, <1>1 DEF MsgAt, Addr
    <3> QED BY <3>1, <2>1, <1>4, <1>5
  <2>3. CASE a >= x
    <3>1. \/ IsSize(d[a + s + 1]) /\ Num(d, a) < Num(d, a + s + 1)
          \/ a >= p /\ d[a + s + 1] = WRAP
      BY DEF MsgAt
    <3>2. e[a + s + 1] = d[a + s + 1]
      BY <1>1, <1>2, <2>1, <2>3 DEF Addr
    <3>3. CASE a + s + 2 \in Addr
      <4>1. Num(e, a + s + 1) = Num(d, a + s + 1)
        BY <1>1, <1>2, <2>3, <3>3 DEF Addr, Num
      <4> QED BY <3>1, <3>2, <4>1, <1>4
    <3>4. CASE a + s + 2 \notin Addr
      <4>1. a + s + 1 > p /\ a + s + 1 = SIZE - 1
        BY <1>1, <2>3, <3>4 DEF Addr
      <4>2. ~IsSize(d[a + s + 1])
        <5> SUFFICES ASSUME IsSize(d[a + s + 1]) PROVE FALSE
          OBVIOUS
        <5>1. MsgAt(d, p, top, a + s + 1, d[a + s + 1].size)
          BY <4>1, <2>1 DEF SegmentOK, Addr
        <5>2. ASSUME NEW t, MsgAt(d, p, top, a + s + 1, t) PROVE FALSE
          BY <5>2, <4>1, <1>1, SizesFit DEF MsgAt
        <5> QED BY <5>1, <5>2
      <4> QED BY <3>1, <3>2, <4>2
    <3> QED BY <3>3, <3>4
  <2> QED BY <2>2, <2>3
<1>10. a >= p => Newer(e, p, Num(e, a))
  BY <1>4, <1>5 DEF MsgAt, Newer
<1> QED BY <1>1, <1>4, <1>7, <1>8, <1>9, <1>10 DEF MsgAt

\* The publisher stores a tag at the write pointer, or a word with nothing but
\* words of its own message before it.
LEMMA StoreKeepsSegment ==
  ASSUME NEW d \in [Addr -> Cells], NEW p \in Addr, NEW top \in Nat,
         SegmentOK(d, p, top), NEW x \in Addr, x >= p, NEW e, SameBut(d, e, x),
         x # p => ~IsSize(e[x]) /\ \A y \in Addr : p < y /\ y < x => ~IsSize(d[y])
  PROVE  SegmentOK(e, p, top)
<1>1. \A y \in Addr : y # x => e[y] = d[y]
  BY DEF SameBut
<1>3. ASSUME NEW a \in Addr, a # p, IsSize(e[a])
      PROVE  MsgAt(e, p, top, a, e[a].size)
  <2>1. a # x /\ e[a] = d[a] /\ IsSize(d[a])
    BY <1>1, <1>3
  <2>2. a < p \/ a >= x
    BY <2>1, <1>3 DEF Addr
  <2>3. MsgAt(d, p, top, a, d[a].size)
    BY <2>1, <1>3 DEF SegmentOK
  <2> QED BY <2>1, <2>2, <2>3, StoreKeepsMessage
<1>4. p > 0 => IsSize(e[0])
  <2>1. 0 \in Addr
    BY MsgqAssumption DEF Addr
  <2> QED BY <2>1, <1>1 DEF SegmentOK, Addr
<1> QED BY <1>3, <1>4 DEF SegmentOK

\* With the wrap-around tag at p the old lap is whole as seen from a new one.
LEMMA WrapKeepsMessage ==
  ASSUME NEW d \in [Addr -> Cells], NEW p \in Addr, NEW top \in Nat, d[p] = WRAP,
         NEW a \in Addr, NEW s, MsgAt(d, p, top, a, s)
  PROVE  MsgAt(d, 0, top, a, s)
<1>1. s \in Nat /\ a + s + 1 # 0 /\ a >= 0
  BY SizesFit DEF MsgAt, Addr
<1>2. Newer(d, 0, Num(d, a))
  BY DEF Newer, Addr
<1> QED BY <1>1, <1>2 DEF MsgAt, Addr

LEMMA WrapKeepsSegment ==
  ASSUME NEW d \in [Addr -> Cells], NEW p \in Addr, NEW top \in Nat, d[p] = WRAP,
         SegmentOK(d, p, top)
  PROVE  SegmentOK(d, 0, top)
<1>1. ASSUME NEW a \in Addr, IsSize(d[a])
      PROVE  MsgAt(d, 0, top, a, d[a].size)
  <2>1. a # p
    BY <1>1, CellKinds
  <2> QED BY <1>1, <2>1, WrapKeepsMessage DEF SegmentOK
<1> QED BY <1>1 DEF SegmentOK

LEMMA LaterTop ==
  ASSUME NEW top \in Nat, NEW t \in Nat, top <= t, NEW d, NEW p, NEW a, NEW s,
         MsgAt(d, p, top, a, s)
  PROVE  MsgAt(d, p, t, a, s)
<1>1. Num(d, a) \in 1 .. t
  BY DEF MsgAt
<1> QED BY <1>1 DEF MsgAt

LEMMA LaterTopSegment ==
  ASSUME NEW top \in Nat, NEW t \in Nat, top <= t, NEW d, NEW p, SegmentOK(d, p, top)
  PROVE  SegmentOK(d, p, t)
BY LaterTop DEF SegmentOK

\* A whole message at the write pointer, newer than every other.
Complete(d, p, z, n) ==
  /\ z \in Sizes /\ p + z + 1 < SIZE
  /\ d[p] = Tag(z)
  /\ \A k \in 1 .. z : d[p + k] = Word(n, z, k)

LEMMA CompleteIsMessage ==
  ASSUME NEW d \in [Addr -> Cells], NEW p \in Addr, NEW top \in Nat, NEW z,
         Complete(d, p, z, top + 1)
  PROVE  /\ MsgAt(d, p + z + 1, top + 1, p, z) /\ Num(d, p) = top + 1
         /\ p + z + 1 \in Addr /\ p < p + z + 1
         /\ \A y \in Addr : p < y /\ y < p + z + 1 => ~IsSize(d[y])
<1>1. z \in Nat /\ z >= 1 /\ p + z + 1 < SIZE
  BY SizesFit DEF Complete
<1>2. Num(d, p) = top + 1
  BY <1>1, CellKinds DEF Complete, Num
<1>3. ASSUME NEW y \in Addr, p < y, y < p + z + 1 PROVE ~IsSize(d[y])
  <2>1. y - p \in 1 .. z /\ p + (y - p) = y
    BY <1>1, <1>3 DEF Addr
  <2> QED BY <2>1, CellKinds DEF Complete
<1>4. MsgAt(d, p + z + 1, top + 1, p, z)
  BY <1>1, <1>2 DEF MsgAt, Complete, Addr
<1> QED BY <1>1, <1>2, <1>3, <1>4, MsgqAssumption DEF Addr

\* Moving the write pointer over it keeps the messages before and behind it.
LEMMA PublishKeepsMessage ==
  ASSUME NEW d \in [Addr -> Cells], NEW p \in Addr, NEW top \in Nat, NEW z,
         Complete(d, p, z, top + 1),
         NEW a \in Addr, NEW s, MsgAt(d, p, top, a, s), a < p \/ a >= p + z + 1
  PROVE  MsgAt(d, p + z + 1, top + 1, a, s)
<1> DEFINE v == p + z + 1
<1>1. /\ v \in Addr /\ p < v /\ Num(d, p) = top + 1 /\ IsSize(d[p])
      /\ \A y \in Addr : p < y /\ y < v => ~IsSize(d[y])
  BY CompleteIsMessage, CellKinds DEF Complete
<1>2. s \in Nat /\ s \in Sizes /\ a + s + 1 < SIZE /\ Num(d, a) \in 1 .. top
  BY SizesFit DEF MsgAt
<1>3. z \in Nat
  BY SizesFit DEF Complete
<1> HIDE DEF v
<1>4. a < v => a + s + 1 <= v
  BY <1>1, <1>2, <1>3 DEF MsgAt, Addr, v
<1>5. a + s + 1 # v => \/ IsSize(d[a + s + 1]) /\ Num(d, a) < Num(d, a + s + 1)
                       \/ a >= v /\ d[a + s + 1] = WRAP
  <2>1. CASE a + s + 1 = p
    BY <2>1, <1>1, <1>2 DEF Addr
  <2>2. CASE a + s + 1 # p
    BY <2>2, <1>1, <1>2, <1>3 DEF MsgAt, Addr, v
  <2> QED BY <2>1, <2>2
<1>6. a >= v => Newer(d, v, Num(d, a))
  <2> SUFFICES ASSUME a >= v, NEW b \in Addr, b < v, IsSize(d[b])
               PROVE  Num(d, a) < Num(d, b)
    BY DEF Newer
  <2>1. CASE b < p
    BY <2>1, <1>1 DEF MsgAt, Newer, Addr
  <2>2. CASE b = p
    BY <2>2, <1>1, <1>2
  <2>3. CASE b > p
    BY <2>3, <1>1
  <2> QED BY <2>1, <2>2, <2>3 DEF Addr
<1> QED BY <1>2, <1>4, <1>5, <1>6 DEF MsgAt, v

LEMMA PublishKeepsSegment ==
  ASSUME NEW d \in [Addr -> Cells], NEW p \in Addr, NEW top \in Nat, NEW z,
         Complete(d, p, z, top + 1), SegmentOK(d, p, top)
  PROVE  SegmentOK(d, p + z + 1, top + 1)
<1> DEFINE v == p + z + 1
<1>1. /\ v \in Addr /\ p < v /\ IsSize(d[p]) /\ d[p].size = z
      /\ MsgAt(d, v, top + 1, p, z)
      /\ \A y \in Addr : p < y /\ y < v => ~IsSize(d[y])
  BY CompleteIsMessage, CellKinds DEF Complete
<1> HIDE DEF v
<1>2. ASSUME NEW a \in Addr, a # v, IsSize(d[a]) PROVE MsgAt(d, v, top + 1, a, d[a].size)
  <2>1. CASE a = p
    BY <2>1, <1>1
  <2>2. CASE a # p
    <3>1. a < p \/ a >= v
      BY <1>1, <1>2, <2>2 DEF Addr
    <3>2. MsgAt(d, p, top, a, d[a].size)
      BY <1>2, <2>2 DEF SegmentOK
    <3> QED BY <3>1, <3>2, PublishKeepsMessage DEF v
  <2> QED BY <2>1, <2>2
<1>3. IsSize(d[0])
  BY <1>1 DEF SegmentOK, Addr
<1> QED BY <1>2, <1>3 DEF SegmentOK, v

-----------------------------------------------------------------------------
(* The publisher and the subscribers at their places in the code.          *)

WriterRecs == [pc : WriterPcs, size : Sizes \cup {0}, n : 0 .. NUM_READERS,
               i : Nat, hit : BOOLEAN]
ReaderRecs == [pc : ReaderPcs, id : Slots, rp : Pointers, wp : Pointers,
               size : Nat, copy : Seq(Cells)]

LEMMA WriterFields ==
  ASSUME NEW wr \in WriterRecs
  PROVE  /\ wr.pc \in WriterPcs /\ wr.size \in Sizes \cup {0} /\ wr.size \in Nat
         /\ wr.n \in 0 .. NUM_READERS /\ wr.n \in Nat /\ wr.i \in Nat /\ wr.hit \in BOOLEAN
<1>1. Sizes \cup {0} \subseteq Nat /\ 0 .. NUM_READERS \subseteq Nat
  BY SizesFit, MsgqAssumption
<1>2. wr.pc \in WriterPcs /\ wr.size \in Sizes \cup {0} /\ wr.n \in 0 .. NUM_READERS
      /\ wr.i \in Nat /\ wr.hit \in BOOLEAN
  BY DEF WriterRecs
<1> QED BY <1>1, <1>2

LEMMA WriterUpdates ==
  ASSUME NEW wr \in WriterRecs
  PROVE  /\ [wr EXCEPT !.hit = TRUE] \in WriterRecs
         /\ [wr EXCEPT !.i = @ + 1] \in WriterRecs
         /\ [wr EXCEPT !.i = @ + 1, !.hit = FALSE] \in WriterRecs
         /\ [wr EXCEPT !.hit = FALSE, !.i = @ + 1] \in WriterRecs
<1> DEFINE j == wr.i + 1
<1>1. j \in Nat
  BY WriterFields
<1> HIDE DEF j
<1>2. /\ [wr EXCEPT !.hit = TRUE] \in WriterRecs
      /\ [wr EXCEPT !.i = j] \in WriterRecs
      /\ [wr EXCEPT !.i = j, !.hit = FALSE] \in WriterRecs
      /\ [wr EXCEPT !.hit = FALSE, !.i = j] \in WriterRecs
  BY <1>1 DEF WriterRecs
<1> QED BY <1>2, Zenon DEF j

LEMMA ReaderFields ==
  ASSUME NEW rd \in ReaderRecs
  PROVE  /\ rd.pc \in ReaderPcs /\ rd.id \in Slots /\ rd.id \in Nat
         /\ rd.rp \in Pointers /\ rd.wp \in Pointers
         /\ rd.size \in Nat /\ rd.copy \in Seq(Cells)
<1>1. Slots \subseteq Nat
  BY MsgqAssumption DEF Slots
<1> QED BY <1>1 DEF ReaderRecs

\* The publisher sends into cells that are there, and what it has stored of the
\* message is whole.
WriterOK(d, p, wr, n) ==
  /\ wr.pc \in Sending => wr.size \in Sizes /\ n > 0
  /\ wr.pc \in {"tag", "beyond"} => p >= wr.size + 2
  /\ wr.pc = "beyond" => d[p] = WRAP
  /\ wr.pc \in {"area", "copy"} => p + wr.size + 2 < SIZE
  /\ wr.pc = "tag" => wr.i = 0 /\ ~wr.hit
  /\ wr.pc \in {"beyond", "area"} => wr.i <= wr.n /\ (wr.hit => wr.i < wr.n)
  /\ wr.pc = "init" => wr.i \in Slots
  /\ wr.pc = "copy" =>
       /\ d[p] = Tag(wr.size)
       /\ wr.i \in 1 .. wr.size + 1
       /\ \A k \in 1 .. wr.size : k < wr.i => d[p + k] = Word(n, wr.size, k)

\* The publisher has looked at slot i for the last time before it stores.
Passed(wr, i) == wr.pc = "copy" \/ (wr.pc = "area" /\ (wr.i > i \/ i >= wr.n))

\* A subscriber in slot i that has read up to message k may stand at c: at the
\* start of a message newer than k or at a wrap-around tag, out of the way of a
\* publisher that will not look at the slot again, or at the write pointer.
PlaceOK(d, wp, wr, i, c, k) ==
  /\ c.cycles <= wp.cycles
  /\ c.cycles = wp.cycles => c.ptr <= wp.ptr
  /\ c.ptr < wp.ptr => IsSize(d[c.ptr])
  /\ c.ptr > wp.ptr => /\ IsSize(d[c.ptr]) \/ d[c.ptr] = WRAP
                       /\ Passed(wr, i) => c.ptr >= wp.ptr + wr.size + 1
                       /\ Newer(d, wp.ptr, k)
  /\ c.ptr # wp.ptr /\ IsSize(d[c.ptr]) => k < Num(d, c.ptr)
  /\ wr.pc \in {"tag", "beyond"} /\ i >= wr.n => c.ptr = wp.ptr

\* The write pointer that msgq_reset_reader has loaded is not lapped.
ResetOK(wp, wr, c) ==
  /\ wr.pc \in {"tag", "beyond"} => c.ptr >= wr.size + 1
  /\ wr.pc \in {"area", "copy"} /\ c.ptr > wp.ptr => c.ptr >= wp.ptr + wr.size + 1

\* A subscriber that has found a message at c and whose flag is still set: the
\* publisher is a lap ahead or behind c, and is not about to write at c.
FlightOK(d, wp, wr, i, c, k) ==
  /\ Passed(wr, i) => c.ptr # wp.ptr
  /\ c.ptr >= wp.ptr => c.cycles < wp.cycles /\ Newer(d, wp.ptr, k)
  /\ wr.pc \in {"tag", "beyond"} => i < wr.n

\* The tag t, loaded from a, is a wrap-around or starts a message newer than k.
TagOK(d, p, top, a, t, k) ==
  \/ t = WRAP /\ a >= p
  \/ IsSize(t) /\ MsgAt(d, p, top, a, t.size) /\ k < Num(d, a)

Flight == {"tag", "valid_tag", "wrap", "skip", "copy"}
Placed == {"reset_store", "idle", "uid", "valid", "load_rp", "load_wp",
           "valid_data", "deliver"} \cup Flight

Pos(rd, rp) == IF rd.pc = "reset_store" THEN rd.wp ELSE rp
Last(rd, g) == IF rd.pc \in {"valid_data", "deliver"} THEN rd.copy[1].msg ELSE g

\* The copy is one whole message, newer than g.
CopyOK(rd, top, g) ==
  /\ rd.size \in Sizes /\ Len(rd.copy) = rd.size
  /\ \A i \in 1 .. rd.size : rd.copy[i] = Word(rd.copy[1].msg, rd.size, i)
  /\ rd.copy[1].msg \in 1 .. top /\ g < rd.copy[1].msg

\* What holds of a subscriber whose slot is its own and whose flag is set.
ReaderOK(d, wp, wr, top, rd, rp, g) ==
  /\ rd.pc \in Placed => PlaceOK(d, wp, wr, rd.id, Pos(rd, rp), Last(rd, g))
  /\ rd.pc = "reset_store" => ResetOK(wp, wr, rd.wp)
  /\ rd.pc \in Flight => rd.rp = rp /\ FlightOK(d, wp, wr, rd.id, rp, g)
  /\ rd.pc = "load_wp" => rd.rp = rp
  /\ rd.pc = "tag" => TagOK(d, wp.ptr, top, rp.ptr, d[rp.ptr], g)
  /\ rd.pc = "valid_tag" => TagOK(d, wp.ptr, top, rp.ptr, rd.copy[1], g)
  /\ rd.pc = "wrap" => rp.ptr >= wp.ptr
  /\ rd.pc \in {"skip", "copy"} =>
       MsgAt(d, wp.ptr, top, rp.ptr, rd.size) /\ g < Num(d, rp.ptr)
  /\ rd.pc = "copy" =>
       \A i \in 1 .. Len(rd.copy) : rd.copy[i] = Word(Num(d, rp.ptr), rd.size, i)
  /\ rd.pc = "valid_data" => CopyOK(rd, top, g)

\* What holds of every subscriber, evicted, overwritten or not.
LocalOK(rd, top, g) ==
  /\ rd.pc # "abort"
  /\ g <= top
  /\ rd.pc = "valid_tag" => Len(rd.copy) = 1
  /\ rd.pc \in {"skip", "copy"} => /\ rd.size \in Sizes
                                   /\ rd.rp.ptr + rd.size + 1 < SIZE
                                   /\ Len(rd.copy) <= rd.size
  /\ rd.pc = "deliver" => CopyOK(rd, top, g)

-----------------------------------------------------------------------------
(* Steps of the publisher as a subscriber sees them.                       *)

LEMMA LastBound ==
  ASSUME NEW top \in Nat, NEW g \in Nat, NEW rd, LocalOK(rd, top, g),
         rd.pc = "valid_data" => CopyOK(rd, top, g)
  PROVE  Last(rd, g) \in Nat /\ Last(rd, g) <= top
BY DEF LocalOK, CopyOK, Last

\* The publisher moves on without touching the segment.
LEMMA MoveKeepsReader ==
  ASSUME NEW d, NEW wp, NEW wr, NEW wr2, NEW top \in Nat, NEW t \in Nat, top <= t,
         NEW rd, NEW rp, NEW g, ReaderOK(d, wp, wr, top, rd, rp, g),
         rd.pc \in Placed /\ Passed(wr2, rd.id) /\ Pos(rd, rp).ptr > wp.ptr
           => Pos(rd, rp).ptr >= wp.ptr + wr2.size + 1,
         rd.pc \in Placed /\ wr2.pc \in {"tag", "beyond"} /\ rd.id >= wr2.n
           => Pos(rd, rp).ptr = wp.ptr,
         rd.pc = "reset_store" => ResetOK(wp, wr2, rd.wp),
         rd.pc \in Flight /\ Passed(wr2, rd.id) => rp.ptr # wp.ptr,
         rd.pc \in Flight /\ wr2.pc \in {"tag", "beyond"} => rd.id < wr2.n
  PROVE  ReaderOK(d, wp, wr2, t, rd, rp, g)
<1>1. rd.pc \in Placed => PlaceOK(d, wp, wr2, rd.id, Pos(rd, rp), Last(rd, g))
  BY DEF ReaderOK, PlaceOK
<1>2. rd.pc \in Flight => rd.rp = rp /\ FlightOK(d, wp, wr2, rd.id, rp, g)
  BY DEF ReaderOK, FlightOK
<1>3. rd.pc = "tag" => TagOK(d, wp.ptr, t, rp.ptr, d[rp.ptr], g)
  BY LaterTop DEF ReaderOK, TagOK
<1>4. rd.pc = "valid_tag" => TagOK(d, wp.ptr, t, rp.ptr, rd.copy[1], g)
  BY LaterTop DEF ReaderOK, TagOK
<1>5. rd.pc \in {"skip", "copy"} =>
         MsgAt(d, wp.ptr, t, rp.ptr, rd.size) /\ g < Num(d, rp.ptr)
  BY LaterTop DEF ReaderOK
<1>6. rd.pc = "valid_data" => CopyOK(rd, t, g)
  BY DEF ReaderOK, CopyOK
<1> QED BY <1>1, <1>2, <1>3, <1>4, <1>5, <1>6 DEF ReaderOK

LEMMA StoreKeepsTag ==
  ASSUME NEW d \in [Addr -> Cells], NEW p \in Addr, NEW top \in Nat,
         SegmentOK(d, p, top), NEW x \in Addr, x >= p, NEW e, SameBut(d, e, x),
         NEW a \in Addr, a < p \/ a > x
  PROVE  e[a] = d[a] /\ (IsSize(d[a]) => Num(e, a) = Num(d, a))
<1>1. e[a] = d[a]
  BY DEF Addr, SameBut
<1>2. ASSUME IsSize(d[a]) PROVE Num(e, a) = Num(d, a)
  <2>1. MsgAt(d, p, top, a, d[a].size)
    BY <1>2 DEF SegmentOK, Addr
  <2>2. a < p \/ a >= x
    BY DEF Addr
  <2> QED BY <2>1, <2>2, StoreKeepsMessage
<1> QED BY <1>1, <1>2

LEMMA StoreKeepsNewer ==
  ASSUME NEW d \in [Addr -> Cells], NEW p \in Addr, NEW top \in Nat,
         SegmentOK(d, p, top), NEW x \in Addr, x >= p, NEW e, SameBut(d, e, x),
         NEW k, Newer(d, p, k)
  PROVE  Newer(e, p, k)
BY StoreKeepsTag DEF Newer

\* The publisher stores one cell, out of the way of the subscriber.
LEMMA StoreKeepsReader ==
  ASSUME NEW d \in [Addr -> Cells], NEW wp \in Pointers, NEW top \in Nat,
         SegmentOK(d, wp.ptr, top), NEW x \in Addr, x >= wp.ptr, NEW e, SameBut(d, e, x), NEW wr,
         NEW rd \in ReaderRecs, NEW rp \in Pointers, NEW g,
         ReaderOK(d, wp, wr, top, rd, rp, g),
         rd.pc \in Placed /\ Pos(rd, rp).ptr > wp.ptr => Pos(rd, rp).ptr > x,
         rd.pc \in Flight => \/ rp.ptr < wp.ptr \/ rp.ptr > x
                             \/ rp.ptr = x /\ x = wp.ptr /\ e[x] = WRAP
  PROVE  ReaderOK(e, wp, wr, top, rd, rp, g)
<1> DEFINE c == Pos(rd, rp)
           k == Last(rd, g)
           p == wp.ptr
<1>1. wp.ptr \in Addr /\ rp.ptr \in Addr /\ c.ptr \in Addr
  BY DEF Pointers, Addr, ReaderRecs, Pos
<1>3. \A kk : Newer(d, p, kk) => Newer(e, p, kk)
  BY <1>1, StoreKeepsNewer
<1>4. \A a \in Addr : a < p \/ a > x =>
         e[a] = d[a] /\ (IsSize(d[a]) => Num(e, a) = Num(d, a))
  BY <1>1, StoreKeepsTag
<1>5. \A a \in Addr : \A s : (a < p \/ a >= x) /\ MsgAt(d, p, top, a, s)
                          => MsgAt(e, p, top, a, s) /\ Num(e, a) = Num(d, a)
  BY <1>1, StoreKeepsMessage
<1> HIDE DEF c, k
<1>6. ASSUME rd.pc \in Placed PROVE PlaceOK(e, wp, wr, rd.id, c, k)
  <2>1. PlaceOK(d, wp, wr, rd.id, c, k) /\ (c.ptr > p => c.ptr > x)
    BY <1>6 DEF ReaderOK, c, k
  <2>2. c.ptr # p => e[c.ptr] = d[c.ptr] /\ (IsSize(d[c.ptr]) => Num(e, c.ptr) = Num(d, c.ptr))
    BY <1>1, <1>4, <2>1 DEF Addr
  <2>3. c.ptr < p => IsSize(e[c.ptr])
    BY <2>1, <2>2, <1>1 DEF PlaceOK, Addr
  <2>4. c.ptr > p => /\ IsSize(e[c.ptr]) \/ e[c.ptr] = WRAP
                     /\ Passed(wr, rd.id) => c.ptr >= p + wr.size + 1
                     /\ Newer(e, p, k)
    BY <2>1, <2>2, <1>1, <1>3 DEF PlaceOK, Addr
  <2>5. c.ptr # p /\ IsSize(e[c.ptr]) => k < Num(e, c.ptr)
    BY <2>1, <2>2 DEF PlaceOK
  <2> QED BY <2>1, <2>3, <2>4, <2>5 DEF PlaceOK
<1>7. ASSUME rd.pc \in Flight PROVE FlightOK(e, wp, wr, rd.id, rp, g)
  BY <1>7, <1>3 DEF ReaderOK, FlightOK
<1>8. ASSUME rd.pc \in Flight, NEW s, MsgAt(d, p, top, rp.ptr, s), g < Num(d, rp.ptr)
      PROVE  MsgAt(e, p, top, rp.ptr, s) /\ Num(e, rp.ptr) = Num(d, rp.ptr)
             /\ g < Num(e, rp.ptr)
  <2>1. rp.ptr < p \/ rp.ptr >= x
    BY <1>8, <1>1 DEF Addr
  <2> QED BY <1>8, <2>1, <1>1, <1>5
<1>9. ASSUME rd.pc \in Flight, NEW t, TagOK(d, p, top, rp.ptr, t, g)
      PROVE  TagOK(e, p, top, rp.ptr, t, g)
  BY <1>8, <1>9 DEF TagOK
<1>10. ASSUME rd.pc = "tag" PROVE TagOK(e, p, top, rp.ptr, e[rp.ptr], g)
  <2>1. rd.pc \in Flight /\ TagOK(d, p, top, rp.ptr, d[rp.ptr], g)
    BY <1>10 DEF ReaderOK, Flight
  <2>2. CASE rp.ptr = x /\ x = p /\ e[x] = WRAP
    BY <2>2, <1>1 DEF TagOK, Addr
  <2>3. CASE rp.ptr < p \/ rp.ptr > x
    BY <2>1, <2>3, <1>1, <1>4, <1>9
  <2> QED BY <2>1, <2>2, <2>3
<1>11. rd.pc = "valid_tag" => TagOK(e, p, top, rp.ptr, rd.copy[1], g)
  BY <1>9 DEF ReaderOK, Flight
<1>12. rd.pc \in {"skip", "copy"} =>
         MsgAt(e, p, top, rp.ptr, rd.size) /\ g < Num(e, rp.ptr)
         /\ Num(e, rp.ptr) = Num(d, rp.ptr)
  BY <1>8 DEF ReaderOK, Flight
<1> QED BY <1>6, <1>7, <1>10, <1>11, <1>12 DEF ReaderOK, c, k

\* The publisher wraps around.
LEMMA WrapKeepsReader ==
  ASSUME NEW d \in [Addr -> Cells], NEW wp \in Pointers, NEW top \in Nat,
         d[wp.ptr] = WRAP, NEW wr \in WriterRecs, wr.pc = "beyond",
         wp.ptr >= wr.size + 2,
         NEW rd \in ReaderRecs, NEW rp \in Pointers, NEW g,
         ReaderOK(d, wp, wr, top, rd, rp, g)
  PROVE  ReaderOK(d, At(wp.cycles + 1, 0), [wr EXCEPT !.pc = "area", !.i = 0],
                  top, rd, rp, g)
<1> DEFINE v == At(wp.cycles + 1, 0)
           u == [wr EXCEPT !.pc = "area", !.i = 0]
           c == Pos(rd, rp)
           k == Last(rd, g)
<1>1. /\ wp.ptr \in Addr /\ rp.ptr \in Addr /\ c.ptr \in Addr
      /\ wp.cycles \in Nat /\ rp.cycles \in Nat /\ c.cycles \in Nat
      /\ rd.id \in Nat /\ wr.size \in Nat /\ wr.n \in Nat
  <2>1. wp \in Pointers /\ rp \in Pointers /\ c \in Pointers
    BY DEF ReaderRecs, Pos
  <2>2. rd.id \in Nat /\ wr.size \in Nat /\ wr.n \in Nat
    BY WriterFields, ReaderFields
  <2> HIDE DEF c
  <2> QED BY <2>1, <2>2 DEF Pointers, Addr
<1>2. v.cycles = wp.cycles + 1 /\ v.ptr = 0
  BY DEF At
<1>3. u.pc = "area" /\ u.i = 0 /\ u.n = wr.n /\ u.size = wr.size
  BY DEF WriterRecs
<1>4. Passed(u, rd.id) => rd.id >= wr.n
  BY <1>1, <1>3 DEF Passed
<1>5. \A kk : Newer(d, 0, kk)
  BY DEF Newer, Addr
<1> HIDE DEF v, u, c, k
<1>6. ASSUME rd.pc \in Placed PROVE PlaceOK(d, v, u, rd.id, c, k)
  <2>1. PlaceOK(d, wp, wr, rd.id, c, k)
    BY <1>6 DEF ReaderOK, c, k
  <2>2. IsSize(d[c.ptr]) \/ d[c.ptr] = WRAP
    BY <2>1, <1>1 DEF PlaceOK, Addr
  <2>3. Passed(u, rd.id) => c.ptr >= v.ptr + u.size + 1
    BY <2>1, <1>1, <1>2, <1>3, <1>4 DEF PlaceOK, Addr
  <2>4. IsSize(d[c.ptr]) => k < Num(d, c.ptr)
    BY <2>1, CellKinds DEF PlaceOK
  <2>5. c.cycles <= v.cycles /\ c.cycles # v.cycles /\ ~(c.ptr < v.ptr)
    <3>1. c.cycles <= wp.cycles
      BY <2>1 DEF PlaceOK
    <3>2. ~(c.ptr < 0)
      BY <1>1 DEF Addr
    <3> QED BY <1>1, <1>2, <3>1, <3>2
  <2> QED BY <2>2, <2>3, <2>4, <2>5, <1>2, <1>3, <1>5 DEF PlaceOK
<1>7. ASSUME rd.pc = "reset_store" PROVE ResetOK(v, u, rd.wp)
  BY <1>7, <1>1, <1>2, <1>3 DEF ReaderOK, ResetOK, ReaderRecs, Pointers
<1>8. ASSUME rd.pc \in Flight PROVE FlightOK(d, v, u, rd.id, rp, g)
  <2>1. FlightOK(d, wp, wr, rd.id, rp, g) /\ PlaceOK(d, wp, wr, rd.id, c, k) /\ c = rp
    BY <1>8 DEF ReaderOK, Flight, Placed, c, k, Pos
  <2>2. ~Passed(u, rd.id)
    BY <2>1, <1>1, <1>4 DEF FlightOK
  <2>3. rp.cycles < v.cycles
    BY <2>1, <1>1, <1>2 DEF PlaceOK
  <2> QED BY <2>2, <2>3, <1>2, <1>3, <1>5 DEF FlightOK
<1>9. ASSUME NEW s, MsgAt(d, wp.ptr, top, rp.ptr, s) PROVE MsgAt(d, v.ptr, top, rp.ptr, s)
  BY <1>9, <1>1, <1>2, WrapKeepsMessage
<1>10. ASSUME NEW t, TagOK(d, wp.ptr, top, rp.ptr, t, g)
       PROVE  TagOK(d, v.ptr, top, rp.ptr, t, g)
  BY <1>1, <1>2, <1>9, <1>10 DEF TagOK, Addr
<1>11. rp.ptr >= v.ptr
  BY <1>1, <1>2 DEF Addr
<1> QED BY <1>6, <1>7, <1>8, <1>9, <1>10, <1>11 DEF ReaderOK, c, k, v, u

\* The publisher moves the write pointer over the message it has stored.
LEMMA PublishKeepsReader ==
  ASSUME NEW d \in [Addr -> Cells], NEW wp \in Pointers, NEW top \in Nat,
         NEW wr \in WriterRecs, wr.pc = "copy", Complete(d, wp.ptr, wr.size, top + 1),
         NEW rd \in ReaderRecs, NEW rp \in Pointers, NEW g \in Nat,
         ReaderOK(d, wp, wr, top, rd, rp, g), LocalOK(rd, top, g)
  PROVE  ReaderOK(d, At(wp.cycles, wp.ptr + wr.size + 1), WriterAt("idle"),
                  top + 1, rd, rp, g)
<1> DEFINE v == At(wp.cycles, wp.ptr + wr.size + 1)
           u == WriterAt("idle")
           c == Pos(rd, rp)
           k == Last(rd, g)
           p == wp.ptr
<1>1. /\ p \in Addr /\ rp.ptr \in Addr /\ c.ptr \in Addr
      /\ wp.cycles \in Nat /\ rp.cycles \in Nat /\ c.cycles \in Nat /\ wr.size \in Nat
  <2>1. wp \in Pointers /\ rp \in Pointers /\ c \in Pointers
    BY DEF ReaderRecs, Pos
  <2>2. wr.size \in Nat
    BY WriterFields
  <2> HIDE DEF c
  <2> QED BY <2>1, <2>2 DEF Pointers, Addr
<1>2. v.cycles = wp.cycles /\ v.ptr = p + wr.size + 1
  BY DEF At
<1>3. u.pc = "idle" /\ \A i : Passed(wr, i) /\ ~Passed(u, i)
  BY DEF WriterAt, Passed
<1>4. /\ v.ptr \in Addr /\ p < v.ptr /\ Num(d, p) = top + 1 /\ IsSize(d[p])
      /\ \A y \in Addr : p < y /\ y < v.ptr => ~IsSize(d[y])
  BY <1>1, <1>2, CompleteIsMessage, CellKinds DEF Complete
<1>5. k \in Nat /\ k <= top /\ g <= top
  BY LastBound DEF ReaderOK, LocalOK, k
<1> HIDE DEF v, u, c, k
<1>6. ASSUME NEW kk \in Nat, kk <= top, Newer(d, p, kk) PROVE Newer(d, v.ptr, kk)
  <2> SUFFICES ASSUME NEW b \in Addr, b < v.ptr, IsSize(d[b]) PROVE kk < Num(d, b)
    BY DEF Newer
  <2>1. CASE b < p
    BY <2>1, <1>6 DEF Newer
  <2>2. CASE b = p
    BY <2>2, <1>4, <1>6
  <2>3. CASE b > p
    BY <2>3, <1>4
  <2> QED BY <2>1, <2>2, <2>3, <1>1 DEF Addr
<1>7. ASSUME rd.pc \in Placed PROVE PlaceOK(d, v, u, rd.id, c, k)
  <2>1. PlaceOK(d, wp, wr, rd.id, c, k)
    BY <1>7 DEF ReaderOK, c, k
  <2>2. c.ptr > p => c.ptr >= v.ptr
    BY <2>1, <1>2, <1>3 DEF PlaceOK
  <2>3. c.ptr < v.ptr => IsSize(d[c.ptr])
    BY <2>1, <2>2, <1>1, <1>4 DEF PlaceOK, Addr
  <2>4. c.ptr > v.ptr => (IsSize(d[c.ptr]) \/ d[c.ptr] = WRAP) /\ Newer(d, v.ptr, k)
    BY <2>1, <1>1, <1>4, <1>5, <1>6 DEF PlaceOK, Addr
  <2>5. IsSize(d[c.ptr]) => k < Num(d, c.ptr)
    BY <2>1, <1>4, <1>5 DEF PlaceOK
  <2>6. c.cycles <= v.cycles /\ (c.cycles = v.cycles => c.ptr <= v.ptr)
    BY <2>1, <1>1, <1>2, <1>4 DEF PlaceOK, Addr
  <2> QED BY <2>3, <2>4, <2>5, <2>6, <1>3 DEF PlaceOK
<1>8. ASSUME rd.pc \in Flight
      PROVE  /\ FlightOK(d, v, u, rd.id, rp, g)
             /\ rp.ptr < p \/ rp.ptr >= v.ptr
  <2>1. FlightOK(d, wp, wr, rd.id, rp, g) /\ PlaceOK(d, wp, wr, rd.id, rp, k)
    BY <1>8 DEF ReaderOK, Flight, Placed, c, k, Pos
  <2>2. rp.ptr < p \/ rp.ptr >= v.ptr
    BY <2>1, <1>1, <1>2, <1>3 DEF FlightOK, PlaceOK, Addr
  <2>3. rp.ptr >= v.ptr => rp.cycles < v.cycles /\ Newer(d, v.ptr, g)
    <3> SUFFICES ASSUME rp.ptr >= v.ptr PROVE rp.cycles < v.cycles /\ Newer(d, v.ptr, g)
      OBVIOUS
    <3>1. rp.ptr >= p
      BY <1>1, <1>4 DEF Addr
    <3>2. rp.cycles < wp.cycles /\ Newer(d, p, g)
      BY <2>1, <3>1 DEF FlightOK
    <3> QED BY <1>2, <1>5, <1>6, <3>2
  <2> QED BY <2>2, <2>3, <1>3 DEF FlightOK
<1>9. ASSUME rd.pc \in Flight, NEW s, MsgAt(d, p, top, rp.ptr, s)
      PROVE  MsgAt(d, v.ptr, top + 1, rp.ptr, s)
  BY <1>1, <1>2, <1>8, <1>9, PublishKeepsMessage
<1>10. ASSUME rd.pc \in Flight, NEW t, TagOK(d, p, top, rp.ptr, t, g)
       PROVE  TagOK(d, v.ptr, top + 1, rp.ptr, t, g)
  BY <1>1, <1>8, <1>9, <1>10 DEF TagOK, Addr
<1>11. rd.pc = "wrap" => rp.ptr >= v.ptr
  BY <1>1, <1>8 DEF ReaderOK, Flight, Addr
<1>12. rd.pc = "valid_data" => CopyOK(rd, top + 1, g)
  BY DEF ReaderOK, CopyOK
<1>13. rd.pc = "reset_store" => ResetOK(v, u, rd.wp)
  BY <1>3 DEF ResetOK
<1> QED BY <1>7, <1>8, <1>9, <1>10, <1>11, <1>12, <1>13 DEF ReaderOK, Flight, c, k, v, u

-----------------------------------------------------------------------------
(* The inductive invariant.                                                *)

MsgqTypes ==
  /\ num_readers \in 0 .. NUM_READERS
  /\ write_pointer \in Pointers
  /\ read_pointers \in [Slots -> Pointers]
  /\ read_valids \in [Slots -> BOOLEAN]
  /\ read_uids \in [Slots -> Readers \cup {NoUid}]
  /\ data \in [Addr -> Cells]
  /\ w \in WriterRecs
  /\ r \in [Readers -> ReaderRecs]
  /\ sent \in 0 .. MAX_SENT
  /\ got \in [Readers -> 0 .. MAX_SENT]
  /\ conflate \in [Readers -> BOOLEAN]
  /\ deaths \in 0 .. MAX_DEATHS

Claiming(q) == r[q].pc \in {"new_valid", "new_pointer", "new_uid"}

Unslotted == {"down", "register", "evict", "evict_valid", "evict_uid", "claim",
              "new_valid", "new_pointer", "new_uid"}

Calm == \A e \in Readers : ~Evicting(e)

\* Who withdraws the slots is alone, and has left none behind.
EvictionIsAlone ==
  \A e \in Readers : Evicting(e) =>
    /\ \A o \in Readers \ {e} : ~InCall(o) /\ (Holds(o) => id(o) >= id(e))
    /\ num_readers = 0 /\ w.pc # "init"

StartIsAlone ==
  w.pc = "init" => /\ \A o \in Readers : ~InCall(o) /\ (Holds(o) => id(o) >= w.i)
                   /\ num_readers = 0

\* A slot that was claimed is nobody else's.
ClaimsAreApart ==
  \A q \in Readers : Claiming(q) =>
    /\ id(q) < num_readers
    /\ \A o \in Readers \ {q} : Holds(o) \/ Claiming(o) => id(o) # id(q)

\* Only a subscriber outside a call loses its slot.
CallersHold ==
  \A q \in Readers : InCall(q) /\ r[q].pc \notin Unslotted => Holds(q)

\* With a publisher up and nobody evicting, a holder's slot is counted.
HolderIsCounted ==
  w.pc \notin {"down", "init"} /\ (\A e \in Readers : ~Evicting(e)) =>
    \A q \in Readers : Holds(q) => id(q) < num_readers

SlotInv == EvictionIsAlone /\ StartIsAlone /\ ClaimsAreApart /\ CallersHold /\ HolderIsCounted

Top == Pub(w, sent)

SegmentInv == SegmentOK(data, write_pointer.ptr, Top)
WriterInv  == WriterOK(data, write_pointer.ptr, w, sent)
LocalInv   == \A q \in Readers : LocalOK(r[q], Top, got[q])

Live(q) == Calm /\ Holds(q) /\ read_valids[id(q)]

ReaderInv == \A q \in Readers : Live(q) =>
  ReaderOK(data, write_pointer, w, Top, r[q], read_pointers[id(q)], got[q])

MsgqIInv ==
  MsgqTypes /\ SlotInv /\ SegmentInv /\ WriterInv /\ LocalInv /\ ReaderInv

-----------------------------------------------------------------------------
(* Types.                                                                  *)

LEMMA ReaderAtFields ==
  ASSUME NEW pc, NEW i
  PROVE  /\ ReaderAt(pc, i).pc = pc /\ ReaderAt(pc, i).id = i
         /\ ReaderAt(pc, i).size = 0 /\ ReaderAt(pc, i).copy = << >>
         /\ pc \in ReaderPcs /\ i \in Slots => ReaderAt(pc, i) \in ReaderRecs
<1>1. At(0, 0) \in Pointers
  BY MsgqAssumption DEF At, Pointers
<1>2. << >> \in Seq(Cells)
  OBVIOUS
<1> QED BY <1>1, <1>2 DEF ReaderAt, ReaderRecs

LEMMA WriterAtFields ==
  ASSUME NEW pc
  PROVE  /\ WriterAt(pc).pc = pc /\ WriterAt(pc).size = 0 /\ WriterAt(pc).i = 0
         /\ ~WriterAt(pc).hit
         /\ pc \in WriterPcs => WriterAt(pc) \in WriterRecs
BY MsgqAssumption DEF WriterAt, WriterRecs

LEMMA InitTypes == Init => MsgqTypes
<1> SUFFICES ASSUME Init PROVE MsgqTypes
  OBVIOUS
<1>1. At(0, 0) \in Pointers /\ 0 \in Slots
  BY MsgqAssumption DEF At, Pointers, Slots
<1>2. Zero \in Cells
  BY DEF Cells
<1>3. data \in [Addr -> Cells]
  BY <1>2 DEF Init, Addr
<1>4. w \in WriterRecs /\ r \in [Readers -> ReaderRecs]
  <2>1. ReaderAt("down", 0) \in ReaderRecs
    BY <1>1, ReaderAtFields DEF ReaderPcs
  <2> QED BY <2>1, WriterAtFields DEF Init, WriterPcs
<1> QED BY <1>1, <1>3, <1>4, MsgqAssumption DEF Init, MsgqTypes

\* The room a message needs, from the assertion of msgq_msg_send.
LEMMA WrapRoom ==
  ASSUME MsgqTypes, NEW s \in Sizes
  PROVE  /\ MustWrap(s) => write_pointer.ptr >= s + 2
         /\ ~MustWrap(s) => write_pointer.ptr + s + 2 < SIZE
         /\ s + 2 < SIZE
<1>1. write_pointer.ptr \in Nat
  BY DEF MsgqTypes, Pointers
<1> QED BY <1>1, SizesFit DEF MustWrap

\* The publisher's part of the state keeps its type.
LEMMA WriterTypes ==
  ASSUME MsgqIInv, Writer \/ (\E s \in Sizes : msgq_msg_send(s)) \/ WriterDies
  PROVE  MsgqTypes'
<1> USE DEF MsgqIInv, MsgqTypes
<1>1. CASE msgq_init_publisher
  BY <1>1, WriterAtFields, MsgqAssumption DEF msgq_init_publisher, WriterPcs
<1>2. CASE InitSlot
  <2>1. w.i \in Slots
    BY <1>2 DEF InitSlot, WriterInv, WriterOK
  <2>2. w' \in {[w EXCEPT !.hit = TRUE], [w EXCEPT !.i = @ + 1, !.hit = FALSE],
                WriterAt("idle")}
    BY <1>2 DEF InitSlot
  <2>3. /\ [w EXCEPT !.hit = TRUE] \in WriterRecs
        /\ [w EXCEPT !.i = @ + 1, !.hit = FALSE] \in WriterRecs
        /\ WriterAt("idle") \in WriterRecs
    BY WriterAtFields, WriterFields, WriterUpdates DEF WriterPcs
  <2>4. w' \in WriterRecs
    BY <2>2, <2>3
  <2> QED BY <1>2, <2>1, <2>4 DEF InitSlot
<1>3. ASSUME NEW s \in Sizes, msgq_msg_send(s) PROVE MsgqTypes'
  <2>1. /\ w' \in WriterRecs /\ sent < MAX_SENT /\ sent' = sent + 1
        /\ UNCHANGED <<num_readers, write_pointer, read_pointers, read_valids, read_uids,
                       data, r, got, conflate, deaths>>
    BY <1>3, SizesFit DEF msgq_msg_send, WriterPcs, WriterRecs, WriterAt, header
  <2>2. sent' \in 0 .. MAX_SENT
    BY <2>1, MsgqAssumption
  <2> QED BY <2>1, <2>2
<1>4. CASE WrapTag
  <2>1. WRAP \in Cells
    BY DEF Cells
  <2>2. w' \in WriterRecs
    BY <1>4 DEF WrapTag, WriterPcs, WriterRecs
  <2> QED BY <1>4, <2>1, <2>2 DEF WrapTag, header
<1>5. CASE Inspect
  <2>1. w' \in {[w EXCEPT !.hit = TRUE], [w EXCEPT !.i = @ + 1]}
    BY <1>5 DEF Inspect
  <2>2. [w EXCEPT !.hit = TRUE] \in WriterRecs /\ [w EXCEPT !.i = @ + 1] \in WriterRecs
    BY WriterFields, WriterUpdates
  <2>3. w' \in WriterRecs
    BY <2>1, <2>2
  <2> QED BY <1>5, <2>3 DEF Inspect, header
<1>6. CASE Invalidate
  <2>1. w' = [w EXCEPT !.hit = FALSE, !.i = @ + 1]
    BY <1>6 DEF Invalidate
  <2>2. w' \in WriterRecs
    BY <2>1, WriterFields, WriterUpdates
  <2> QED BY <1>6, <2>2 DEF Invalidate
<1>7. CASE WrapAround
  <2>1. w' \in WriterRecs
    BY <1>7 DEF WrapAround, WriterRecs, WriterPcs
  <2>2. write_pointer' \in Pointers
    BY <1>7, MsgqAssumption DEF WrapAround, Pointers, At
  <2> QED BY <1>7, <2>1, <2>2 DEF WrapAround
<1>8. CASE SizeTag
  <2>1. w' \in WriterRecs
    BY <1>8 DEF SizeTag, WriterRecs, WriterPcs
  <2>2. Tag(w.size) \in Cells
    BY <1>8 DEF SizeTag, WriterInv, WriterOK, Sending, Tag, Cells
  <2> QED BY <1>8, <2>1, <2>2 DEF SizeTag, header
<1>9. CASE CopyIn
  <2>1. w' \in WriterRecs
    BY <1>9 DEF CopyIn, WriterRecs
  <2>2. Word(sent, w.size, w.i) \in Cells
    <3>1. w.size \in Sizes /\ w.i \in Nat /\ sent \in Nat
      BY <1>9, MsgqAssumption DEF CopyIn, WriterInv, WriterOK, Sending, WriterRecs
    <3> QED BY <3>1 DEF Word, Cells
  <2> QED BY <1>9, <2>1, <2>2 DEF CopyIn, header
<1>10. CASE Publish
  <2>1. w' \in WriterRecs
    BY <1>10, WriterAtFields DEF Publish, WriterPcs
  <2>2. write_pointer.ptr + w.size + 1 \in 0 .. SIZE - 1 /\ write_pointer.cycles \in Nat
    BY <1>10, SizesFit DEF Publish, WriterInv, WriterOK, Pointers, Sending
  <2>3. write_pointer' \in Pointers
    BY <1>10, <2>2 DEF Publish, Pointers, At
  <2> QED BY <1>10, <2>1, <2>3 DEF Publish
<1>11. CASE WriterDies
  BY <1>11, WriterAtFields, MsgqAssumption DEF WriterDies, header, WriterPcs
<1> QED BY <1>1, <1>2, <1>3, <1>4, <1>5, <1>6, <1>7, <1>8, <1>9, <1>10, <1>11 DEF Writer

\* A step of q changes its own locals and nothing but its own slot.
Own(q) ==
  /\ r'[q] \in ReaderRecs
  /\ \A o \in Readers \ {q} : r'[o] = r[o] /\ got'[o] = got[o]
  /\ \A i \in Slots \ {id(q)} : /\ read_pointers'[i] = read_pointers[i]
                                /\ read_valids'[i] = read_valids[i]
  /\ UNCHANGED <<num_readers, read_uids, write_pointer, data, w, sent, conflate>>

\* A step inside a call that has found the slot to be the subscriber's.
Inside(q) ==
  /\ r[q].pc \notin Unslotted \cup {"idle"}
  /\ r'[q].pc \notin Unslotted /\ r'[q].id = r[q].id

LEMMA TurnFields ==
  ASSUME MsgqTypes, NEW q \in Readers, NEW x \in ReaderRecs, r' = [r EXCEPT ![q] = x]
  PROVE  /\ r' \in [Readers -> ReaderRecs] /\ r'[q] = x
         /\ \A o \in Readers \ {q} : r'[o] = r[o]
BY DEF MsgqTypes

LEMMA GotoFields ==
  ASSUME MsgqTypes, NEW q \in Readers, NEW pc \in ReaderPcs, Goto(q, pc)
  PROVE  /\ r' \in [Readers -> ReaderRecs] /\ r'[q] \in ReaderRecs
         /\ r'[q] = [r[q] EXCEPT !.pc = pc]
         /\ \A o \in Readers \ {q} : r'[o] = r[o]
         /\ r'[q].pc = pc /\ r'[q].id = r[q].id /\ r'[q].rp = r[q].rp
         /\ r'[q].wp = r[q].wp /\ r'[q].size = r[q].size /\ r'[q].copy = r[q].copy
<1>1. r[q] \in ReaderRecs
  BY DEF MsgqTypes
<1>2. /\ [r[q] EXCEPT !.pc = pc] \in ReaderRecs
      /\ [r[q] EXCEPT !.pc = pc].pc = pc
  BY <1>1 DEF ReaderRecs
<1>3. r' = [r EXCEPT ![q] = [r[q] EXCEPT !.pc = pc]]
  BY DEF Goto
<1>4. r'[q] = [r[q] EXCEPT !.pc = pc]
  BY <1>3 DEF MsgqTypes
<1> QED BY <1>1, <1>2, <1>3, <1>4, TurnFields DEF ReaderRecs

LEMMA ReaderAtTurn ==
  ASSUME MsgqTypes, NEW q \in Readers, NEW pc \in ReaderPcs, NEW i \in Slots,
         r' = [r EXCEPT ![q] = ReaderAt(pc, i)]
  PROVE  /\ r' \in [Readers -> ReaderRecs] /\ r'[q] \in ReaderRecs
         /\ r'[q] = ReaderAt(pc, i) /\ r'[q].pc = pc /\ r'[q].id = i
         /\ \A o \in Readers \ {q} : r'[o] = r[o]
<1> DEFINE x == ReaderAt(pc, i)
<1>1. x \in ReaderRecs /\ x.pc = pc /\ x.id = i
  BY ReaderAtFields
<1> HIDE DEF x
<1>2. r' = [r EXCEPT ![q] = x]
  BY DEF x
<1>3. r' \in [Readers -> ReaderRecs] /\ r'[q] = x /\ \A o \in Readers \ {q} : r'[o] = r[o]
  BY <1>1, <1>2, TurnFields
<1> QED BY <1>1, <1>3 DEF x

LEMMA RestartFields ==
  ASSUME MsgqTypes, NEW q \in Readers, Restart(q)
  PROVE  /\ r' \in [Readers -> ReaderRecs] /\ r'[q] \in ReaderRecs
         /\ r'[q] = ReaderAt("uid", r[q].id) /\ r'[q].pc = "uid" /\ r'[q].id = r[q].id
         /\ \A o \in Readers \ {q} : r'[o] = r[o]
<1>1. r[q].id \in Slots
  BY ReaderFields DEF MsgqTypes
<1>2. "uid" \in ReaderPcs
  BY DEF ReaderPcs
<1> QED BY <1>1, <1>2, ReaderAtTurn DEF Restart

LEMMA OwnFacts ==
  ASSUME MsgqIInv, NEW q \in Readers
  PROVE  /\ r[q] \in ReaderRecs /\ r[q].id \in Slots /\ id(q) = r[q].id
         /\ r[q].rp \in Pointers /\ r[q].wp \in Pointers /\ r[q].size \in Nat
         /\ r[q].copy \in Seq(Cells) /\ LocalOK(r[q], Top, got[q])
         /\ Top \in Nat /\ Top <= sent /\ got[q] \in Nat
<1>1. r[q] \in ReaderRecs
  BY DEF MsgqIInv, MsgqTypes
<1>2. Top \in Nat /\ Top <= sent
  BY MsgqAssumption DEF MsgqIInv, MsgqTypes, Top, Pub, WriterInv, WriterOK
<1>3. got[q] \in Nat
  BY MsgqAssumption DEF MsgqIInv, MsgqTypes
<1>4. LocalOK(r[q], Top, got[q])
  BY DEF MsgqIInv, LocalInv
<1> QED BY <1>1, <1>2, <1>3, <1>4, ReaderFields DEF id

\* The offset behind a message lies in the segment.
LEMMA NewPointerFits ==
  ASSUME MsgqIInv, NEW q \in Readers, r[q].pc \in {"skip", "copy"}
  PROVE  /\ r[q].rp.ptr \in Nat /\ r[q].size \in Sizes /\ r[q].size \in Nat
         /\ r[q].rp.ptr + r[q].size + 1 < SIZE /\ SIZE \in Nat
         /\ Len(r[q].copy) <= r[q].size /\ Len(r[q].copy) \in Nat
         /\ At(r[q].rp.cycles, NewReadPointer(q, r[q].size)) \in Pointers
<1>1. r[q].rp.ptr \in Nat /\ r[q].rp.cycles \in Nat
  <2>1. r[q].rp \in Pointers
    BY OwnFacts
  <2> QED BY <2>1 DEF Pointers
<1>2. r[q].size \in Sizes /\ r[q].rp.ptr + r[q].size + 1 < SIZE /\ Len(r[q].copy) <= r[q].size
  BY OwnFacts DEF LocalOK
<1>3. r[q].size \in Nat /\ SIZE \in Nat
  BY <1>2, SizesFit
<1>4. Len(r[q].copy) \in Nat
  BY OwnFacts
<1>5. NewReadPointer(q, r[q].size) \in 0 .. SIZE - 1
  <2> DEFINE a == r[q].rp.ptr
             b == r[q].size
  <2>1. a \in Nat /\ b \in Nat /\ a + b + 1 < SIZE
    BY <1>1, <1>2, <1>3
  <2> HIDE DEF a, b
  <2>2. a + 1 + b \in 0 .. SIZE - 1
    BY <2>1, <1>3
  <2> QED BY <2>2 DEF NewReadPointer, a, b
<1>6. At(r[q].rp.cycles, NewReadPointer(q, r[q].size)) \in Pointers
  BY <1>1, <1>5 DEF At, Pointers
<1> QED BY <1>1, <1>2, <1>3, <1>4, <1>6

\* The steps of a call that has found its slot.
InCallStep(q) ==
  \/ ResetValid(q) \/ ResetLoad(q) \/ ResetStore(q) \/ CheckValid(q)
  \/ LoadReadPointer(q) \/ LoadWritePointer(q) \/ LoadTag(q) \/ CheckTag(q)
  \/ StoreWrap(q) \/ StoreSkip(q) \/ CopyOut(q) \/ StoreReadPointer(q)
  \/ CheckData(q) \/ Deliver(q)

LEMMA InCallTypes ==
  ASSUME MsgqIInv, NEW q \in Readers, InCallStep(q)
  PROVE  MsgqTypes' /\ Own(q) /\ Inside(q)
<1>0. MsgqTypes /\ r[q] \in ReaderRecs /\ r[q].id \in Slots
  BY OwnFacts DEF MsgqIInv
<1> USE DEF Unslotted, header, id
<1>1. CASE ResetValid(q)
  <2>1. Goto(q, "reset_load") /\ "reset_load" \in ReaderPcs
    BY <1>1 DEF ResetValid, ReaderPcs
  <2>2. /\ r' \in [Readers -> ReaderRecs] /\ r'[q] \in ReaderRecs
        /\ r'[q].pc = "reset_load" /\ r'[q].id = r[q].id
        /\ \A o \in Readers \ {q} : r'[o] = r[o]
    BY <1>0, <2>1, GotoFields
  <2> QED BY <1>0, <1>1, <2>2 DEF ResetValid, MsgqTypes, Own, Inside
<1>2. CASE ResetLoad(q)
  <2> DEFINE x == [r[q] EXCEPT !.pc = "reset_store", !.wp = write_pointer]
  <2>1. x \in ReaderRecs /\ x.pc = "reset_store" /\ x.id = r[q].id
    BY <1>0 DEF ReaderRecs, ReaderPcs, MsgqTypes
  <2>2. r' = [r EXCEPT ![q] = x]
    BY <1>2 DEF ResetLoad
  <2> HIDE DEF x
  <2> QED BY <1>0, <1>2, <2>1, <2>2, TurnFields DEF ResetLoad, MsgqTypes, Own, Inside
<1>3. CASE ResetStore(q)
  <2>1. Restart(q) /\ r[q].wp \in Pointers
    BY <1>3, OwnFacts DEF ResetStore
  <2> QED BY <1>0, <1>3, <2>1, RestartFields DEF ResetStore, MsgqTypes, Own, Inside
<1>4. CASE CheckValid(q)
  <2>1. Goto(q, "load_rp") \/ Goto(q, "reset")
    BY <1>4 DEF CheckValid
  <2>2. "load_rp" \in ReaderPcs /\ "reset" \in ReaderPcs
    BY DEF ReaderPcs
  <2>3. /\ r' \in [Readers -> ReaderRecs] /\ r'[q] \in ReaderRecs
        /\ r'[q].pc \in {"load_rp", "reset"} /\ r'[q].id = r[q].id
        /\ \A o \in Readers \ {q} : r'[o] = r[o]
    BY <1>0, <2>1, <2>2, GotoFields
  <2> QED BY <1>0, <1>4, <2>3 DEF CheckValid, MsgqTypes, Own, Inside
<1>5. CASE LoadReadPointer(q)
  <2> DEFINE x == [r[q] EXCEPT !.pc = "load_wp", !.rp = read_pointers[r[q].id]]
  <2>1. x \in ReaderRecs /\ x.pc = "load_wp" /\ x.id = r[q].id
    BY <1>0 DEF ReaderRecs, ReaderPcs, MsgqTypes
  <2>2. r' = [r EXCEPT ![q] = x]
    BY <1>5 DEF LoadReadPointer
  <2> HIDE DEF x
  <2> QED BY <1>0, <1>5, <2>1, <2>2, TurnFields DEF LoadReadPointer, MsgqTypes, Own, Inside
<1>6. CASE LoadWritePointer(q)
  <2> DEFINE x == IF r[q].rp.ptr = write_pointer.ptr THEN ReaderAt("idle", r[q].id)
                  ELSE [r[q] EXCEPT !.pc = "tag", !.wp = write_pointer]
  <2>1. x \in ReaderRecs /\ x.pc \in {"idle", "tag"} /\ x.id = r[q].id
    <3>1. CASE r[q].rp.ptr = write_pointer.ptr
      BY <1>0, <3>1, ReaderAtFields DEF ReaderPcs
    <3>2. CASE r[q].rp.ptr # write_pointer.ptr
      BY <1>0, <3>2 DEF ReaderRecs, ReaderPcs, MsgqTypes
    <3> QED BY <3>1, <3>2
  <2>2. r' = [r EXCEPT ![q] = x]
    BY <1>6 DEF LoadWritePointer
  <2> HIDE DEF x
  <2> QED BY <1>0, <1>6, <2>1, <2>2, TurnFields DEF LoadWritePointer, MsgqTypes, Own, Inside
<1>7. CASE LoadTag(q)
  <2> DEFINE x == [r[q] EXCEPT !.pc = "valid_tag", !.copy = <<data[r[q].rp.ptr]>>]
  <2>1. r[q].rp.ptr \in Addr
    BY <1>0, ReaderFields DEF Pointers, Addr
  <2>2. <<data[r[q].rp.ptr]>> \in Seq(Cells)
    BY <1>0, <2>1 DEF MsgqTypes
  <2>3. x \in ReaderRecs /\ x.pc = "valid_tag" /\ x.id = r[q].id
    BY <1>0, <2>2 DEF ReaderRecs, ReaderPcs
  <2>4. r' = [r EXCEPT ![q] = x]
    BY <1>7 DEF LoadTag
  <2> HIDE DEF x
  <2> QED BY <1>0, <1>7, <2>3, <2>4, TurnFields DEF LoadTag, MsgqTypes, Own, Inside
<1>9. CASE StoreWrap(q)
  <2>1. Restart(q) /\ At(r[q].rp.cycles + 1, 0) \in Pointers
    BY <1>9, OwnFacts, MsgqAssumption DEF StoreWrap, Pointers, At
  <2> QED BY <1>0, <1>9, <2>1, RestartFields DEF StoreWrap, MsgqTypes, Own, Inside
<1>8. CASE CheckTag(q)
  <2> DEFINE t == r[q].copy[1]
             a == ReaderAt("reset", r[q].id)
             b == [r[q] EXCEPT !.pc = "wrap", !.copy = << >>]
             c == [r[q] EXCEPT !.pc = "abort"]
             e == [r[q] EXCEPT !.pc = "skip", !.size = t.size, !.copy = << >>]
             f == [r[q] EXCEPT !.pc = "copy", !.size = t.size, !.copy = << >>]
  <2>1. t \in Cells
    BY <1>8, OwnFacts, ElementOfSeq DEF CheckTag, LocalOK
  <2>2. IsSize(t) => t.size \in Nat
    BY <2>1, CellKinds, SizesFit
  <2>3. << >> \in Seq(Cells)
    OBVIOUS
  <2>4. /\ {a, b, c} \subseteq ReaderRecs
        /\ \A x \in {a, b, c} : x.id = r[q].id /\ x.pc \in {"reset", "wrap", "abort"}
    <3>1. a \in ReaderRecs /\ a.id = r[q].id /\ a.pc = "reset"
      BY <1>0, ReaderAtFields DEF ReaderPcs
    <3>2. b \in ReaderRecs /\ b.id = r[q].id /\ b.pc = "wrap"
      BY <1>0, <2>3 DEF ReaderRecs, ReaderPcs
    <3>3. c \in ReaderRecs /\ c.id = r[q].id /\ c.pc = "abort"
      BY <1>0 DEF ReaderRecs, ReaderPcs
    <3> HIDE DEF a, b, c
    <3> QED BY <3>1, <3>2, <3>3
  <2>5. IsSize(t) => /\ e \in ReaderRecs /\ e.id = r[q].id /\ e.pc = "skip"
                     /\ f \in ReaderRecs /\ f.id = r[q].id /\ f.pc = "copy"
    BY <1>0, <2>2, <2>3 DEF ReaderRecs, ReaderPcs
  <2>6. \/ \E x \in {a, b, c} : r' = [r EXCEPT ![q] = x]
        \/ IsSize(t) /\ (r' = [r EXCEPT ![q] = e] \/ r' = [r EXCEPT ![q] = f])
    BY <1>8 DEF CheckTag, IsSize
  <2> HIDE DEF a, b, c, e, f, t
  <2>7. PICK x \in ReaderRecs : /\ r' = [r EXCEPT ![q] = x] /\ x.id = r[q].id
                                /\ x.pc \in {"reset", "wrap", "abort", "skip", "copy"}
    BY <2>4, <2>5, <2>6
  <2>8. /\ r' \in [Readers -> ReaderRecs] /\ r'[q] \in ReaderRecs
        /\ r'[q].pc \in {"reset", "wrap", "abort", "skip", "copy"} /\ r'[q].id = r[q].id
        /\ \A o \in Readers \ {q} : r'[o] = r[o]
    BY <1>0, <2>7, TurnFields
  <2>9. r[q].pc = "valid_tag" /\ UNCHANGED <<header, data, w, sent, got, conflate, deaths>>
    BY <1>8 DEF CheckTag
  <2> QED BY <1>0, <2>8, <2>9 DEF MsgqTypes, Own, Inside
<1>10. CASE StoreSkip(q)
  <2>1. Restart(q) /\ At(r[q].rp.cycles, NewReadPointer(q, r[q].size)) \in Pointers
    BY <1>10, NewPointerFits DEF StoreSkip
  <2> QED BY <1>0, <1>10, <2>1, RestartFields DEF StoreSkip, MsgqTypes, Own, Inside
<1>11. CASE CopyOut(q)
  <2> DEFINE i == Len(r[q].copy) + 1
             x == [r[q] EXCEPT !.copy = Append(r[q].copy, data[r[q].rp.ptr + i])]
  <2>1. r[q].rp.ptr + i \in Addr
    <3>1. r[q].pc = "copy" /\ i <= r[q].size
      BY <1>11 DEF CopyOut
    <3>2. /\ r[q].rp.ptr \in Nat /\ r[q].size \in Nat /\ Len(r[q].copy) \in Nat
          /\ r[q].rp.ptr + r[q].size + 1 < SIZE /\ SIZE \in Nat
      BY <3>1, NewPointerFits
    <3> DEFINE a == r[q].rp.ptr
               l == Len(r[q].copy)
    <3>3. a \in Nat /\ l \in Nat /\ a + l + 1 < SIZE
      BY <3>1, <3>2
    <3> HIDE DEF a, l
    <3>4. a + (l + 1) \in Addr
      BY <3>2, <3>3 DEF Addr
    <3> QED BY <3>4 DEF a, l
  <2>2. Append(r[q].copy, data[r[q].rp.ptr + i]) \in Seq(Cells)
    <3>1. data[r[q].rp.ptr + i] \in Cells
      BY <1>0, <2>1 DEF MsgqTypes
    <3> HIDE DEF i
    <3> QED BY <3>1, OwnFacts
  <2> HIDE DEF i
  <2>3. x \in ReaderRecs /\ x.pc = r[q].pc /\ x.id = r[q].id
    BY <1>0, <2>2 DEF ReaderRecs
  <2>4. r' = [r EXCEPT ![q] = x]
    BY <1>11 DEF CopyOut, i
  <2> HIDE DEF x
  <2>5. r[q].pc = "copy" /\ UNCHANGED <<header, data, w, sent, got, conflate, deaths>>
    BY <1>11 DEF CopyOut
  <2> QED BY <1>0, <2>3, <2>4, <2>5, TurnFields DEF MsgqTypes, Own, Inside
<1>12. CASE StoreReadPointer(q)
  <2> DEFINE x == [ReaderAt("valid_data", r[q].id) EXCEPT !.size = r[q].size, !.copy = r[q].copy]
  <2>1. At(r[q].rp.cycles, NewReadPointer(q, r[q].size)) \in Pointers
    BY <1>12, NewPointerFits DEF StoreReadPointer
  <2>2. x \in ReaderRecs /\ x.pc = "valid_data" /\ x.id = r[q].id
    <3> DEFINE y == ReaderAt("valid_data", r[q].id)
    <3>1. y \in ReaderRecs /\ y.pc = "valid_data" /\ y.id = r[q].id
      BY <1>0, ReaderAtFields DEF ReaderPcs
    <3> HIDE DEF y
    <3>2. LET z == [y EXCEPT !.size = r[q].size, !.copy = r[q].copy]
          IN  z \in ReaderRecs /\ z.pc = "valid_data" /\ z.id = r[q].id
      BY <1>0, <3>1 DEF ReaderRecs
    <3> QED BY <3>2 DEF y
  <2>3. r' = [r EXCEPT ![q] = x]
    BY <1>12 DEF StoreReadPointer
  <2>4. /\ r[q].pc = "copy"
        /\ read_pointers' = [read_pointers EXCEPT ![id(q)] =
                               At(r[q].rp.cycles, NewReadPointer(q, r[q].size))]
        /\ UNCHANGED <<num_readers, write_pointer, read_valids, read_uids,
                       data, w, sent, got, conflate, deaths>>
    BY <1>12 DEF StoreReadPointer
  <2> HIDE DEF x
  <2> QED BY <1>0, <2>1, <2>2, <2>3, <2>4, TurnFields DEF MsgqTypes, Own, Inside
<1>13. CASE CheckData(q)
  <2>1. "reset" \in ReaderPcs /\ "deliver" \in ReaderPcs
    BY DEF ReaderPcs
  <2>2. Goto(q, "deliver") \/ r' = [r EXCEPT ![q] = ReaderAt("reset", r[q].id)]
    BY <1>13 DEF CheckData
  <2>3. r[q].pc = "valid_data" /\ UNCHANGED <<header, data, w, sent, got, conflate, deaths>>
    BY <1>13 DEF CheckData
  <2>4. /\ r' \in [Readers -> ReaderRecs] /\ r'[q] \in ReaderRecs
        /\ r'[q].pc \in {"deliver", "reset"} /\ r'[q].id = r[q].id
        /\ \A o \in Readers \ {q} : r'[o] = r[o]
    <3>1. CASE Goto(q, "deliver")
      BY <1>0, <2>1, <3>1, GotoFields
    <3>2. CASE r' = [r EXCEPT ![q] = ReaderAt("reset", r[q].id)]
      BY <1>0, <2>1, <3>2, ReaderAtTurn
    <3> QED BY <2>2, <3>1, <3>2
  <2> QED BY <1>0, <2>3, <2>4 DEF MsgqTypes, Own, Inside
<1>14. CASE Deliver(q)
  <2>1. /\ "idle" \in ReaderPcs /\ r[q].pc = "deliver"
        /\ r' = [r EXCEPT ![q] = ReaderAt("idle", r[q].id)]
        /\ got' = [got EXCEPT ![q] = r[q].copy[1].msg]
        /\ UNCHANGED <<header, data, w, sent, conflate, deaths>>
    BY <1>14 DEF ReaderPcs, Deliver
  <2>2. r[q].copy[1].msg \in 0 .. MAX_SENT
    <3>1. r[q].copy[1].msg \in 1 .. Top /\ Top \in Nat /\ Top <= sent
      BY <2>1, OwnFacts DEF LocalOK, CopyOK
    <3>2. sent \in 0 .. MAX_SENT
      BY <1>0 DEF MsgqTypes
    <3> QED BY <3>1, <3>2, MsgqAssumption
  <2>3. /\ r' \in [Readers -> ReaderRecs] /\ r'[q] \in ReaderRecs
        /\ r'[q].pc = "idle" /\ r'[q].id = r[q].id
        /\ \A o \in Readers \ {q} : r'[o] = r[o]
    <3>1. "idle" \in ReaderPcs /\ r' = [r EXCEPT ![q] = ReaderAt("idle", r[q].id)]
      BY <2>1
    <3> QED BY <1>0, <3>1, ReaderAtTurn
  <2> QED BY <1>0, <2>1, <2>2, <2>3 DEF MsgqTypes, Own, Inside
<1> QED BY <1>1, <1>2, <1>3, <1>4, <1>5, <1>6, <1>7, <1>8, <1>9, <1>10, <1>11, <1>12, <1>13,
           <1>14 DEF InCallStep

-----------------------------------------------------------------------------
(* Who holds which slot.                                                   *)

\* The steps inside a call change nothing about the slots.
LEMMA InCallSlots ==
  ASSUME MsgqIInv, NEW q \in Readers, Own(q), Inside(q)
  PROVE  SlotInv' /\ Holds(q) /\ \A o \in Readers : Live(o)' => Calm /\ Holds(o)
<1>1. SlotInv
  BY DEF MsgqIInv
<1>2. InCall(q) /\ ~Evicting(q) /\ ~Claiming(q) /\ Holds(q)
  BY <1>1 DEF Inside, Unslotted, InCall, Evicting, Claiming, SlotInv, CallersHold
<1>3. \A o \in Readers : /\ id(o)' = id(o) /\ (Holds(o)' <=> Holds(o))
                         /\ (Evicting(o)' <=> Evicting(o)) /\ (Claiming(o)' <=> Claiming(o))
                         /\ (InCall(o)' => InCall(o))
  <2>1. id(q)' = id(q) /\ Holds(q)' /\ ~Evicting(q)' /\ ~Claiming(q)'
    BY <1>2 DEF Own, Inside, Unslotted, Evicting, Claiming, Holds, id
  <2>2. ASSUME NEW o \in Readers, o # q
        PROVE  /\ id(o)' = id(o) /\ (Holds(o)' <=> Holds(o))
               /\ (Evicting(o)' <=> Evicting(o)) /\ (Claiming(o)' <=> Claiming(o))
               /\ (InCall(o)' => InCall(o))
    BY <2>2 DEF Own, Evicting, Claiming, Holds, InCall, id
  <2> QED BY <1>2, <2>1, <2>2
<1>4. num_readers' = num_readers /\ w' = w
  BY DEF Own
<1>5. EvictionIsAlone' /\ StartIsAlone' /\ ClaimsAreApart'
  BY <1>1, <1>3, <1>4 DEF SlotInv, EvictionIsAlone, StartIsAlone, ClaimsAreApart
<1>6. CallersHold'
  <2> SUFFICES ASSUME NEW o \in Readers, InCall(o)', r'[o].pc \notin Unslotted PROVE Holds(o)'
    BY DEF CallersHold
  <2>1. CASE o = q
    BY <1>2, <1>3, <2>1
  <2>2. CASE o # q
    BY <1>1, <1>3, <2>2 DEF Own, SlotInv, CallersHold
  <2> QED BY <2>1, <2>2
<1>7. HolderIsCounted'
  BY <1>1, <1>3, <1>4 DEF SlotInv, HolderIsCounted
<1>8. \A o \in Readers : Live(o)' => Calm /\ Holds(o)
  BY <1>3 DEF Live, Calm
<1> QED BY <1>2, <1>5, <1>6, <1>7, <1>8 DEF SlotInv

\* A step of q outside a call that holds a slot leaves the others alone.
Spares(q) ==
  /\ r'[q] \in ReaderRecs /\ r'[q].pc \in Unslotted \cup {"reset"}
  /\ \A o \in Readers \ {q} : r'[o] = r[o]
  /\ \A o \in Readers \ {q} : Live(o)' =>
        Live(o) /\ read_pointers'[id(o)] = read_pointers[id(o)]
  /\ UNCHANGED <<write_pointer, data, w, sent, got, conflate>>

LEMMA OthersSame ==
  ASSUME NEW q, NEW o \in Readers \ {q}, r'[o] = r[o]
  PROVE  /\ id(o)' = id(o) /\ (Evicting(o)' <=> Evicting(o))
         /\ (Claiming(o)' <=> Claiming(o)) /\ (InCall(o)' <=> InCall(o))
         /\ read_uids' = read_uids => (Holds(o)' <=> Holds(o))
BY DEF id, Evicting, Claiming, InCall, Holds

\* A subscriber goes to a step of the registration without taking a slot, or dies.
LEMMA RegistrationSlots ==
  ASSUME MsgqIInv, NEW q \in Readers, r'[q].pc \in Unslotted,
         \A o \in Readers \ {q} : r'[o] = r[o],
         InCall(q)' => InCall(q) \/ (w.pc # "init" /\ \A o \in Readers \ {q} : ~Evicting(o)),
         Evicting(q)' => Evicting(q) /\ id(q)' = id(q),
         Claiming(q)' => Claiming(q) /\ id(q)' = id(q),
         Evicting(q) => Evicting(q)' \/ \A o \in Readers \ {q} : ~Holds(o),
         UNCHANGED <<num_readers, read_uids, w>>
  PROVE  SlotInv' /\ \A o \in Readers \ {q} : Live(o)' => Calm /\ Holds(o)
<1>1. SlotInv
  BY DEF MsgqIInv
<1>2. \A o \in Readers \ {q} : /\ id(o)' = id(o) /\ (Holds(o)' <=> Holds(o))
                               /\ (Evicting(o)' <=> Evicting(o))
                               /\ (Claiming(o)' <=> Claiming(o))
                               /\ (InCall(o)' <=> InCall(o))
  BY OthersSame
<1>3. ~Holds(q)'
  BY DEF Holds, Unslotted
<1>4. Evicting(q) => InCall(q)
  BY DEF Evicting, InCall
<1>5. EvictionIsAlone'
  BY <1>1, <1>2, <1>3, <1>4 DEF SlotInv, EvictionIsAlone
<1>6. StartIsAlone'
  BY <1>1, <1>2, <1>3 DEF SlotInv, StartIsAlone
<1>7. ClaimsAreApart'
  BY <1>1, <1>2, <1>3 DEF SlotInv, ClaimsAreApart
<1>8. CallersHold'
  BY <1>1, <1>2 DEF SlotInv, CallersHold
<1>9. HolderIsCounted'
  BY <1>1, <1>2, <1>3 DEF SlotInv, HolderIsCounted
<1>10. \A o \in Readers \ {q} : Live(o)' => Calm /\ Holds(o)
  BY <1>2 DEF Live, Calm
<1> QED BY <1>5, <1>6, <1>7, <1>8, <1>9, <1>10 DEF SlotInv

\* msgq_init_subscriber up to the eviction or the claim, the stores of a new
\* owner before its uid, and the start of the process.
QuietStep(q) ==
  \/ ReaderStarts(q) \/ LoadCount(q) \/ EvictValid(q) \/ NewValid(q) \/ NewPointer(q)

LEMMA QuietSlots ==
  ASSUME MsgqIInv, SETTLED, NEW q \in Readers, QuietStep(q)
  PROVE  MsgqTypes' /\ SlotInv' /\ Spares(q)
<1>0. MsgqTypes /\ SlotInv /\ r[q] \in ReaderRecs /\ r[q].id \in Slots /\ id(q) = r[q].id
  BY OwnFacts DEF MsgqIInv
<1>1. /\ r'[q].pc \in Unslotted
      /\ r' \in [Readers -> ReaderRecs] /\ r'[q] \in ReaderRecs
      /\ \A o \in Readers \ {q} : r'[o] = r[o]
      /\ InCall(q)' => InCall(q) \/ (w.pc # "init" /\ \A o \in Readers \ {q} : ~Evicting(o))
      /\ Evicting(q)' => Evicting(q) /\ id(q)' = id(q)
      /\ Claiming(q)' => Claiming(q) /\ id(q)' = id(q)
      /\ Evicting(q) => Evicting(q)'
  <2> USE DEF Unslotted, InCall, Evicting, Claiming, id
  <2>1. CASE ReaderStarts(q)
    <3>1. "register" \in ReaderPcs /\ Goto(q, "register") /\ r[q].pc = "down" /\ MayCall(q)
      BY <2>1 DEF ReaderPcs, ReaderStarts
    <3>2. r'[q].pc = "register" /\ r'[q] \in ReaderRecs /\ r' \in [Readers -> ReaderRecs]
          /\ \A o \in Readers \ {q} : r'[o] = r[o]
      BY <1>0, <3>1, GotoFields
    <3> QED BY <3>1, <3>2 DEF MayCall
  <2>2. CASE LoadCount(q)
    <3>1. \/ r' = [r EXCEPT ![q] = ReaderAt("evict", 0)]
          \/ num_readers \in Slots /\ r' = [r EXCEPT ![q] = ReaderAt("claim", num_readers)]
      <4>1. CASE num_readers + 1 > NUM_READERS
        BY <2>2, <4>1 DEF LoadCount
      <4>2. CASE ~(num_readers + 1 > NUM_READERS)
        <5>1. num_readers \in Slots
          BY <1>0, <4>2, MsgqAssumption DEF Slots, MsgqTypes
        <5>2. r' = [r EXCEPT ![q] = ReaderAt("claim", num_readers)]
          BY <2>2, <4>2 DEF LoadCount
        <5> QED BY <5>1, <5>2
      <4> QED BY <4>1, <4>2
    <3>2. "evict" \in ReaderPcs /\ "claim" \in ReaderPcs /\ 0 \in Slots /\ r[q].pc = "register"
      BY <2>2, MsgqAssumption DEF ReaderPcs, Slots, LoadCount
    <3>3. /\ r'[q].pc \in {"evict", "claim"} /\ r'[q] \in ReaderRecs
          /\ r' \in [Readers -> ReaderRecs] /\ \A o \in Readers \ {q} : r'[o] = r[o]
      <4>1. CASE r' = [r EXCEPT ![q] = ReaderAt("evict", 0)]
        BY <1>0, <3>2, <4>1, ReaderAtTurn
      <4>2. CASE num_readers \in Slots /\ r' = [r EXCEPT ![q] = ReaderAt("claim", num_readers)]
        BY <1>0, <3>2, <4>2, ReaderAtTurn
      <4> QED BY <3>1, <4>1, <4>2
    <3> QED BY <3>2, <3>3
  <2>3. CASE EvictValid(q)
    <3>1. "evict_uid" \in ReaderPcs /\ Goto(q, "evict_uid") /\ r[q].pc = "evict_valid"
      BY <2>3 DEF ReaderPcs, EvictValid
    <3> QED BY <1>0, <3>1, GotoFields
  <2>4. CASE NewValid(q)
    <3>1. "new_pointer" \in ReaderPcs /\ Goto(q, "new_pointer") /\ r[q].pc = "new_valid"
      BY <2>4 DEF ReaderPcs, NewValid
    <3> QED BY <1>0, <3>1, GotoFields
  <2>5. CASE NewPointer(q)
    <3>1. "new_uid" \in ReaderPcs /\ Goto(q, "new_uid") /\ r[q].pc = "new_pointer"
      BY <2>5 DEF ReaderPcs, NewPointer
    <3> QED BY <1>0, <3>1, GotoFields
  <2> QED BY <2>1, <2>2, <2>3, <2>4, <2>5 DEF QuietStep
<1>2. /\ UNCHANGED <<num_readers, write_pointer, read_uids, data, w, sent, got, conflate, deaths>>
      /\ read_pointers' = read_pointers \/ Claiming(q)
      /\ read_valids' = read_valids \/ Claiming(q) \/ Evicting(q)
      /\ read_valids' \in [Slots -> BOOLEAN] /\ read_pointers' \in [Slots -> Pointers]
      /\ \A i \in Slots \ {id(q)} : /\ read_pointers'[i] = read_pointers[i]
                                    /\ read_valids'[i] = read_valids[i]
  <2>1. At(0, 0) \in Pointers
    BY MsgqAssumption DEF At, Pointers
  <2> QED BY <1>0, <2>1 DEF QuietStep, ReaderStarts, LoadCount, EvictValid, NewValid, NewPointer,
                            header, Claiming, Evicting, MsgqTypes
<1>3. SlotInv' /\ \A o \in Readers \ {q} : Live(o)' => Calm /\ Holds(o)
  BY <1>1, <1>2, RegistrationSlots
<1>4. ASSUME NEW o \in Readers \ {q}, Live(o)'
      PROVE  Live(o) /\ read_pointers'[id(o)] = read_pointers[id(o)]
  <2>1. Calm /\ Holds(o) /\ id(o)' = id(o) /\ id(o) \in Slots /\ read_valids'[id(o)]
    BY <1>1, <1>3, <1>4, OwnFacts DEF Live, id
  <2>2. ~Evicting(q)
    BY <2>1 DEF Calm
  <2>3. Claiming(q) => id(o) # id(q)
    BY <1>0, <2>1 DEF SlotInv, ClaimsAreApart
  <2> QED BY <1>2, <2>1, <2>2, <2>3 DEF Live
<1>5. MsgqTypes'
  BY <1>0, <1>1, <1>2 DEF MsgqTypes
<1> QED BY <1>1, <1>2, <1>3, <1>4, <1>5 DEF Spares

\* A subscriber that finds no slot takes all of them away, alone.
LEMMA EvictAllSlots ==
  ASSUME MsgqIInv, SETTLED, NEW q \in Readers, EvictAll(q)
  PROVE  MsgqTypes' /\ SlotInv' /\ Spares(q)
<1>0. MsgqTypes /\ SlotInv /\ r[q].pc = "evict" /\ InCall(q)
  BY DEF MsgqIInv, EvictAll, InCall
<1>1. "evict_valid" \in ReaderPcs /\ 0 \in Slots
  BY MsgqAssumption DEF ReaderPcs, Slots
<1>2. /\ r' \in [Readers -> ReaderRecs] /\ r'[q] \in ReaderRecs
      /\ r'[q].pc = "evict_valid" /\ r'[q].id = 0 /\ \A o \in Readers \ {q} : r'[o] = r[o]
  BY <1>0, <1>1, ReaderAtTurn DEF EvictAll
<1>3. /\ num_readers' = 0 /\ \A o \in Readers \ {q} : ~InCall(o)
      /\ UNCHANGED <<write_pointer, read_pointers, read_valids, read_uids,
                     data, w, sent, got, conflate, deaths>>
  BY DEF EvictAll, Alone
<1>4. Evicting(q)' /\ ~Holds(q)' /\ ~Claiming(q)' /\ id(q)' = 0
  BY <1>2 DEF Evicting, Holds, Claiming, id
<1>5. \A o \in Readers \ {q} : /\ id(o)' = id(o) /\ id(o) >= 0 /\ ~InCall(o)'
                               /\ ~Evicting(o)' /\ ~Claiming(o)'
  <2> SUFFICES ASSUME NEW o \in Readers \ {q}
               PROVE  /\ id(o)' = id(o) /\ id(o) >= 0 /\ ~InCall(o)'
                      /\ ~Evicting(o)' /\ ~Claiming(o)'
    OBVIOUS
  <2>1. id(o)' = id(o) /\ ~InCall(o)'
    BY <1>2, <1>3, OthersSame
  <2>2. id(o) \in Nat
    BY <1>0, ReaderFields DEF id, MsgqTypes
  <2> QED BY <2>1, <2>2 DEF InCall, Evicting, Claiming
<1>6. w.pc # "init"
  BY <1>0 DEF SlotInv, StartIsAlone
<1>7. EvictionIsAlone' /\ StartIsAlone'
  BY <1>3, <1>4, <1>5, <1>6 DEF EvictionIsAlone, StartIsAlone
<1>8. ClaimsAreApart' /\ HolderIsCounted'
  BY <1>4, <1>5 DEF ClaimsAreApart, HolderIsCounted
<1>9. CallersHold'
  BY <1>2, <1>5 DEF CallersHold, Unslotted
<1>10. MsgqTypes'
  BY <1>0, <1>2, <1>3, MsgqAssumption DEF MsgqTypes
<1>11. Spares(q)
  BY <1>2, <1>3, <1>4 DEF Spares, Unslotted, Live, Calm
<1> QED BY <1>7, <1>8, <1>9, <1>10, <1>11 DEF SlotInv

\* It withdraws them one by one, until none is left.
LEMMA EvictUidSlots ==
  ASSUME MsgqIInv, SETTLED, NEW q \in Readers, EvictUid(q)
  PROVE  MsgqTypes' /\ SlotInv' /\ Spares(q)
<1>0. MsgqTypes /\ SlotInv /\ r[q].pc = "evict_uid" /\ InCall(q) /\ Evicting(q)
  BY DEF MsgqIInv, EvictUid, InCall, Evicting
<1>1. id(q) \in Slots /\ id(q) = r[q].id /\ 0 \in Slots
  BY OwnFacts, MsgqAssumption DEF Slots
<1>2. /\ r' \in [Readers -> ReaderRecs] /\ r'[q] \in ReaderRecs
      /\ \A o \in Readers \ {q} : r'[o] = r[o]
      /\ \/ r'[q].pc = "evict_valid" /\ r'[q].id = id(q) + 1
         \/ r'[q].pc = "register" /\ id(q) = NUM_READERS - 1
  <2>1. CASE id(q) + 1 < NUM_READERS
    <3>1. r' = [r EXCEPT ![q] = ReaderAt("evict_valid", id(q) + 1)]
      BY <2>1 DEF EvictUid
    <3>2. "evict_valid" \in ReaderPcs /\ id(q) + 1 \in Slots
      BY <1>1, <2>1, MsgqAssumption DEF ReaderPcs, Slots
    <3> QED BY <1>0, <3>1, <3>2, ReaderAtTurn
  <2>2. CASE ~(id(q) + 1 < NUM_READERS)
    <3>1. r' = [r EXCEPT ![q] = ReaderAt("register", 0)]
      BY <2>2 DEF EvictUid
    <3>2. "register" \in ReaderPcs /\ id(q) = NUM_READERS - 1
      BY <1>1, <2>2, MsgqAssumption DEF ReaderPcs, Slots
    <3> QED BY <1>0, <1>1, <3>1, <3>2, ReaderAtTurn
  <2> QED BY <2>1, <2>2
<1>3. /\ read_uids' = [read_uids EXCEPT ![id(q)] = NoUid]
      /\ UNCHANGED <<num_readers, write_pointer, read_pointers, read_valids,
                     data, w, sent, got, conflate, deaths>>
  BY DEF EvictUid
<1>4. ~Holds(q)' /\ ~Claiming(q)'
  BY <1>2 DEF Holds, Claiming
<1>5. ASSUME NEW o \in Readers \ {q}
      PROVE  /\ id(o)' = id(o) /\ id(o) \in Slots /\ ~InCall(o) /\ ~InCall(o)'
             /\ ~Evicting(o)' /\ ~Claiming(o)'
             /\ Holds(o)' => id(o) >= id(q) + 1
  <2>1. ~InCall(o) /\ (Holds(o) => id(o) >= id(q)) /\ id(o)' = id(o) /\ ~InCall(o)'
    BY <1>0, <1>2, OthersSame DEF SlotInv, EvictionIsAlone
  <2>2. id(o) \in Slots
    BY OwnFacts
  <2>3. Holds(o)' => Holds(o) /\ id(o) # id(q)
    BY <1>0, <1>1, <1>2, <1>3, <2>2, MsgqAssumption DEF Holds, id, MsgqTypes
  <2>4. Holds(o)' => id(o) >= id(q) + 1
    BY <1>1, <2>1, <2>2, <2>3, MsgqAssumption DEF Slots
  <2> QED BY <2>1, <2>2, <2>4 DEF InCall, Evicting, Claiming
<1>6. num_readers = 0 /\ w.pc # "init"
  BY <1>0 DEF SlotInv, EvictionIsAlone
<1>7. Evicting(q)' => id(q)' = id(q) + 1
  BY <1>2 DEF Evicting, id
<1>8. EvictionIsAlone' /\ StartIsAlone'
  BY <1>3, <1>4, <1>5, <1>6, <1>7 DEF EvictionIsAlone, StartIsAlone
<1>9. ~Evicting(q)' => \A o \in Readers : ~Holds(o)'
  <2> SUFFICES ASSUME ~Evicting(q)', NEW o \in Readers \ {q} PROVE ~Holds(o)'
    BY <1>4
  <2>1. id(q) = NUM_READERS - 1
    BY <1>2 DEF Evicting
  <2> QED BY <1>5, <2>1, MsgqAssumption DEF Slots
<1>10. ClaimsAreApart' /\ HolderIsCounted'
  BY <1>4, <1>5, <1>9 DEF ClaimsAreApart, HolderIsCounted
<1>11. CallersHold'
  BY <1>2, <1>5 DEF CallersHold, Unslotted
<1>12. MsgqTypes'
  BY <1>0, <1>2, <1>3 DEF MsgqTypes
<1>13. Spares(q)
  BY <1>2, <1>3, <1>9 DEF Spares, Unslotted, Live, Calm
<1> QED BY <1>8, <1>10, <1>11, <1>12, <1>13 DEF SlotInv

\* The compare-and-exchange gives the first slot that is not counted.
LEMMA ClaimSlots ==
  ASSUME MsgqIInv, SETTLED, NEW q \in Readers, Claim(q)
  PROVE  MsgqTypes' /\ SlotInv' /\ Spares(q)
<1>0. MsgqTypes /\ SlotInv /\ r[q].pc = "claim" /\ InCall(q) /\ ~Claiming(q) /\ ~Evicting(q)
  BY DEF MsgqIInv, Claim, InCall, Claiming, Evicting
<1>1. id(q) \in Slots /\ id(q) = r[q].id /\ "register" \in ReaderPcs /\ "new_valid" \in ReaderPcs
  BY OwnFacts DEF ReaderPcs
<1>2. UNCHANGED <<write_pointer, read_pointers, read_valids, read_uids,
                  data, w, sent, got, conflate, deaths>>
  BY DEF Claim
<1>3. /\ r' \in [Readers -> ReaderRecs] /\ r'[q] \in ReaderRecs /\ r'[q].id = r[q].id
      /\ \A o \in Readers \ {q} : r'[o] = r[o]
      /\ \/ r'[q].pc = "register" /\ num_readers' = num_readers
         \/ r'[q].pc = "new_valid" /\ num_readers = id(q) /\ num_readers' = num_readers + 1
            /\ Free(q, id(q))
  BY <1>0, <1>1, GotoFields DEF Claim
<1>4. \A o \in Readers \ {q} : ~Evicting(o) /\ w.pc # "init"
  BY <1>0 DEF SlotInv, EvictionIsAlone, StartIsAlone
<1>5. ~Holds(q)' /\ ~Evicting(q)'
  BY <1>3 DEF Holds, Evicting
<1>6. \A o \in Readers \ {q} : /\ id(o)' = id(o) /\ (Holds(o)' <=> Holds(o))
                               /\ (Evicting(o)' <=> Evicting(o))
                               /\ (Claiming(o)' <=> Claiming(o))
                               /\ (InCall(o)' <=> InCall(o))
  BY <1>2, <1>3, OthersSame
<1>7. num_readers \in Nat /\ num_readers' \in 0 .. NUM_READERS
      /\ num_readers' >= num_readers
  BY <1>0, <1>1, <1>3, MsgqAssumption DEF MsgqTypes, Slots
<1>8. EvictionIsAlone'
  BY <1>4, <1>5, <1>6 DEF EvictionIsAlone
<1>9. StartIsAlone'
  BY <1>0, <1>2 DEF SlotInv, StartIsAlone
<1>10. CallersHold'
  BY <1>0, <1>3, <1>6 DEF SlotInv, CallersHold, Unslotted
<1>11. HolderIsCounted'
  <2> SUFFICES ASSUME w.pc \notin {"down", "init"}, NEW o \in Readers \ {q}, Holds(o)
               PROVE  id(o) < num_readers'
    BY <1>2, <1>5, <1>6 DEF HolderIsCounted
  <2>1. id(o) < num_readers /\ id(o) \in Nat
    BY <1>0, <1>4, ReaderFields DEF SlotInv, HolderIsCounted, MsgqTypes, id
  <2> QED BY <1>7, <2>1
<1>12. ClaimsAreApart'
  <2>1. ASSUME NEW o \in Readers \ {q}, Claiming(o) PROVE id(o) < num_readers /\ id(o) \in Nat
    BY <1>0, <2>1, ReaderFields DEF SlotInv, ClaimsAreApart, MsgqTypes, id
  <2>2. id(q)' = id(q) /\ id(q) \in Nat
    BY <1>1, <1>3, MsgqAssumption DEF id, Slots
  <2>3. Claiming(q)' => /\ num_readers = id(q) /\ num_readers' = num_readers + 1
                        /\ \A o \in Readers \ {q} : Holds(o) => id(o) # id(q)
    BY <1>3 DEF Claiming, Free, id
  <2>4. ASSUME Claiming(q)'
        PROVE  /\ id(q)' < num_readers'
               /\ \A o \in Readers \ {q} : Holds(o)' \/ Claiming(o)' => id(o)' # id(q)'
    BY <1>6, <1>7, <2>1, <2>2, <2>3, <2>4
  <2>5. ASSUME NEW c \in Readers \ {q}, Claiming(c)'
        PROVE  /\ id(c)' < num_readers'
               /\ \A o \in Readers \ {c} : Holds(o)' \/ Claiming(o)' => id(o)' # id(c)'
    <3>1. Claiming(c) /\ id(c) < num_readers /\ id(c)' = id(c) /\ id(c) \in Nat
      BY <1>6, <2>1, <2>5
    <3>2. id(c)' < num_readers'
      BY <1>7, <3>1
    <3>3. \A o \in Readers \ {c, q} : Holds(o)' \/ Claiming(o)' => id(o)' # id(c)'
      BY <1>0, <1>6, <3>1 DEF SlotInv, ClaimsAreApart
    <3>4. Holds(q)' \/ Claiming(q)' => id(q)' # id(c)'
      BY <1>5, <2>2, <2>3, <3>1
    <3> QED BY <3>2, <3>3, <3>4
  <2> QED BY <2>4, <2>5 DEF ClaimsAreApart
<1>13. MsgqTypes'
  BY <1>0, <1>2, <1>3, <1>7 DEF MsgqTypes
<1>14. Spares(q)
  <2>1. Calm
    BY <1>0, <1>4 DEF Calm
  <2>2. \A o \in Readers \ {q} : Live(o)' => Live(o)
    BY <1>2, <1>6, <2>1 DEF Live
  <2> QED BY <1>2, <1>3, <2>2 DEF Spares, Unslotted
<1> QED BY <1>8, <1>9, <1>10, <1>11, <1>12, <1>13, <1>14 DEF SlotInv

\* The new owner stores its uid.
LEMMA NewUidSlots ==
  ASSUME MsgqIInv, SETTLED, NEW q \in Readers, NewUid(q)
  PROVE  MsgqTypes' /\ SlotInv' /\ Spares(q)
<1>0. MsgqTypes /\ SlotInv /\ r[q].pc = "new_uid" /\ InCall(q) /\ Claiming(q) /\ ~Evicting(q)
  BY DEF MsgqIInv, NewUid, InCall, Claiming, Evicting
<1>1. id(q) \in Slots /\ id(q) = r[q].id /\ "reset" \in ReaderPcs
  BY OwnFacts DEF ReaderPcs
<1>2. /\ read_uids' = [read_uids EXCEPT ![id(q)] = q]
      /\ UNCHANGED <<num_readers, write_pointer, read_pointers, read_valids,
                     data, w, sent, got, conflate, deaths>>
  BY DEF NewUid
<1>3. /\ r' \in [Readers -> ReaderRecs] /\ r'[q] \in ReaderRecs /\ r'[q].pc = "reset"
      /\ r'[q].id = r[q].id /\ \A o \in Readers \ {q} : r'[o] = r[o]
  BY <1>0, <1>1, GotoFields DEF NewUid
<1>4. Calm /\ w.pc # "init"
  BY <1>0 DEF SlotInv, EvictionIsAlone, StartIsAlone, Calm
<1>5. id(q)' = id(q) /\ Holds(q)' /\ ~Evicting(q)' /\ ~Claiming(q)'
  BY <1>0, <1>1, <1>2, <1>3 DEF Holds, Evicting, Claiming, id, MsgqTypes
<1>6. ASSUME NEW o \in Readers \ {q}
      PROVE  /\ id(o)' = id(o) /\ (Holds(o)' <=> Holds(o))
             /\ (Evicting(o)' <=> Evicting(o)) /\ (Claiming(o)' <=> Claiming(o))
             /\ (InCall(o)' <=> InCall(o)) /\ (Holds(o) \/ Claiming(o) => id(o) # id(q))
  <2>1. Holds(o) \/ Claiming(o) => id(o) # id(q)
    BY <1>0 DEF SlotInv, ClaimsAreApart
  <2>2. id(o) \in Slots
    BY OwnFacts
  <2>3. Holds(o)' <=> Holds(o)
    BY <1>0, <1>1, <1>2, <1>3, <2>1, <2>2 DEF Holds, id, MsgqTypes
  <2> QED BY <1>3, <2>1, <2>3, OthersSame
<1>7. id(q) < num_readers
  BY <1>0 DEF SlotInv, ClaimsAreApart
<1>8. EvictionIsAlone' /\ StartIsAlone'
  BY <1>2, <1>4, <1>5, <1>6 DEF Calm, EvictionIsAlone, StartIsAlone
<1>9. ClaimsAreApart'
  BY <1>0, <1>2, <1>5, <1>6 DEF SlotInv, ClaimsAreApart
<1>10. CallersHold'
  BY <1>0, <1>3, <1>5, <1>6 DEF SlotInv, CallersHold
<1>11. HolderIsCounted'
  BY <1>0, <1>2, <1>4, <1>5, <1>6, <1>7 DEF SlotInv, HolderIsCounted, Calm
<1>12. MsgqTypes'
  BY <1>0, <1>1, <1>2, <1>3 DEF MsgqTypes
<1>13. Spares(q)
  BY <1>2, <1>3, <1>4, <1>6 DEF Spares, Live
<1> QED BY <1>8, <1>9, <1>10, <1>11, <1>12, <1>13 DEF SlotInv

\* A subscriber dies; one that withdraws the slots leaves no holder behind.
LEMMA ReaderDiesSlots ==
  ASSUME MsgqIInv, SETTLED, NEW q \in Readers, ReaderDies(q)
  PROVE  MsgqTypes' /\ SlotInv' /\ Spares(q)
<1>0. MsgqTypes /\ SlotInv /\ "down" \in ReaderPcs /\ 0 \in Slots
  BY MsgqAssumption DEF MsgqIInv, ReaderPcs, Slots
<1>1. /\ r' \in [Readers -> ReaderRecs] /\ r'[q] \in ReaderRecs /\ r'[q].pc = "down"
      /\ \A o \in Readers \ {q} : r'[o] = r[o]
  BY <1>0, ReaderAtTurn DEF ReaderDies
<1>2. /\ UNCHANGED <<num_readers, write_pointer, read_pointers, read_valids, read_uids,
                     data, w, sent, got, conflate>>
      /\ deaths < MAX_DEATHS /\ deaths' = deaths + 1
  BY DEF ReaderDies, header
<1>3. Evicting(q) => \A o \in Readers \ {q} : ~Holds(o)
  BY OwnFacts DEF ReaderDies, Free, id
<1>4. ~InCall(q)' /\ ~Evicting(q)' /\ ~Claiming(q)' /\ r'[q].pc \in Unslotted
  BY <1>1 DEF InCall, Evicting, Claiming, Unslotted
<1>5. SlotInv' /\ \A o \in Readers \ {q} : Live(o)' => Calm /\ Holds(o)
  BY <1>1, <1>2, <1>3, <1>4, RegistrationSlots
<1>6. \A o \in Readers \ {q} : Live(o)' => Live(o)
  BY <1>1, <1>2, <1>5 DEF Live, id
<1>7. deaths' \in 0 .. MAX_DEATHS
  BY <1>0, <1>2, MsgqAssumption DEF MsgqTypes
<1>8. MsgqTypes'
  BY <1>0, <1>1, <1>2, <1>7 DEF MsgqTypes
<1> QED BY <1>1, <1>2, <1>4, <1>5, <1>6, <1>8 DEF Spares

\* An evicted subscriber registers again.
LEMMA EvictedSlots ==
  ASSUME MsgqIInv, SETTLED, NEW q \in Readers, CheckUid(q), read_uids[id(q)] # q
  PROVE  MsgqTypes' /\ SlotInv' /\ Spares(q)
<1>0. MsgqTypes /\ "register" \in ReaderPcs /\ Goto(q, "register")
  BY DEF MsgqIInv, ReaderPcs, CheckUid
<1>1. /\ r' \in [Readers -> ReaderRecs] /\ r'[q] \in ReaderRecs /\ r'[q].pc = "register"
      /\ \A o \in Readers \ {q} : r'[o] = r[o]
  BY <1>0, GotoFields
<1>2. UNCHANGED <<num_readers, write_pointer, read_pointers, read_valids, read_uids,
                  data, w, sent, got, conflate, deaths>>
  BY DEF CheckUid, header
<1>3. InCall(q) \/ (w.pc # "init" /\ \A o \in Readers \ {q} : ~Evicting(o))
  BY DEF CheckUid, MayCall, InCall
<1>4. ~Evicting(q) /\ ~Evicting(q)' /\ ~Claiming(q)' /\ r'[q].pc \in Unslotted
  BY <1>1 DEF CheckUid, Evicting, Claiming, Unslotted
<1>5. SlotInv' /\ \A o \in Readers \ {q} : Live(o)' => Calm /\ Holds(o)
  BY <1>1, <1>2, <1>3, <1>4, RegistrationSlots
<1>6. \A o \in Readers \ {q} : Live(o)' => Live(o)
  BY <1>1, <1>2, <1>5 DEF Live, id
<1>7. MsgqTypes'
  BY <1>0, <1>1, <1>2 DEF MsgqTypes
<1> QED BY <1>1, <1>2, <1>4, <1>5, <1>6, <1>7 DEF Spares

\* A subscriber that finds its uid in its slot is in the call.
LEMMA FoundSlots ==
  ASSUME MsgqIInv, SETTLED, NEW q \in Readers, CheckUid(q), read_uids[id(q)] = q
  PROVE  /\ MsgqTypes' /\ SlotInv' /\ Own(q)
         /\ r'[q] = [r[q] EXCEPT !.pc = "valid"]
         /\ \A o \in Readers : Live(o)' => Live(o)
<1>0. MsgqTypes /\ SlotInv /\ "valid" \in ReaderPcs /\ Goto(q, "valid")
  BY DEF MsgqIInv, ReaderPcs, CheckUid
<1>1. /\ r' \in [Readers -> ReaderRecs] /\ r'[q] \in ReaderRecs /\ r'[q].pc = "valid"
      /\ r'[q].id = r[q].id /\ r'[q] = [r[q] EXCEPT !.pc = "valid"]
      /\ \A o \in Readers \ {q} : r'[o] = r[o]
  BY <1>0, GotoFields
<1>2. UNCHANGED <<num_readers, write_pointer, read_pointers, read_valids, read_uids,
                  data, w, sent, got, conflate, deaths>>
  BY DEF CheckUid, header
<1>3. MsgqTypes' /\ Own(q)
  BY <1>0, <1>1, <1>2 DEF MsgqTypes, Own
<1>4. /\ Holds(q) /\ Holds(q)' /\ id(q)' = id(q) /\ ~Evicting(q) /\ ~Evicting(q)'
      /\ ~Claiming(q) /\ ~Claiming(q)'
  BY <1>1, <1>2 DEF CheckUid, Holds, Evicting, Claiming, id
<1>5. w.pc # "init" /\ \A o \in Readers \ {q} : ~Evicting(o)
  BY <1>0 DEF CheckUid, MayCall, InCall, SlotInv, EvictionIsAlone, StartIsAlone
<1>6. \A o \in Readers \ {q} : /\ id(o)' = id(o) /\ (Holds(o)' <=> Holds(o))
                               /\ (Evicting(o)' <=> Evicting(o))
                               /\ (Claiming(o)' <=> Claiming(o))
                               /\ (InCall(o)' <=> InCall(o))
  BY <1>1, <1>2, OthersSame
<1>7. EvictionIsAlone' /\ StartIsAlone'
  BY <1>2, <1>4, <1>5, <1>6 DEF EvictionIsAlone, StartIsAlone
<1>8. ClaimsAreApart'
  BY <1>0, <1>2, <1>4, <1>6 DEF SlotInv, ClaimsAreApart
<1>9. CallersHold'
  BY <1>0, <1>1, <1>4, <1>6 DEF SlotInv, CallersHold
<1>10. HolderIsCounted'
  BY <1>0, <1>2, <1>4, <1>6 DEF SlotInv, HolderIsCounted
<1>11. \A o \in Readers : Live(o)' => Live(o)
  BY <1>2, <1>4, <1>6 DEF Live, Calm
<1> QED BY <1>1, <1>3, <1>7, <1>8, <1>9, <1>10, <1>11 DEF SlotInv

\* The publisher touches a slot only to withdraw it or to clear its flag.
WriterMoves == Writer \/ (\E s \in Sizes : msgq_msg_send(s)) \/ WriterDies

LEMMA WriterSlots ==
  ASSUME MsgqIInv, SETTLED, WriterMoves
  PROVE  SlotInv' /\ (\A o \in Readers : Live(o)' => Live(o))
         /\ UNCHANGED <<r, read_pointers, got, conflate>>
<1>0. MsgqTypes /\ SlotInv /\ WriterInv
  BY DEF MsgqIInv
<1>1. CASE msgq_init_publisher
  <2>1. /\ w'.pc = "init" /\ w'.i = 0 /\ num_readers' = 0 /\ \A q \in Readers : ~InCall(q)
        /\ UNCHANGED <<r, read_uids, read_valids, read_pointers, got, conflate>>
    BY <1>1, WriterAtFields DEF msgq_init_publisher
  <2>2. \A o \in Readers : /\ ~InCall(o)' /\ ~Evicting(o) /\ ~Evicting(o)' /\ ~Claiming(o)'
                           /\ id(o)' \in Nat /\ (Holds(o)' <=> Holds(o))
    BY <1>0, <2>1, ReaderFields DEF InCall, Evicting, Claiming, id, Holds, MsgqTypes
  <2>3. EvictionIsAlone' /\ StartIsAlone' /\ ClaimsAreApart' /\ CallersHold' /\ HolderIsCounted'
    BY <2>1, <2>2 DEF EvictionIsAlone, StartIsAlone, ClaimsAreApart, CallersHold, HolderIsCounted
  <2>4. \A o \in Readers : Live(o)' => Live(o)
    BY <2>1, <2>2 DEF Live, Calm, id
  <2> QED BY <2>1, <2>3, <2>4 DEF SlotInv
<1>2. CASE InitSlot
  <2>1. /\ w.pc = "init" /\ w.i \in Slots /\ num_readers = 0
        /\ \A o \in Readers : ~InCall(o) /\ (Holds(o) => id(o) >= w.i)
        /\ UNCHANGED <<r, num_readers, read_pointers, got, conflate>>
    BY <1>0, <1>2 DEF InitSlot, WriterInv, WriterOK, SlotInv, StartIsAlone
  <2>2. \A o \in Readers : /\ ~InCall(o)' /\ ~Evicting(o) /\ ~Evicting(o)' /\ ~Claiming(o)'
                           /\ id(o)' = id(o) /\ id(o) \in Slots
    BY <1>0, <2>1, ReaderFields DEF InCall, Evicting, Claiming, id, MsgqTypes
  <2>3. EvictionIsAlone' /\ ClaimsAreApart' /\ CallersHold'
    BY <2>2 DEF EvictionIsAlone, ClaimsAreApart, CallersHold
  <2>4. CASE ~w.hit
    <3>1. /\ w'.pc = "init" /\ w'.i = w.i /\ read_uids' = read_uids
          /\ read_valids' = [read_valids EXCEPT ![w.i] = FALSE]
      BY <1>0, <1>2, <2>4 DEF InitSlot, MsgqTypes, WriterRecs
    <3>2. \A o \in Readers : Holds(o)' <=> Holds(o)
      BY <2>1, <3>1 DEF Holds
    <3>3. StartIsAlone' /\ HolderIsCounted'
      BY <2>1, <2>2, <3>1, <3>2 DEF StartIsAlone, HolderIsCounted
    <3>4. \A i \in Slots : read_valids'[i] => read_valids[i]
      BY <1>0, <2>1, <3>1 DEF MsgqTypes
    <3>5. \A o \in Readers : Live(o)' => Live(o)
      BY <2>2, <3>2, <3>4 DEF Live, Calm
    <3> QED BY <2>1, <2>3, <3>3, <3>5 DEF SlotInv
  <2>5. CASE w.hit
    <3>1. read_uids' = [read_uids EXCEPT ![w.i] = NoUid] /\ read_valids' = read_valids
      BY <1>2, <2>5 DEF InitSlot
    <3>2. \A o \in Readers : Holds(o)' => Holds(o) /\ id(o) # w.i
      BY <1>0, <2>1, <2>2, <3>1, MsgqAssumption DEF Holds, id, MsgqTypes
    <3>3. \A o \in Readers : Holds(o)' => id(o) >= w.i + 1
      BY <2>1, <2>2, <3>2, MsgqAssumption DEF Slots
    <3>4. CASE w.i + 1 < NUM_READERS
      <4>1. w'.pc = "init" /\ w'.i = w.i + 1
        BY <1>0, <1>2, <2>5, <3>4 DEF InitSlot, MsgqTypes, WriterRecs
      <4>2. StartIsAlone' /\ HolderIsCounted'
        BY <2>1, <2>2, <3>3, <4>1 DEF StartIsAlone, HolderIsCounted
      <4>3. \A o \in Readers : Live(o)' => Live(o)
        BY <2>2, <3>1, <3>2 DEF Live, Calm
      <4> QED BY <2>1, <2>3, <4>2, <4>3 DEF SlotInv
    <3>5. CASE ~(w.i + 1 < NUM_READERS)
      <4>1. w'.pc = "idle"
        BY <1>2, <2>5, <3>5, WriterAtFields DEF InitSlot
      <4>2. \A o \in Readers : ~Holds(o)'
        BY <2>1, <2>2, <3>3, <3>5, MsgqAssumption DEF Slots
      <4>3. StartIsAlone' /\ HolderIsCounted'
        BY <4>1, <4>2 DEF StartIsAlone, HolderIsCounted
      <4> QED BY <2>1, <2>3, <4>2, <4>3 DEF SlotInv, Live
    <3> QED BY <3>4, <3>5
  <2> QED BY <2>4, <2>5
<1>3. CASE ~msgq_init_publisher /\ ~InitSlot
  <2>1. /\ w'.pc # "init"
        /\ w'.pc \notin {"down", "init"} => w.pc \notin {"down", "init"}
        /\ UNCHANGED <<r, num_readers, read_uids, read_pointers, got, conflate>>
        /\ \A i \in Slots : read_valids'[i] => read_valids[i]
    <3>1. CASE \E s \in Sizes : msgq_msg_send(s)
      BY <3>1 DEF msgq_msg_send, WriterAt, header
    <3>2. CASE WriterDies
      BY <3>2, WriterAtFields DEF WriterDies, header
    <3>3. CASE WrapTag \/ SizeTag \/ CopyIn \/ WrapAround
      BY <1>0, <3>3 DEF WrapTag, SizeTag, CopyIn, WrapAround, header, MsgqTypes, WriterRecs
    <3>4. CASE Inspect
      BY <1>0, <3>4 DEF Inspect, header, MsgqTypes, WriterRecs
    <3>5. CASE Invalidate
      BY <1>0, <3>5 DEF Invalidate, MsgqTypes, WriterRecs
    <3>6. CASE Publish
      BY <3>6, WriterAtFields DEF Publish
    <3> QED BY <1>3, <3>1, <3>2, <3>3, <3>4, <3>5, <3>6 DEF WriterMoves, Writer
  <2>2. \A o \in Readers : /\ id(o)' = id(o) /\ id(o) \in Slots /\ (Holds(o)' <=> Holds(o))
                           /\ (Evicting(o)' <=> Evicting(o)) /\ (Claiming(o)' <=> Claiming(o))
                           /\ (InCall(o)' <=> InCall(o))
    BY <1>0, <2>1, ReaderFields DEF InCall, Evicting, Claiming, Holds, id, MsgqTypes
  <2>3. EvictionIsAlone' /\ StartIsAlone' /\ ClaimsAreApart'
    BY <1>0, <2>1, <2>2 DEF SlotInv, EvictionIsAlone, StartIsAlone, ClaimsAreApart
  <2>4. CallersHold' /\ HolderIsCounted'
    BY <1>0, <2>1, <2>2 DEF SlotInv, CallersHold, HolderIsCounted
  <2>5. \A o \in Readers : Live(o)' => Live(o)
    BY <2>1, <2>2 DEF Live, Calm
  <2> QED BY <2>1, <2>3, <2>4, <2>5 DEF SlotInv
<1> QED BY <1>1, <1>2, <1>3

-----------------------------------------------------------------------------
(* The steps of the publisher, one by one.                                 *)

\* What a step of the publisher keeps of the segment, of its own place and of
\* the subscribers.
WriterKeeps ==
  /\ SegmentInv' /\ WriterInv' /\ Top' \in Nat /\ Top <= Top'
  /\ \A o \in Readers : Live(o) /\ Live(o)' =>
       ReaderOK(data', write_pointer', w', Top', r[o], read_pointers[id(o)], got[o])

LEMMA WriterFacts ==
  ASSUME MsgqIInv
  PROVE  /\ write_pointer \in Pointers /\ write_pointer.ptr \in Addr
         /\ write_pointer.ptr \in Nat /\ write_pointer.cycles \in Nat
         /\ data \in [Addr -> Cells] /\ w \in WriterRecs
         /\ w.size \in Nat /\ w.n \in Nat /\ w.i \in Nat /\ w.hit \in BOOLEAN
         /\ sent \in Nat /\ Top \in Nat /\ Top <= sent
         /\ SegmentOK(data, write_pointer.ptr, Top)
         /\ WriterOK(data, write_pointer.ptr, w, sent)
         /\ SIZE \in Nat
<1>1. write_pointer \in Pointers /\ data \in [Addr -> Cells] /\ w \in WriterRecs
  BY DEF MsgqIInv, MsgqTypes
<1>2. write_pointer.ptr \in Addr /\ write_pointer.ptr \in Nat /\ write_pointer.cycles \in Nat
  BY <1>1 DEF Pointers, Addr
<1>3. w.size \in Nat /\ w.n \in Nat /\ w.i \in Nat /\ w.hit \in BOOLEAN
  BY <1>1, WriterFields
<1>4. sent \in Nat
  BY MsgqAssumption DEF MsgqIInv, MsgqTypes
<1>5. SegmentOK(data, write_pointer.ptr, Top) /\ WriterOK(data, write_pointer.ptr, w, sent)
  BY DEF MsgqIInv, SegmentInv, WriterInv
<1>6. Top \in Nat /\ Top <= sent
  BY <1>4, <1>5 DEF Top, Pub, WriterOK
<1> QED BY <1>1, <1>2, <1>3, <1>4, <1>5, <1>6, MsgqAssumption

LEMMA LiveFacts ==
  ASSUME MsgqIInv, NEW o \in Readers, Live(o)
  PROVE  /\ r[o] \in ReaderRecs /\ r[o].id \in Slots /\ r[o].id \in Nat /\ id(o) = r[o].id
         /\ read_pointers[id(o)] \in Pointers /\ read_pointers[id(o)].ptr \in Nat
         /\ read_pointers[id(o)].cycles \in Nat
         /\ Pos(r[o], read_pointers[id(o)]) \in Pointers
         /\ Pos(r[o], read_pointers[id(o)]).ptr \in Nat
         /\ Pos(r[o], read_pointers[id(o)]).cycles \in Nat
         /\ got[o] \in Nat /\ LocalOK(r[o], Top, got[o]) /\ Calm /\ Holds(o)
         /\ ReaderOK(data, write_pointer, w, Top, r[o], read_pointers[id(o)], got[o])
<1>1. r[o] \in ReaderRecs /\ r[o].id \in Slots /\ id(o) = r[o].id /\ got[o] \in Nat
      /\ LocalOK(r[o], Top, got[o]) /\ r[o].wp \in Pointers
  BY OwnFacts
<1>2. read_pointers[id(o)] \in Pointers
  BY <1>1 DEF MsgqIInv, MsgqTypes
<1>3. Pos(r[o], read_pointers[id(o)]) \in Pointers
  BY <1>1, <1>2 DEF Pos
<1>4. \A c \in Pointers : c.ptr \in Nat /\ c.cycles \in Nat
  BY DEF Pointers
<1>5. ReaderOK(data, write_pointer, w, Top, r[o], read_pointers[id(o)], got[o]) /\ Calm /\ Holds(o)
  BY DEF MsgqIInv, ReaderInv, Live
<1>6. r[o].id \in Nat
  BY <1>1, ReaderFields
<1> QED BY <1>1, <1>2, <1>3, <1>4, <1>5, <1>6

\* The publisher starts, withdraws a slot or dies: it writes nothing.
LEMMA StopKeeps ==
  ASSUME MsgqIInv, w'.pc \notin Sending, w'.pc = "init" => w'.i \in Slots,
         UNCHANGED <<data, write_pointer, sent>>
  PROVE  WriterKeeps
<1>1. Top' = sent /\ Top' \in Nat /\ Top <= Top'
  BY WriterFacts DEF Top, Pub
<1>2. SegmentInv'
  BY <1>1, WriterFacts, LaterTopSegment DEF SegmentInv
<1>3. WriterInv'
  BY DEF WriterInv, WriterOK, Sending
<1>4. ASSUME NEW o \in Readers, Live(o)
      PROVE  ReaderOK(data', write_pointer', w', Top', r[o], read_pointers[id(o)], got[o])
  <2>1. ReaderOK(data, write_pointer, w, Top, r[o], read_pointers[id(o)], got[o])
    BY <1>4, LiveFacts
  <2>2. ~Passed(w', r[o].id) /\ w'.pc \notin {"tag", "beyond"}
    BY DEF Sending, Passed
  <2>3. ResetOK(write_pointer, w', r[o].wp)
    BY DEF Sending, ResetOK
  <2>4. ReaderOK(data, write_pointer, w', Top', r[o], read_pointers[id(o)], got[o])
    BY <1>1, <2>1, <2>2, <2>3, WriterFacts, MoveKeepsReader
  <2> QED BY <2>4
<1> QED BY <1>1, <1>2, <1>3, <1>4 DEF WriterKeeps

LEMMA SendKeeps ==
  ASSUME MsgqIInv, SETTLED, NEW s \in Sizes, msgq_msg_send(s)
  PROVE  WriterKeeps
<1> DEFINE p == write_pointer.ptr
<1>1. /\ w.pc = "idle" /\ MaySend(s) /\ sent' = sent + 1
      /\ UNCHANGED <<num_readers, write_pointer, data, r, got>>
      /\ w'.pc = IF MustWrap(s) THEN "tag" ELSE "area"
      /\ w'.size = s /\ w'.n = num_readers /\ w'.i = 0 /\ ~w'.hit
  BY DEF msgq_msg_send, header, WriterAt
<1>2. s \in Nat /\ num_readers \in Nat
  BY SizesFit, MsgqAssumption DEF MsgqIInv, MsgqTypes
<1>3. Top = sent /\ Top' = sent
  BY <1>1, WriterFacts DEF Top, Pub, Sending
<1>4. SegmentInv'
  BY <1>1, <1>3, WriterFacts DEF SegmentInv
<1>5. WriterInv'
  <2>1. /\ MustWrap(s) => p >= s + 2
        /\ ~MustWrap(s) => p + s + 2 < SIZE
    BY WrapRoom DEF MsgqIInv
  <2> QED BY <1>1, <1>2, <2>1, WriterFacts DEF WriterInv, WriterOK, Sending
<1>6. ASSUME NEW o \in Readers, Live(o)
      PROVE  ReaderOK(data', write_pointer', w', Top', r[o], read_pointers[id(o)], got[o])
  <2>1. r[o].id < num_readers /\ r[o].id \in Nat
    BY <1>1, <1>6, LiveFacts DEF MsgqIInv, SlotInv, HolderIsCounted, Calm
  <2>2. ~Passed(w', r[o].id) /\ ~(r[o].id >= w'.n) /\ r[o].id < w'.n
    BY <1>1, <1>2, <2>1 DEF Passed
  <2>3. ASSUME r[o].pc = "reset_store" PROVE ResetOK(write_pointer, w', r[o].wp)
    <3> DEFINE c == r[o].wp
    <3>1. ~Laps(s, c)
      BY <1>1, <2>3 DEF MaySend
    <3>2. c.cycles <= write_pointer.cycles /\ (c.cycles = write_pointer.cycles => c.ptr <= p)
      BY <1>6, <2>3, LiveFacts DEF ReaderOK, Placed, PlaceOK, Pos
    <3>3. c.ptr \in Nat /\ c.cycles \in Nat
      BY <1>6, <2>3, LiveFacts DEF Pos
    <3> QED BY <1>1, <1>2, <3>1, <3>2, <3>3, WriterFacts DEF Laps, ResetOK
  <2>4. ReaderOK(data, write_pointer, w', Top, r[o], read_pointers[id(o)], got[o])
    BY <1>6, <2>2, <2>3, WriterFacts, LiveFacts, MoveKeepsReader
  <2> QED BY <1>1, <1>3, <2>4
<1> QED BY <1>3, <1>4, <1>5, <1>6, WriterFacts DEF WriterKeeps

LEMMA WrapTagKeeps ==
  ASSUME MsgqIInv, WrapTag
  PROVE  WriterKeeps
<1> DEFINE p == write_pointer.ptr
<1>1. /\ w.pc = "tag" /\ data' = [data EXCEPT ![p] = WRAP]
      /\ w'.pc = "beyond" /\ w'.size = w.size /\ w'.n = w.n /\ w'.i = w.i /\ w'.hit = w.hit
      /\ UNCHANGED <<write_pointer, sent>>
  BY WriterFacts DEF WrapTag, header, WriterRecs
<1>2. SameBut(data, data', p) /\ data'[p] = WRAP /\ p \in Addr /\ p >= p
  BY <1>1, WriterFacts DEF SameBut
<1>3. Top' = Top
  BY <1>1 DEF Top, Pub, Sending
<1>4. SegmentInv'
  BY <1>1, <1>2, <1>3, WriterFacts, StoreKeepsSegment DEF SegmentInv
<1>5. WriterInv'
  BY <1>1, <1>2, WriterFacts DEF WriterInv, WriterOK, Sending
<1>6. ASSUME NEW o \in Readers, Live(o)
      PROVE  ReaderOK(data', write_pointer', w', Top', r[o], read_pointers[id(o)], got[o])
  <2> DEFINE rp == read_pointers[id(o)]
             c  == Pos(r[o], rp)
  <2>0. ReaderOK(data, write_pointer, w, Top, r[o], rp, got[o])
    BY <1>6, LiveFacts
  <2>1. ReaderOK(data', write_pointer, w, Top, r[o], rp, got[o])
    <3>1. rp.ptr < p \/ rp.ptr > p \/ (rp.ptr = p /\ p = write_pointer.ptr /\ data'[p] = WRAP)
      BY <1>2, <1>6, WriterFacts, LiveFacts
    <3> QED BY <1>2, <1>6, <2>0, <3>1, WriterFacts, LiveFacts, StoreKeepsReader
  <2>2. ~Passed(w', r[o].id)
    BY <1>1 DEF Passed
  <2>3. r[o].pc \in Placed /\ r[o].id >= w'.n => c.ptr = p
    BY <1>1, <2>0 DEF ReaderOK, PlaceOK
  <2>4. r[o].pc = "reset_store" => ResetOK(write_pointer, w', r[o].wp)
    BY <1>1, <2>0 DEF ReaderOK, ResetOK
  <2>5. r[o].pc \in Flight => r[o].id < w'.n
    BY <1>1, <2>0 DEF ReaderOK, FlightOK
  <2>6. ReaderOK(data', write_pointer, w', Top, r[o], rp, got[o])
    BY <2>1, <2>2, <2>3, <2>4, <2>5, WriterFacts, MoveKeepsReader
  <2> QED BY <1>1, <1>3, <2>6
<1> QED BY <1>3, <1>4, <1>5, <1>6, WriterFacts DEF WriterKeeps

\* The loops over the slots: a slot is passed only when its subscriber is out of
\* the way or has lost its flag.
LEMMA LoopKeeps ==
  ASSUME MsgqIInv, w.pc \in {"beyond", "area"}, w'.pc = w.pc, w'.size = w.size, w'.n = w.n,
         w'.i \in Nat, w'.i <= w.n, w'.hit => w'.i < w.n,
         UNCHANGED <<write_pointer, data, sent>>,
         \A o \in Readers : Live(o) /\ Live(o)' /\ w'.i > id(o) =>
           w.i > id(o) \/ ~InTheWay(read_pointers[id(o)])
  PROVE  WriterKeeps
<1> DEFINE p == write_pointer.ptr
<1>1. Top' = Top
  BY DEF Top, Pub, Sending
<1>2. SegmentInv'
  BY <1>1, WriterFacts DEF SegmentInv
<1>3. WriterInv'
  BY WriterFacts DEF WriterInv, WriterOK, Sending
<1>4. ASSUME NEW o \in Readers, Live(o), Live(o)'
      PROVE  ReaderOK(data', write_pointer', w', Top', r[o], read_pointers[id(o)], got[o])
  <2> DEFINE rp == read_pointers[id(o)]
             c  == Pos(r[o], rp)
  <2>0. ReaderOK(data, write_pointer, w, Top, r[o], rp, got[o]) /\ id(o) = r[o].id
    BY <1>4, LiveFacts
  <2>1. r[o].pc = "reset_store" => ResetOK(write_pointer, w', r[o].wp)
    BY <2>0 DEF ReaderOK, ResetOK
  <2>2. w'.pc \in {"tag", "beyond"} => /\ r[o].pc \in Placed /\ r[o].id >= w'.n => c.ptr = p
                                       /\ r[o].pc \in Flight => r[o].id < w'.n
    BY <2>0 DEF ReaderOK, PlaceOK, FlightOK
  <2>3. Passed(w', r[o].id) => Passed(w, r[o].id) \/ (w.pc = "area" /\ ~InTheWay(rp))
    BY <1>4, <2>0 DEF Passed
  <2>4. ASSUME r[o].pc \in Placed, Passed(w', r[o].id), c.ptr > p
        PROVE  c.ptr >= p + w.size + 1
    <3>1. CASE Passed(w, r[o].id)
      BY <2>0, <2>4, <3>1 DEF ReaderOK, PlaceOK
    <3>2. CASE w.pc = "area" /\ ~InTheWay(rp)
      <4>1. CASE r[o].pc = "reset_store"
        BY <2>0, <2>4, <3>2, <4>1 DEF ReaderOK, ResetOK, Pos
      <4>2. CASE r[o].pc # "reset_store"
        <5>1. c = rp
          BY <4>2 DEF Pos
        <5>2. rp.cycles = write_pointer.cycles => rp.ptr <= p
          BY <2>0, <2>4, <5>1 DEF ReaderOK, PlaceOK
        <5> QED BY <1>4, <2>4, <3>2, <5>1, <5>2, WriterFacts, LiveFacts DEF InTheWay
      <4> QED BY <4>1, <4>2
    <3> QED BY <2>3, <2>4, <3>1, <3>2
  <2>5. ASSUME r[o].pc \in Flight, Passed(w', r[o].id) PROVE rp.ptr # p
    <3>1. CASE Passed(w, r[o].id)
      BY <2>0, <2>5, <3>1 DEF ReaderOK, FlightOK
    <3>2. CASE w.pc = "area" /\ ~InTheWay(rp)
      <4>1. rp.ptr >= p => rp.cycles < write_pointer.cycles
        BY <2>0, <2>5 DEF ReaderOK, FlightOK
      <4> QED BY <1>4, <3>2, <4>1, WriterFacts, LiveFacts DEF InTheWay
    <3> QED BY <2>3, <2>5, <3>1, <3>2
  <2>6. ReaderOK(data, write_pointer, w', Top, r[o], rp, got[o])
    BY <2>0, <2>1, <2>2, <2>4, <2>5, WriterFacts, MoveKeepsReader
  <2> QED BY <1>1, <2>6
<1> QED BY <1>1, <1>2, <1>3, <1>4, WriterFacts DEF WriterKeeps

LEMMA InspectKeeps ==
  ASSUME MsgqIInv, Inspect
  PROVE  WriterKeeps
<1>1. /\ w.pc \in {"beyond", "area"} /\ w.i < w.n /\ ~w.hit
      /\ UNCHANGED <<write_pointer, data, sent>>
  BY DEF Inspect, header
<1>2. CASE InTheWay(read_pointers[w.i])
  <2>1. w'.pc = w.pc /\ w'.size = w.size /\ w'.n = w.n /\ w'.i = w.i
    BY <1>2, WriterFacts DEF Inspect, WriterRecs
  <2> QED BY <1>1, <2>1, WriterFacts, LoopKeeps
<1>3. CASE ~InTheWay(read_pointers[w.i])
  <2>1. w'.pc = w.pc /\ w'.size = w.size /\ w'.n = w.n /\ w'.i = w.i + 1 /\ w'.hit = w.hit
    <3> DEFINE j == w.i + 1
    <3>1. w' = [w EXCEPT !.i = j]
      BY <1>3, Zenon DEF Inspect
    <3> HIDE DEF j
    <3>2. w'.pc = w.pc /\ w'.size = w.size /\ w'.n = w.n /\ w'.i = j /\ w'.hit = w.hit
      BY <3>1, WriterFacts DEF WriterRecs
    <3> QED BY <3>2 DEF j
  <2>2. ASSUME NEW o \in Readers, Live(o), w'.i > id(o)
        PROVE  w.i > id(o) \/ ~InTheWay(read_pointers[id(o)])
    <3>1. id(o) \in Nat
      BY <2>2, LiveFacts
    <3>2. w.i > id(o) \/ w.i = id(o)
      BY <2>1, <2>2, <3>1, WriterFacts
    <3> QED BY <1>3, <3>2
  <2>3. w'.i \in Nat /\ w'.i <= w.n
    BY <1>1, <2>1, WriterFacts
  <2> QED BY <1>1, <2>1, <2>2, <2>3, WriterFacts, LoopKeeps
<1> QED BY <1>2, <1>3

LEMMA InvalidateKeeps ==
  ASSUME MsgqIInv, SETTLED, Invalidate
  PROVE  WriterKeeps
<1>1. /\ w.pc \in {"beyond", "area"} /\ w.hit
      /\ read_valids' = [read_valids EXCEPT ![w.i] = FALSE]
      /\ UNCHANGED <<write_pointer, data, sent, r>>
  BY DEF Invalidate
<1>2. w.i < w.n
  BY <1>1, WriterFacts DEF WriterOK
<1>3. w'.pc = w.pc /\ w'.size = w.size /\ w'.n = w.n /\ w'.i = w.i + 1 /\ ~w'.hit
  <2> DEFINE j == w.i + 1
  <2>1. w' = [w EXCEPT !.hit = FALSE, !.i = j]
    BY Zenon DEF Invalidate
  <2> HIDE DEF j
  <2>2. w'.pc = w.pc /\ w'.size = w.size /\ w'.n = w.n /\ w'.i = j /\ ~w'.hit
    BY <2>1, WriterFacts DEF WriterRecs
  <2> QED BY <2>2 DEF j
<1>4. ASSUME NEW o \in Readers, Live(o), Live(o)', w'.i > id(o)
      PROVE  w.i > id(o)
  <2>1. id(o) \in Nat /\ id(o) \in Slots /\ id(o)' = id(o)
    BY <1>1, <1>4, LiveFacts DEF id
  <2>2. id(o) # w.i
    BY <1>1, <1>4, <2>1 DEF Live, MsgqIInv, MsgqTypes
  <2> QED BY <1>3, <1>4, <2>1, <2>2, WriterFacts
<1>5. w'.i \in Nat /\ w'.i <= w.n
  BY <1>2, <1>3, WriterFacts
<1> QED BY <1>1, <1>3, <1>4, <1>5, LoopKeeps

LEMMA WrapAroundKeeps ==
  ASSUME MsgqIInv, WrapAround
  PROVE  WriterKeeps
<1> DEFINE v == At(write_pointer.cycles + 1, 0)
           u == [w EXCEPT !.pc = "area", !.i = 0]
<1>1. /\ w.pc = "beyond" /\ w.i = w.n /\ write_pointer' = v /\ w' = u
      /\ UNCHANGED <<data, sent>>
  BY DEF WrapAround
<1>2. v.ptr = 0 /\ u.pc = "area" /\ u.size = w.size /\ u.n = w.n /\ u.i = 0 /\ u.hit = w.hit
  BY WriterFacts DEF At, WriterRecs
<1> HIDE DEF v, u
<1>3. data[write_pointer.ptr] = WRAP /\ write_pointer.ptr >= w.size + 2 /\ w.size \in Sizes
      /\ ~w.hit /\ sent > 0
  BY <1>1, WriterFacts DEF WriterOK, Sending
<1>4. Top' = Top
  BY <1>1, <1>2 DEF Top, Pub, Sending
<1>5. SegmentInv'
  BY <1>1, <1>2, <1>3, <1>4, WriterFacts, WrapKeepsSegment DEF SegmentInv
<1>6. WriterInv'
  <2>1. w.size + 2 < SIZE
    BY <1>3, WrapRoom DEF MsgqIInv
  <2> QED BY <1>1, <1>2, <1>3, <2>1, WriterFacts DEF WriterInv, WriterOK, Sending
<1>7. ASSUME NEW o \in Readers, Live(o)
      PROVE  ReaderOK(data', write_pointer', w', Top', r[o], read_pointers[id(o)], got[o])
  <2>1. ReaderOK(data, v, u, Top, r[o], read_pointers[id(o)], got[o])
    BY <1>1, <1>3, <1>7, WriterFacts, LiveFacts, WrapKeepsReader DEF v, u
  <2> QED BY <1>1, <1>4, <2>1
<1> QED BY <1>4, <1>5, <1>6, <1>7, WriterFacts DEF WriterKeeps

\* Stores behind the last look at the slots: a tag or a word of the new message.
LEMMA StoreKeeps ==
  ASSUME MsgqIInv, SizeTag \/ CopyIn
  PROVE  WriterKeeps
<1> DEFINE p == write_pointer.ptr
           x == IF w.pc = "area" THEN p ELSE p + w.i
<1>1. /\ w.pc \in {"area", "copy"} /\ w'.pc = "copy" /\ w'.size = w.size
      /\ UNCHANGED <<write_pointer, sent>>
      /\ w.pc = "area" => w.i = w.n /\ w'.i = 1 /\ data' = [data EXCEPT ![p] = Tag(w.size)]
      /\ w.pc = "copy" => /\ w.i <= w.size /\ w'.i = w.i + 1
                          /\ data' = [data EXCEPT ![p + w.i] = Word(sent, w.size, w.i)]
  <2>1. CASE SizeTag
    BY <2>1, WriterFacts DEF SizeTag, header, WriterRecs
  <2>2. CASE CopyIn
    <3> DEFINE j == w.i + 1
    <3>1. w' = [w EXCEPT !.i = j]
      BY <2>2, Zenon DEF CopyIn
    <3> HIDE DEF j
    <3>2. w'.pc = w.pc /\ w'.size = w.size /\ w'.i = j
      BY <3>1, WriterFacts DEF WriterRecs
    <3>3. /\ w.pc = "copy" /\ w.i <= w.size /\ UNCHANGED <<write_pointer, sent>>
          /\ data' = [data EXCEPT ![p + w.i] = Word(sent, w.size, w.i)]
      BY <2>2 DEF CopyIn, header
    <3> QED BY <3>2, <3>3 DEF j
  <2> QED BY <2>1, <2>2
<1>2. /\ w.size \in Sizes /\ sent > 0 /\ p + w.size + 2 < SIZE
      /\ w.pc = "copy" => w.i \in 1 .. w.size /\ data[p] = Tag(w.size)
                          /\ \A k \in 1 .. w.size : k < w.i => data[p + k] = Word(sent, w.size, k)
  BY <1>1, WriterFacts DEF WriterOK, Sending
<1>3. x \in Addr /\ x >= p /\ x <= p + w.size
  <2>1. p \in Nat /\ w.size \in Nat /\ SIZE \in Nat
    BY WriterFacts
  <2> HIDE DEF p
  <2>2. p + w.size + 2 < SIZE /\ (w.pc = "copy" => w.i \in 1 .. w.size)
    BY <1>2 DEF p
  <2>3. CASE w.pc = "area"
    BY <2>1, <2>2, <2>3 DEF Addr
  <2>4. CASE w.pc = "copy"
    BY <2>1, <2>2, <2>4 DEF Addr
  <2> QED BY <1>1, <2>3, <2>4
<1>4. data' = [data EXCEPT ![x] = IF w.pc = "area" THEN Tag(w.size) ELSE Word(sent, w.size, w.i)]
  BY <1>1
<1>5. /\ SameBut(data, data', x)
      /\ data'[x] = IF w.pc = "area" THEN Tag(w.size) ELSE Word(sent, w.size, w.i)
  BY <1>3, <1>4, WriterFacts DEF SameBut
<1>6. Top' = Top
  BY <1>1 DEF Top, Pub, Sending
<1>7. SegmentInv'
  <2>1. ASSUME x # p PROVE ~IsSize(data'[x]) /\ \A y \in Addr : p < y /\ y < x => ~IsSize(data[y])
    <3>1. w.pc = "copy" /\ x = p + w.i
      BY <1>1, <2>1
    <3>2. ASSUME NEW y \in Addr, p < y, y < x PROVE ~IsSize(data[y])
      <4>1. y - p \in 1 .. w.size /\ y - p < w.i /\ p + (y - p) = y
        <5>1. p \in Nat /\ y \in Nat /\ w.size \in Nat /\ w.i \in Nat
          BY WriterFacts DEF Addr
        <5>2. w.i \in 1 .. w.size /\ p < y /\ y < p + w.i
          BY <1>2, <3>1, <3>2
        <5> HIDE DEF p
        <5> QED BY <5>1, <5>2
      <4> QED BY <1>2, <3>1, <4>1, CellKinds
    <3> QED BY <1>5, <3>1, <3>2, CellKinds
  <2> HIDE DEF x
  <2>2. SegmentOK(data', p, Top)
    BY <1>3, <1>5, <2>1, WriterFacts, StoreKeepsSegment
  <2> QED BY <1>1, <1>6, <2>2 DEF SegmentInv
<1>8. WriterInv'
  <2>1. data'[p] = Tag(w.size)
    BY <1>1, <1>2, <1>5, WriterFacts DEF SameBut
  <2>2. ASSUME NEW k \in 1 .. w.size, k < w'.i PROVE data'[p + k] = Word(sent, w.size, k)
    <3>1. w.pc = "copy" /\ x = p + w.i /\ (k = w.i \/ k < w.i)
      BY <1>1, <1>2, <2>2, WriterFacts
    <3>2. CASE k = w.i
      BY <1>5, <3>1, <3>2
    <3>3. CASE k < w.i
      <4>1. p + k \in Addr /\ p + k # p + w.i
        <5>1. p \in Nat /\ w.size \in Nat /\ w.i \in Nat /\ k \in Nat /\ k <= w.size
          BY WriterFacts
        <5> HIDE DEF p
        <5>2. p + w.size + 2 < SIZE /\ SIZE \in Nat
          BY <1>2, WriterFacts DEF p
        <5> QED BY <3>3, <5>1, <5>2 DEF Addr
      <4> QED BY <1>2, <1>5, <3>1, <3>3, <4>1 DEF SameBut
    <3> QED BY <3>1, <3>2, <3>3
  <2>3. w'.i \in 1 .. w.size + 1
    BY <1>1, <1>2, SizesFit
  <2> QED BY <1>1, <1>2, <2>1, <2>2, <2>3 DEF WriterInv, WriterOK, Sending
<1>9. ASSUME NEW o \in Readers, Live(o)
      PROVE  ReaderOK(data', write_pointer', w', Top', r[o], read_pointers[id(o)], got[o])
  <2> DEFINE rp == read_pointers[id(o)]
             c  == Pos(r[o], rp)
  <2>0. ReaderOK(data, write_pointer, w, Top, r[o], rp, got[o])
    BY <1>9, LiveFacts
  <2>1. Passed(w, r[o].id)
    BY <1>1, <1>9, WriterFacts, LiveFacts DEF Passed
  <2>2. r[o].pc \in Placed /\ c.ptr > p => c.ptr >= p + w.size + 1
    BY <2>0, <2>1 DEF ReaderOK, PlaceOK
  <2>3. r[o].pc \in Flight => rp.ptr # p /\ r[o].pc \in Placed /\ c = rp
    BY <2>0, <2>1 DEF ReaderOK, FlightOK, Flight, Placed, Pos
  <2> HIDE DEF x
  <2>4. r[o].pc \in Placed /\ c.ptr > p => c.ptr > x
    BY <1>3, <1>9, <2>2, WriterFacts, LiveFacts DEF Addr
  <2>5. r[o].pc \in Flight => rp.ptr < p \/ rp.ptr > x
    BY <1>9, <2>3, <2>4, WriterFacts, LiveFacts
  <2>6. ReaderOK(data', write_pointer, w, Top, r[o], rp, got[o])
    BY <1>3, <1>5, <1>9, <2>0, <2>4, <2>5, WriterFacts, LiveFacts, StoreKeepsReader
  <2>7. r[o].pc = "reset_store" => ResetOK(write_pointer, w', r[o].wp)
    BY <1>1, <2>0 DEF ReaderOK, ResetOK
  <2>8. ReaderOK(data', write_pointer, w', Top, r[o], rp, got[o])
    BY <1>1, <2>2, <2>3, <2>6, <2>7, WriterFacts, MoveKeepsReader
  <2> QED BY <1>1, <1>6, <2>8
<1> QED BY <1>6, <1>7, <1>8, <1>9, WriterFacts DEF WriterKeeps

LEMMA PublishKeeps ==
  ASSUME MsgqIInv, Publish
  PROVE  WriterKeeps
<1> DEFINE p == write_pointer.ptr
           v == At(write_pointer.cycles, p + w.size + 1)
<1>1. /\ w.pc = "copy" /\ w.i > w.size /\ write_pointer' = v /\ w' = WriterAt("idle")
      /\ UNCHANGED <<data, sent>>
  BY DEF Publish
<1>2. v.ptr = p + w.size + 1
  BY DEF At
<1>3. Top = sent - 1 /\ Top' = sent /\ Top' = Top + 1
  BY <1>1, WriterAtFields, WriterFacts DEF Top, Pub, Sending
<1>4. Complete(data, p, w.size, Top + 1)
  BY <1>1, <1>3, WriterFacts DEF WriterOK, Sending, Complete
<1> HIDE DEF v
<1>5. SegmentInv'
  <2>1. SegmentOK(data, p + w.size + 1, Top + 1)
    BY <1>4, WriterFacts, PublishKeepsSegment
  <2> QED BY <1>1, <1>2, <1>3, <2>1 DEF SegmentInv
<1>6. WriterInv'
  BY <1>1, WriterAtFields DEF WriterInv, WriterOK, Sending
<1>7. ASSUME NEW o \in Readers, Live(o)
      PROVE  ReaderOK(data', write_pointer', w', Top', r[o], read_pointers[id(o)], got[o])
  <2>1. ReaderOK(data, v, WriterAt("idle"), Top + 1, r[o], read_pointers[id(o)], got[o])
    BY <1>1, <1>4, <1>7, WriterFacts, LiveFacts, PublishKeepsReader DEF v
  <2> QED BY <1>1, <1>3, <2>1
<1> QED BY <1>3, <1>5, <1>6, <1>7, WriterFacts DEF WriterKeeps

\* Every step of the publisher keeps the invariant.
LEMMA WriterStep ==
  ASSUME MsgqIInv, SETTLED, WriterMoves
  PROVE  MsgqIInv'
<1>1. MsgqTypes'
  BY WriterTypes DEF WriterMoves
<1>2. /\ SlotInv' /\ (\A o \in Readers : Live(o)' => Live(o))
      /\ UNCHANGED <<r, read_pointers, got, conflate>>
  BY WriterSlots
<1>3. WriterKeeps
  <2>1. CASE msgq_init_publisher
    <3>1. /\ w'.pc = "init" /\ w'.i = 0 /\ 0 \in Slots
          /\ UNCHANGED <<data, write_pointer, sent>>
      BY <2>1, WriterAtFields, MsgqAssumption DEF msgq_init_publisher, Slots
    <3> QED BY <3>1, StopKeeps DEF Sending
  <2>2. CASE InitSlot
    <3>1. /\ w.pc = "init" /\ w.i \in Slots /\ UNCHANGED <<data, write_pointer, sent>>
      BY <2>2, WriterFacts DEF InitSlot, WriterOK
    <3>2. CASE ~w.hit
      <4>1. w'.pc = "init" /\ w'.i = w.i
        BY <2>2, <3>1, <3>2, WriterFacts DEF InitSlot, WriterRecs
      <4> QED BY <3>1, <4>1, StopKeeps DEF Sending
    <3>3. CASE w.hit /\ w.i + 1 < NUM_READERS
      <4>1. w'.pc = "init" /\ w'.i = w.i + 1
        BY <2>2, <3>1, <3>3, WriterFacts DEF InitSlot, WriterRecs
      <4>2. w.i + 1 \in Slots
        BY <3>1, <3>3, MsgqAssumption DEF Slots
      <4> QED BY <3>1, <4>1, <4>2, StopKeeps DEF Sending
    <3>4. CASE w.hit /\ ~(w.i + 1 < NUM_READERS)
      <4>1. w'.pc = "idle"
        BY <2>2, <3>4, WriterAtFields DEF InitSlot
      <4> QED BY <3>1, <4>1, StopKeeps DEF Sending
    <3> QED BY <3>2, <3>3, <3>4
  <2>3. CASE WriterDies
    <3>1. w'.pc = "down" /\ UNCHANGED <<data, write_pointer, sent>>
      BY <2>3, WriterAtFields DEF WriterDies, header
    <3> QED BY <3>1, StopKeeps DEF Sending
  <2> QED BY <2>1, <2>2, <2>3, SendKeeps, WrapTagKeeps, InspectKeeps, InvalidateKeeps,
             WrapAroundKeeps, StoreKeeps, PublishKeeps DEF WriterMoves, Writer
<1>4. LocalInv'
  <2> SUFFICES ASSUME NEW o \in Readers PROVE LocalOK(r[o], Top', got[o])
    BY <1>2 DEF LocalInv
  <2>1. Top \in Nat /\ Top' \in Nat /\ Top <= Top' /\ LocalOK(r[o], Top, got[o]) /\ got[o] \in Nat
    BY <1>3, OwnFacts DEF WriterKeeps
  <2> QED BY <2>1 DEF LocalOK, CopyOK
<1>5. ReaderInv'
  <2> SUFFICES ASSUME NEW o \in Readers, Live(o)'
               PROVE  ReaderOK(data, write_pointer, w, Top, r[o], read_pointers[id(o)], got[o])'
    BY DEF ReaderInv
  <2>1. Live(o) /\ id(o)' = id(o)
    BY <1>2 DEF id
  <2>2. ReaderOK(data', write_pointer', w', Top', r[o], read_pointers[id(o)], got[o])
    BY <1>3, <2>1 DEF WriterKeeps
  <2> QED BY <1>2, <2>1, <2>2
<1> QED BY <1>1, <1>2, <1>3, <1>4, <1>5 DEF MsgqIInv, WriterKeeps

-----------------------------------------------------------------------------
(* The steps of a subscriber, one by one.                                  *)

\* Between two loads a subscriber only has a place.
LEMMA RestReader ==
  ASSUME NEW d, NEW wp, NEW wr, NEW top, NEW rd, NEW rp, NEW g
  PROVE  /\ rd.pc \in {"reset", "reset_load"} => ReaderOK(d, wp, wr, top, rd, rp, g)
         /\ rd.pc \in {"idle", "uid", "valid", "load_rp"} =>
              (ReaderOK(d, wp, wr, top, rd, rp, g) <=> PlaceOK(d, wp, wr, rd.id, rp, g))
         /\ rd.pc \in {"reset", "reset_load", "idle", "uid", "valid", "load_rp"} =>
              (LocalOK(rd, top, g) <=> g <= top)
<1>1. rd.pc \in {"reset", "reset_load"} => ReaderOK(d, wp, wr, top, rd, rp, g)
  BY DEF ReaderOK, Placed, Flight
<1>2. rd.pc \in {"idle", "uid", "valid", "load_rp"} =>
              (ReaderOK(d, wp, wr, top, rd, rp, g) <=> PlaceOK(d, wp, wr, rd.id, rp, g))
  BY DEF ReaderOK, Placed, Flight, Pos, Last
<1>3. rd.pc \in {"reset", "reset_load", "idle", "uid", "valid", "load_rp"} =>
              (LocalOK(rd, top, g) <=> g <= top)
  BY DEF LocalOK
<1> QED BY <1>1, <1>2, <1>3

\* Behind a whole message is a place to stand for who has read it.
LEMMA NextPlace ==
  ASSUME NEW d \in [Addr -> Cells], NEW wp \in Pointers, NEW top \in Nat, NEW wr \in WriterRecs,
         SegmentOK(d, wp.ptr, top), NEW i, NEW c \in Pointers, NEW s, NEW g \in Nat, NEW k \in Nat,
         MsgAt(d, wp.ptr, top, c.ptr, s), k <= Num(d, c.ptr),
         FlightOK(d, wp, wr, i, c, g), NEW l, PlaceOK(d, wp, wr, i, c, l), wr.n \in Nat, i \in Nat
  PROVE  PlaceOK(d, wp, wr, i, At(c.cycles, c.ptr + 1 + s), k)
<1> DEFINE a == c.ptr
           p == wp.ptr
           b == At(c.cycles, c.ptr + 1 + s)
<1>1. /\ a \in Nat /\ p \in Nat /\ c.cycles \in Nat /\ wp.cycles \in Nat /\ wr.size \in Nat
      /\ p \in Addr /\ a \in Addr
  BY WriterFields DEF Pointers, Addr
<1>2. b.cycles = c.cycles /\ b.ptr = a + s + 1
  <2>1. s \in Nat
    BY SizesFit DEF MsgAt
  <2> QED BY <1>1, <2>1 DEF At
<1>3. s \in Nat /\ s >= 1 /\ s \in Sizes /\ SIZE \in Nat /\ a + s + 1 < SIZE
      /\ Num(d, a) \in Nat
  BY SizesFit DEF MsgAt
<1> HIDE DEF b, a, p
<1>4. a + s + 1 \in Addr
  BY <1>1, <1>3 DEF Addr
<1>5. a < p => a + s + 1 <= p
  BY DEF MsgAt, a, p
<1>6. a + s + 1 # p => \/ IsSize(d[a + s + 1]) /\ Num(d, a) < Num(d, a + s + 1)
                       \/ a >= p /\ d[a + s + 1] = WRAP
  BY DEF MsgAt, a, p
<1>7. a >= p => c.cycles < wp.cycles /\ Newer(d, p, Num(d, a))
  BY DEF MsgAt, FlightOK, a, p
<1>8. Passed(wr, i) /\ a >= p => a >= p + wr.size + 1
  BY <1>1 DEF FlightOK, PlaceOK, a, p
<1>9. wr.pc \in {"tag", "beyond"} => i < wr.n
  BY DEF FlightOK
<1>10. b.cycles <= wp.cycles /\ (b.cycles = wp.cycles => b.ptr <= p)
  <2>1. c.cycles <= wp.cycles
    BY DEF PlaceOK
  <2> QED BY <1>1, <1>2, <1>5, <1>7, <2>1
<1>11. b.ptr < p => IsSize(d[b.ptr])
  BY <1>1, <1>2, <1>3, <1>6
<1>12. ASSUME b.ptr > p
       PROVE  /\ IsSize(d[b.ptr]) \/ d[b.ptr] = WRAP
              /\ Passed(wr, i) => b.ptr >= p + wr.size + 1
              /\ Newer(d, p, k)
  <2>1. a >= p
    BY <1>1, <1>2, <1>3, <1>5, <1>12
  <2>2. Newer(d, p, k)
    <3> SUFFICES ASSUME NEW y \in Addr, y < p, IsSize(d[y]) PROVE k < Num(d, y)
      BY DEF Newer
    <3>1. Num(d, a) < Num(d, y)
      BY <1>7, <2>1 DEF Newer
    <3>2. Num(d, y) \in Nat
      BY <1>1, LapBefore DEF p
    <3> QED BY <1>3, <3>1, <3>2 DEF a
  <2> QED BY <1>1, <1>2, <1>3, <1>6, <1>8, <1>12, <2>1, <2>2
<1>13. ASSUME b.ptr # p, IsSize(d[b.ptr]) PROVE k < Num(d, b.ptr)
  <2>1. Num(d, a) < Num(d, a + s + 1)
    BY <1>2, <1>6, <1>13, CellKinds
  <2>2. Num(d, a + s + 1) \in Nat
    <3>1. MsgAt(d, p, top, a + s + 1, d[a + s + 1].size)
      BY <1>2, <1>4, <1>13 DEF SegmentOK, p
    <3> QED BY <3>1 DEF MsgAt
  <2> QED BY <1>2, <1>3, <2>1, <2>2 DEF a
<1> QED BY <1>1, <1>9, <1>10, <1>11, <1>12, <1>13 DEF PlaceOK, b, a, p

\* What a step inside a call keeps of the subscriber that makes it.
OwnKeeps(q) ==
  /\ LocalOK(r'[q], Top, got'[q])
  /\ read_valids'[id(q)] =>
       ReaderOK(data, write_pointer, w, Top, r'[q], read_pointers'[id(q)], got'[q])

\* Nobody withdraws the slots while a subscriber is in a call.
LEMMA CallFacts ==
  ASSUME MsgqIInv, NEW q \in Readers, r[q].pc \notin Unslotted \cup {"idle"}
  PROVE  /\ r[q] \in ReaderRecs /\ id(q) = r[q].id /\ id(q) \in Slots
         /\ read_pointers \in [Slots -> Pointers] /\ read_valids \in [Slots -> BOOLEAN]
         /\ got \in [Readers -> 0 .. MAX_SENT]
         /\ got[q] \in Nat /\ got[q] <= Top /\ Calm /\ Holds(q)
         /\ read_valids[id(q)] => Live(q) /\
              ReaderOK(data, write_pointer, w, Top, r[q], read_pointers[id(q)], got[q])
<1>1. r[q] \in ReaderRecs /\ id(q) = r[q].id /\ id(q) \in Slots /\ got[q] \in Nat
      /\ got[q] <= Top
  BY OwnFacts DEF LocalOK
<1>2. Holds(q) /\ InCall(q) /\ ~Evicting(q)
  BY DEF MsgqIInv, SlotInv, CallersHold, InCall, Unslotted, Evicting
<1>3. Calm
  BY <1>2 DEF MsgqIInv, SlotInv, EvictionIsAlone, Calm
<1>4. read_valids[id(q)] => Live(q)
  BY <1>2, <1>3 DEF Live
<1>5. read_valids[id(q)] =>
        ReaderOK(data, write_pointer, w, Top, r[q], read_pointers[id(q)], got[q])
  BY <1>4 DEF MsgqIInv, ReaderInv
<1> QED BY <1>1, <1>2, <1>3, <1>4, <1>5 DEF MsgqIInv, MsgqTypes

\* msgq_reset_reader: the place is the write pointer that was loaded.
LEMMA ResetKeeps ==
  ASSUME MsgqIInv, NEW q \in Readers, ResetValid(q) \/ ResetLoad(q) \/ ResetStore(q)
  PROVE  OwnKeeps(q)
<1>0. MsgqTypes
  BY DEF MsgqIInv
<1>1. CASE ResetValid(q)
  <2>1. r'[q].pc = "reset_load" /\ got' = got /\ r[q].pc = "reset"
    BY <1>0, <1>1, GotoFields DEF ResetValid, ReaderPcs
  <2>2. got[q] <= Top
    BY <2>1, CallFacts DEF Unslotted
  <2> QED BY <2>1, <2>2, RestReader DEF OwnKeeps
<1>2. CASE ResetLoad(q)
  <2>0. r[q].pc = "reset_load" /\ UNCHANGED <<got, read_pointers, read_valids>>
    BY <1>2 DEF ResetLoad, header
  <2>1. r[q] \in ReaderRecs /\ got[q] <= Top
    BY <2>0, CallFacts DEF Unslotted
  <2>2. r'[q] = [r[q] EXCEPT !.pc = "reset_store", !.wp = write_pointer]
    BY <1>0, <1>2 DEF ResetLoad, MsgqTypes
  <2>3. r'[q].pc = "reset_store" /\ r'[q].wp = write_pointer
    BY <2>1, <2>2 DEF ReaderRecs
  <2>4. LocalOK(r'[q], Top, got'[q])
    BY <2>0, <2>1, <2>3 DEF LocalOK
  <2>5. Pos(r'[q], read_pointers'[id(q)]) = write_pointer
    BY <2>3 DEF Pos
  <2>6. \A k, i : PlaceOK(data, write_pointer, w, i, write_pointer, k)
    BY WriterFacts DEF PlaceOK
  <2>7. ResetOK(write_pointer, w, write_pointer)
    BY WriterFacts DEF WriterOK, ResetOK
  <2> QED BY <2>3, <2>4, <2>5, <2>6, <2>7 DEF OwnKeeps, ReaderOK, Flight
<1>3. CASE ResetStore(q)
  <2>0. /\ r[q].pc = "reset_store" /\ UNCHANGED <<got, read_valids>> /\ Restart(q)
        /\ read_pointers' = [read_pointers EXCEPT ![id(q)] = r[q].wp]
    BY <1>3 DEF ResetStore
  <2>1. r'[q].pc = "uid" /\ r'[q].id = r[q].id
    BY <1>0, <2>0, RestartFields
  <2>2. /\ read_pointers'[id(q)] = r[q].wp /\ got[q] <= Top
        /\ read_valids[id(q)] =>
             ReaderOK(data, write_pointer, w, Top, r[q], read_pointers[id(q)], got[q])
    BY <2>0, CallFacts DEF Unslotted
  <2>3. read_valids[id(q)] => PlaceOK(data, write_pointer, w, r[q].id, r[q].wp, got[q])
    BY <2>0, <2>2 DEF ReaderOK, Placed, Pos, Last
  <2> QED BY <2>0, <2>1, <2>2, <2>3, RestReader DEF OwnKeeps
<1> QED BY <1>1, <1>2, <1>3

\* The loads before the tag.
LEMMA LoadKeeps ==
  ASSUME MsgqIInv, NEW q \in Readers,
         CheckValid(q) \/ LoadReadPointer(q) \/ LoadWritePointer(q) \/ LoadTag(q)
  PROVE  OwnKeeps(q)
<1>0. MsgqTypes
  BY DEF MsgqIInv
<1> DEFINE rp == read_pointers[id(q)]
           g  == got[q]
<1>1. /\ r[q].pc \in {"valid", "load_rp", "load_wp", "tag"}
      /\ UNCHANGED <<got, read_pointers, read_valids>>
  BY DEF CheckValid, LoadReadPointer, LoadWritePointer, LoadTag, header
<1>2. /\ r[q] \in ReaderRecs /\ id(q) = r[q].id /\ rp \in Pointers /\ g <= Top /\ g \in Nat
      /\ read_valids[id(q)] => ReaderOK(data, write_pointer, w, Top, r[q], rp, g)
  BY <1>1, CallFacts DEF Unslotted
<1>3. r[q].id \in Nat /\ rp.ptr \in Nat /\ rp.cycles \in Nat /\ rp.ptr \in Addr
  BY <1>2, ReaderFields DEF Pointers, Addr
<1>4. read_valids[id(q)] => PlaceOK(data, write_pointer, w, r[q].id, rp, g)
  BY <1>1, <1>2 DEF ReaderOK, Placed, Flight, Pos, Last
<1> HIDE DEF rp, g
<1>5. CASE CheckValid(q)
  <2>1. "load_rp" \in ReaderPcs /\ "reset" \in ReaderPcs
    BY DEF ReaderPcs
  <2>2. CASE read_valids[id(q)]
    <3>1. r'[q].pc = "load_rp" /\ r'[q].id = r[q].id
      BY <1>0, <1>5, <2>1, <2>2, GotoFields DEF CheckValid
    <3> QED BY <1>1, <1>2, <1>4, <2>2, <3>1, RestReader DEF OwnKeeps, rp, g
  <2>3. CASE ~read_valids[id(q)]
    <3>1. r'[q].pc = "reset"
      BY <1>0, <1>5, <2>1, <2>3, GotoFields DEF CheckValid
    <3> QED BY <1>1, <1>2, <2>3, <3>1, RestReader DEF OwnKeeps, g
  <2> QED BY <2>2, <2>3
<1>6. CASE LoadReadPointer(q)
  <2>1. r'[q] = [r[q] EXCEPT !.pc = "load_wp", !.rp = rp]
    BY <1>0, <1>6 DEF LoadReadPointer, MsgqTypes, rp
  <2>2. r'[q].pc = "load_wp" /\ r'[q].rp = rp /\ r'[q].id = r[q].id
    BY <1>2, <2>1 DEF ReaderRecs
  <2>3. LocalOK(r'[q], Top, g)
    BY <1>2, <2>2 DEF LocalOK
  <2>4. read_valids[id(q)] => ReaderOK(data, write_pointer, w, Top, r'[q], rp, g)
    BY <1>4, <2>2 DEF ReaderOK, Pos, Last, Flight
  <2> QED BY <1>1, <2>3, <2>4 DEF OwnKeeps, rp, g
<1>7. CASE LoadWritePointer(q)
  <2>0. r[q].pc = "load_wp" /\ (read_valids[id(q)] => r[q].rp = rp)
    BY <1>2, <1>7 DEF LoadWritePointer, ReaderOK
  <2>1. CASE r[q].rp.ptr = write_pointer.ptr
    <3>1. r'[q] = ReaderAt("idle", r[q].id)
      BY <1>0, <1>7, <2>1 DEF LoadWritePointer, MsgqTypes
    <3>2. r'[q].pc = "idle" /\ r'[q].id = r[q].id
      BY <3>1, ReaderAtFields
    <3> QED BY <1>1, <1>2, <1>4, <3>2, RestReader DEF OwnKeeps, rp, g
  <2>2. CASE r[q].rp.ptr # write_pointer.ptr
    <3>1. r'[q] = [r[q] EXCEPT !.pc = "tag", !.wp = write_pointer]
      BY <1>0, <1>7, <2>2 DEF LoadWritePointer, MsgqTypes
    <3>2. r'[q].pc = "tag" /\ r'[q].rp = r[q].rp /\ r'[q].id = r[q].id
      BY <1>2, <3>1 DEF ReaderRecs
    <3>3. LocalOK(r'[q], Top, g)
      BY <1>2, <3>2 DEF LocalOK
    <3>4. ASSUME read_valids[id(q)]
          PROVE  ReaderOK(data, write_pointer, w, Top, r'[q], rp, g)
      <4>1. PlaceOK(data, write_pointer, w, r[q].id, rp, g) /\ rp.ptr # write_pointer.ptr
        BY <1>4, <2>0, <2>2, <3>4
      <4>2. FlightOK(data, write_pointer, w, r[q].id, rp, g)
        BY <1>3, <4>1, WriterFacts DEF FlightOK, PlaceOK
      <4>3. TagOK(data, write_pointer.ptr, Top, rp.ptr, data[rp.ptr], g)
        <5>1. CASE IsSize(data[rp.ptr])
          <6>1. MsgAt(data, write_pointer.ptr, Top, rp.ptr, data[rp.ptr].size)
            BY <1>3, <4>1, <5>1, WriterFacts DEF SegmentOK
          <6> QED BY <4>1, <5>1, <6>1 DEF TagOK, PlaceOK
        <5>2. CASE ~IsSize(data[rp.ptr])
          BY <1>3, <4>1, <5>2, WriterFacts DEF TagOK, PlaceOK
        <5> QED BY <5>1, <5>2
      <4> QED BY <2>0, <3>2, <3>4, <4>1, <4>2, <4>3 DEF ReaderOK, Placed, Flight, Pos, Last
    <3> QED BY <1>1, <3>3, <3>4 DEF OwnKeeps, rp, g
  <2> QED BY <2>1, <2>2
<1>8. CASE LoadTag(q)
  <2> DEFINE t == data[r[q].rp.ptr]
  <2>0. r[q].pc = "tag"
    BY <1>8 DEF LoadTag
  <2>1. r'[q] = [r[q] EXCEPT !.pc = "valid_tag", !.copy = <<t>>]
    BY <1>0, <1>8 DEF LoadTag, MsgqTypes
  <2>2. r'[q].pc = "valid_tag" /\ r'[q].copy = <<t>> /\ r'[q].rp = r[q].rp /\ r'[q].id = r[q].id
    BY <1>2, <2>1 DEF ReaderRecs
  <2> HIDE DEF t
  <2>3. LocalOK(r'[q], Top, g)
    BY <1>2, <2>2 DEF LocalOK
  <2>4. ASSUME read_valids[id(q)]
        PROVE  ReaderOK(data, write_pointer, w, Top, r'[q], rp, g)
    <3>1. /\ r[q].rp = rp /\ FlightOK(data, write_pointer, w, r[q].id, rp, g)
          /\ TagOK(data, write_pointer.ptr, Top, rp.ptr, data[rp.ptr], g)
      BY <1>2, <2>0, <2>4 DEF ReaderOK, Flight
    <3>2. t = data[rp.ptr] /\ r'[q].copy[1] = t
      BY <2>2, <3>1 DEF t
    <3> QED BY <1>4, <2>2, <2>4, <3>1, <3>2 DEF ReaderOK, Placed, Flight, Pos, Last
  <2> QED BY <1>1, <2>3, <2>4 DEF OwnKeeps, rp, g
<1> QED BY <1>5, <1>6, <1>7, <1>8

\* With the flag still set the tag is a wrap-around or a size: no assertion fails.
LEMMA CheckTagKeeps ==
  ASSUME MsgqIInv, NEW q \in Readers, CheckTag(q)
  PROVE  OwnKeeps(q)
<1> DEFINE rp == read_pointers[id(q)]
           g  == got[q]
           t  == r[q].copy[1]
<1>0. MsgqTypes
  BY DEF MsgqIInv
<1>1. r[q].pc = "valid_tag" /\ UNCHANGED <<got, read_pointers, read_valids>>
  BY DEF CheckTag, header
<1>2. /\ r[q] \in ReaderRecs /\ id(q) = r[q].id /\ g <= Top /\ g \in Nat
      /\ read_valids[id(q)] => ReaderOK(data, write_pointer, w, Top, r[q], rp, g)
  BY <1>1, CallFacts DEF Unslotted
<1>3. CASE ~read_valids[id(q)]
  <2>1. r'[q] = ReaderAt("reset", r[q].id)
    BY <1>0, <1>3 DEF CheckTag, MsgqTypes
  <2>2. r'[q].pc = "reset"
    BY <2>1, ReaderAtFields
  <2> QED BY <1>1, <1>2, <1>3, <2>2, RestReader DEF OwnKeeps
<1>4. CASE read_valids[id(q)]
  <2>1. /\ PlaceOK(data, write_pointer, w, r[q].id, rp, g) /\ r[q].rp = rp
        /\ FlightOK(data, write_pointer, w, r[q].id, rp, g)
        /\ TagOK(data, write_pointer.ptr, Top, rp.ptr, t, g)
    BY <1>1, <1>2, <1>4 DEF ReaderOK, Placed, Flight, Pos, Last
  <2> HIDE DEF rp, g
  <2>2. CASE t = WRAP
    <3>1. r'[q] = [r[q] EXCEPT !.pc = "wrap", !.copy = << >>]
      BY <1>0, <1>4, <2>2 DEF CheckTag, MsgqTypes
    <3>2. r'[q].pc = "wrap" /\ r'[q].rp = rp /\ r'[q].id = r[q].id
      BY <1>2, <2>1, <3>1 DEF ReaderRecs
    <3>3. rp.ptr >= write_pointer.ptr
      BY <2>1, <2>2, CellKinds DEF TagOK
    <3>4. ReaderOK(data, write_pointer, w, Top, r'[q], rp, g)
      BY <2>1, <3>2, <3>3 DEF ReaderOK, Flight, Pos, Last
    <3>5. LocalOK(r'[q], Top, g)
      BY <1>2, <3>2 DEF LocalOK
    <3> QED BY <1>1, <3>4, <3>5 DEF OwnKeeps, rp, g
  <2>3. CASE t # WRAP
    <3>1. IsSize(t) /\ MsgAt(data, write_pointer.ptr, Top, rp.ptr, t.size) /\ g < Num(data, rp.ptr)
      BY <2>1, <2>3 DEF TagOK
    <3>2. t.size \in Sizes /\ rp.ptr + t.size + 1 < SIZE /\ t.size \in Nat
      BY <3>1, SizesFit DEF MsgAt
    <3> HIDE DEF t
    <3>3. \/ r'[q] = [r[q] EXCEPT !.pc = "skip", !.size = t.size, !.copy = << >>]
          \/ r'[q] = [r[q] EXCEPT !.pc = "copy", !.size = t.size, !.copy = << >>]
      BY <1>0, <1>4, <2>3, <3>1 DEF CheckTag, MsgqTypes, IsSize, t
    <3>4. /\ r'[q].pc \in {"skip", "copy"} /\ r'[q].size = t.size /\ r'[q].copy = << >>
          /\ r'[q].rp = rp /\ r'[q].id = r[q].id
      BY <1>2, <2>1, <3>3 DEF ReaderRecs
    <3>5. Len(r'[q].copy) = 0
      BY <3>4
    <3>6. ReaderOK(data, write_pointer, w, Top, r'[q], rp, g)
      BY <2>1, <3>1, <3>4, <3>5 DEF ReaderOK, Placed, Flight, Pos, Last
    <3>7. LocalOK(r'[q], Top, g)
      BY <1>2, <3>2, <3>4, <3>5 DEF LocalOK
    <3> QED BY <1>1, <3>6, <3>7 DEF OwnKeeps, rp, g
  <2> QED BY <2>2, <2>3
<1> QED BY <1>3, <1>4

\* A subscriber at the end of the lap goes to the first cell of the next.
LEMMA StoreWrapKeeps ==
  ASSUME MsgqIInv, NEW q \in Readers, StoreWrap(q)
  PROVE  OwnKeeps(q)
<1> DEFINE rp == read_pointers[id(q)]
           g  == got[q]
           b  == At(r[q].rp.cycles + 1, 0)
<1>0. MsgqTypes
  BY DEF MsgqIInv
<1>1. /\ r[q].pc = "wrap" /\ UNCHANGED <<got, read_valids>> /\ Restart(q)
      /\ read_pointers' = [read_pointers EXCEPT ![id(q)] = b]
  BY DEF StoreWrap
<1>2. /\ r[q] \in ReaderRecs /\ id(q) = r[q].id /\ g <= Top /\ g \in Nat /\ rp \in Pointers
      /\ read_pointers'[id(q)] = b
      /\ read_valids[id(q)] => ReaderOK(data, write_pointer, w, Top, r[q], rp, g)
  BY <1>1, CallFacts DEF Unslotted
<1>3. r'[q].pc = "uid" /\ r'[q].id = r[q].id
  BY <1>0, <1>1, RestartFields
<1>4. ASSUME read_valids[id(q)]
      PROVE  PlaceOK(data, write_pointer, w, r[q].id, b, g)
  <2>1. /\ r[q].rp = rp /\ FlightOK(data, write_pointer, w, r[q].id, rp, g)
        /\ rp.ptr >= write_pointer.ptr
    BY <1>1, <1>2, <1>4 DEF ReaderOK, Flight
  <2>2. rp.cycles \in Nat /\ r[q].id \in Nat
    BY <1>2, ReaderFields DEF Pointers
  <2>3. b.cycles = rp.cycles + 1 /\ b.ptr = 0
    BY <2>1 DEF At
  <2> HIDE DEF b, rp, g
  <2>4. rp.cycles < write_pointer.cycles /\ Newer(data, write_pointer.ptr, g)
    BY <2>1 DEF FlightOK
  <2>5. 0 \in Addr /\ (write_pointer.ptr > 0 => IsSize(data[0]))
    BY WriterFacts, MsgqAssumption DEF SegmentOK, Addr
  <2>6. 0 # write_pointer.ptr /\ IsSize(data[0]) => g < Num(data, 0)
    BY <2>4, <2>5, WriterFacts DEF Newer
  <2>7. w.pc \in {"tag", "beyond"} => r[q].id < w.n
    BY <2>1 DEF FlightOK
  <2> QED BY <2>2, <2>3, <2>4, <2>5, <2>6, <2>7, WriterFacts DEF PlaceOK
<1> HIDE DEF b
<1> QED BY <1>1, <1>2, <1>3, <1>4, RestReader DEF OwnKeeps

\* The read pointer moves behind a message that was copied or skipped.
LEMMA BehindMessage ==
  ASSUME MsgqIInv, NEW q \in Readers, r[q].pc \in {"skip", "copy"}, read_valids[id(q)],
         NEW k \in Nat, k <= Num(data, r[q].rp.ptr)
  PROVE  PlaceOK(data, write_pointer, w, r[q].id,
                 At(r[q].rp.cycles, NewReadPointer(q, r[q].size)), k)
<1> DEFINE rp == read_pointers[id(q)]
           g  == got[q]
           s  == r[q].size
<1>1. ReaderOK(data, write_pointer, w, Top, r[q], rp, g) /\ g \in Nat /\ rp \in Pointers
      /\ r[q] \in ReaderRecs
  BY CallFacts DEF Unslotted
<1>2. /\ r[q].rp = rp /\ FlightOK(data, write_pointer, w, r[q].id, rp, g)
      /\ PlaceOK(data, write_pointer, w, r[q].id, rp, g)
      /\ MsgAt(data, write_pointer.ptr, Top, rp.ptr, s)
  BY <1>1 DEF ReaderOK, Flight, Placed, Pos, Last
<1>3. r[q].id \in Nat
  BY <1>1, ReaderFields
<1> HIDE DEF rp, g, s
<1>4. PlaceOK(data, write_pointer, w, r[q].id, At(rp.cycles, rp.ptr + 1 + s), k)
  BY <1>1, <1>2, <1>3, WriterFacts, NextPlace
<1> QED BY <1>2, <1>4 DEF NewReadPointer, s

LEMMA StoreSkipKeeps ==
  ASSUME MsgqIInv, NEW q \in Readers, StoreSkip(q)
  PROVE  OwnKeeps(q)
<1> DEFINE rp == read_pointers[id(q)]
           g  == got[q]
           b  == At(r[q].rp.cycles, NewReadPointer(q, r[q].size))
<1>0. MsgqTypes
  BY DEF MsgqIInv
<1>1. /\ r[q].pc = "skip" /\ UNCHANGED <<got, read_valids>> /\ Restart(q)
      /\ read_pointers' = [read_pointers EXCEPT ![id(q)] = b]
  BY DEF StoreSkip
<1> HIDE DEF b
<1>2. /\ id(q) = r[q].id /\ g <= Top /\ g \in Nat /\ read_pointers'[id(q)] = b
      /\ read_valids[id(q)] => ReaderOK(data, write_pointer, w, Top, r[q], rp, g)
  BY <1>1, CallFacts DEF Unslotted
<1>3. r'[q].pc = "uid" /\ r'[q].id = r[q].id
  BY <1>0, <1>1, RestartFields
<1>4. ASSUME read_valids[id(q)]
      PROVE  PlaceOK(data, write_pointer, w, r[q].id, b, g)
  <2>1. r[q].rp = rp /\ MsgAt(data, write_pointer.ptr, Top, rp.ptr, r[q].size)
        /\ g < Num(data, rp.ptr)
    BY <1>1, <1>2, <1>4 DEF ReaderOK, Flight
  <2>2. g <= Num(data, r[q].rp.ptr)
    BY <1>2, <2>1 DEF MsgAt
  <2> HIDE DEF g
  <2> QED BY <1>1, <1>2, <1>4, <2>2, BehindMessage DEF b
<1> QED BY <1>1, <1>2, <1>3, <1>4, RestReader DEF OwnKeeps

\* With the flag set the cells that are copied are the words of one message.
LEMMA CopyOutKeeps ==
  ASSUME MsgqIInv, NEW q \in Readers, CopyOut(q)
  PROVE  OwnKeeps(q)
<1> DEFINE rp == read_pointers[id(q)]
           g  == got[q]
           i  == Len(r[q].copy) + 1
           e  == data[r[q].rp.ptr + i]
           x  == Append(r[q].copy, e)
<1>0. MsgqTypes
  BY DEF MsgqIInv
<1>1. r[q].pc = "copy" /\ i <= r[q].size /\ UNCHANGED <<got, read_pointers, read_valids>>
  BY DEF CopyOut, header
<1>2. /\ r[q] \in ReaderRecs /\ id(q) = r[q].id /\ g <= Top /\ g \in Nat
      /\ read_valids[id(q)] => ReaderOK(data, write_pointer, w, Top, r[q], rp, g)
  BY <1>1, CallFacts DEF Unslotted
<1>3. r[q].copy \in Seq(Cells) /\ Len(r[q].copy) \in Nat
  BY <1>2, ReaderFields
<1>4. r'[q] = [r[q] EXCEPT !.copy = x]
  BY <1>0 DEF CopyOut, MsgqTypes
<1> HIDE DEF e
<1>5. /\ Len(x) = i
      /\ \A j \in 1 .. i : x[j] = IF j = i THEN e ELSE r[q].copy[j]
  BY <1>3
<1> HIDE DEF x
<1>6. /\ r'[q].pc = "copy" /\ r'[q].size = r[q].size /\ r'[q].copy = x
      /\ r'[q].rp = r[q].rp /\ r'[q].id = r[q].id
  BY <1>1, <1>2, <1>4 DEF ReaderRecs
<1>7. LocalOK(r'[q], Top, g)
  BY <1>1, <1>2, <1>5, <1>6, NewPointerFits DEF LocalOK
<1>8. ASSUME read_valids[id(q)]
      PROVE  ReaderOK(data, write_pointer, w, Top, r'[q], rp, g)
  <2>1. /\ PlaceOK(data, write_pointer, w, r[q].id, rp, g) /\ r[q].rp = rp
        /\ FlightOK(data, write_pointer, w, r[q].id, rp, g)
        /\ MsgAt(data, write_pointer.ptr, Top, rp.ptr, r[q].size) /\ g < Num(data, rp.ptr)
        /\ \A j \in 1 .. Len(r[q].copy) : r[q].copy[j] = Word(Num(data, rp.ptr), r[q].size, j)
    BY <1>1, <1>2, <1>8 DEF ReaderOK, Placed, Flight, Pos, Last
  <2>2. e = Word(Num(data, rp.ptr), r[q].size, i)
    <3>1. i \in 1 .. r[q].size
      BY <1>1, <1>3, NewPointerFits
    <3> HIDE DEF i
    <3> QED BY <2>1, <3>1 DEF MsgAt, e
  <2>3. \A j \in 1 .. i : x[j] = Word(Num(data, rp.ptr), r[q].size, j)
    <3> SUFFICES ASSUME NEW j \in 1 .. i PROVE x[j] = Word(Num(data, rp.ptr), r[q].size, j)
      OBVIOUS
    <3>1. CASE j = i
      BY <1>5, <2>2, <3>1
    <3>2. CASE j # i
      <4>1. j \in 1 .. Len(r[q].copy)
        BY <1>3, <3>2
      <4> QED BY <1>5, <2>1, <3>2, <4>1
    <3> QED BY <3>1, <3>2
  <2> QED BY <1>5, <1>6, <2>1, <2>3 DEF ReaderOK, Placed, Flight, Pos, Last
<1> QED BY <1>1, <1>7, <1>8 DEF OwnKeeps

LEMMA StoreReadPointerKeeps ==
  ASSUME MsgqIInv, NEW q \in Readers, StoreReadPointer(q)
  PROVE  OwnKeeps(q)
<1> DEFINE rp == read_pointers[id(q)]
           g  == got[q]
           s  == r[q].size
           b  == At(r[q].rp.cycles, NewReadPointer(q, s))
           y  == ReaderAt("valid_data", r[q].id)
<1>0. MsgqTypes
  BY DEF MsgqIInv
<1>1. /\ r[q].pc = "copy" /\ Len(r[q].copy) = s /\ UNCHANGED <<got, read_valids>>
      /\ read_pointers' = [read_pointers EXCEPT ![id(q)] = b]
  BY DEF StoreReadPointer
<1>2. /\ id(q) = r[q].id /\ g <= Top /\ g \in Nat /\ r[q] \in ReaderRecs
      /\ read_valids[id(q)] => ReaderOK(data, write_pointer, w, Top, r[q], rp, g)
      /\ read_pointers'[id(q)] = b
  <2> HIDE DEF b
  <2> QED BY <1>1, CallFacts DEF Unslotted
<1>3. y \in ReaderRecs /\ y.pc = "valid_data" /\ y.id = r[q].id
  BY <1>2, ReaderAtFields, ReaderFields DEF ReaderPcs
<1>4. r'[q] = [y EXCEPT !.size = s, !.copy = r[q].copy]
  BY <1>0 DEF StoreReadPointer, MsgqTypes
<1> HIDE DEF y, b
<1>5. r'[q].pc = "valid_data" /\ r'[q].id = r[q].id /\ r'[q].size = s /\ r'[q].copy = r[q].copy
  BY <1>3, <1>4 DEF ReaderRecs
<1>6. LocalOK(r'[q], Top, g)
  BY <1>2, <1>5 DEF LocalOK
<1>7. ASSUME read_valids[id(q)]
      PROVE  ReaderOK(data, write_pointer, w, Top, r'[q], b, g)
  <2>1. /\ r[q].rp = rp /\ g < Num(data, rp.ptr)
        /\ MsgAt(data, write_pointer.ptr, Top, rp.ptr, s)
        /\ \A j \in 1 .. s : r[q].copy[j] = Word(Num(data, rp.ptr), s, j)
    BY <1>1, <1>2, <1>7 DEF ReaderOK, Flight
  <2>2. s \in Sizes /\ 1 \in 1 .. s /\ Num(data, rp.ptr) \in 1 .. Top
    BY <2>1, SizesFit DEF MsgAt
  <2>3. r[q].copy[1].msg = Num(data, rp.ptr)
    BY <2>1, <2>2, CellKinds
  <2>4. CopyOK(r'[q], Top, g)
    BY <1>1, <1>5, <2>1, <2>2, <2>3 DEF CopyOK
  <2>5. PlaceOK(data, write_pointer, w, r[q].id, b, Num(data, rp.ptr))
    <3> DEFINE k == Num(data, rp.ptr)
    <3>1. k \in Nat /\ k <= Num(data, r[q].rp.ptr)
      BY <2>1, <2>2
    <3> HIDE DEF k
    <3>2. PlaceOK(data, write_pointer, w, r[q].id, b, k)
      BY <1>1, <1>7, <3>1, BehindMessage DEF b
    <3> QED BY <3>2 DEF k
  <2> QED BY <1>5, <2>3, <2>4, <2>5 DEF ReaderOK, Flight, Pos, Last
<1> QED BY <1>1, <1>2, <1>6, <1>7 DEF OwnKeeps

\* The flag after the copy: a message that is handed out was whole.
LEMMA DeliverKeeps ==
  ASSUME MsgqIInv, NEW q \in Readers, CheckData(q) \/ Deliver(q)
  PROVE  OwnKeeps(q)
<1> DEFINE rp == read_pointers[id(q)]
           g  == got[q]
<1>0. MsgqTypes
  BY DEF MsgqIInv
<1>1. r[q].pc \in {"valid_data", "deliver"} /\ UNCHANGED <<read_pointers, read_valids>>
  BY DEF CheckData, Deliver, header
<1>2. /\ id(q) = r[q].id /\ g <= Top /\ g \in Nat /\ r[q] \in ReaderRecs
      /\ got \in [Readers -> 0 .. MAX_SENT]
      /\ read_valids[id(q)] => ReaderOK(data, write_pointer, w, Top, r[q], rp, g)
  BY <1>1, CallFacts DEF Unslotted
<1>3. read_valids[id(q)] =>
        PlaceOK(data, write_pointer, w, r[q].id, rp, r[q].copy[1].msg)
  BY <1>1, <1>2 DEF ReaderOK, Placed, Pos, Last
<1>4. CASE CheckData(q)
  <2>0. got' = got /\ r[q].pc = "valid_data" /\ "deliver" \in ReaderPcs /\ "reset" \in ReaderPcs
    BY <1>4 DEF CheckData, ReaderPcs
  <2>1. CASE read_valids[id(q)]
    <3>1. Goto(q, "deliver")
      BY <1>4, <2>1 DEF CheckData
    <3>2. /\ r'[q].pc = "deliver" /\ r'[q].id = r[q].id /\ r'[q].size = r[q].size
          /\ r'[q].copy = r[q].copy
      BY <1>0, <2>0, <3>1, GotoFields
    <3>3. CopyOK(r'[q], Top, g)
      BY <1>2, <2>0, <2>1, <3>2 DEF ReaderOK, CopyOK
    <3>4. LocalOK(r'[q], Top, g)
      BY <1>2, <3>2, <3>3 DEF LocalOK
    <3>5. ReaderOK(data, write_pointer, w, Top, r'[q], rp, g)
      BY <1>3, <2>1, <3>2 DEF ReaderOK, Flight, Pos, Last
    <3> QED BY <1>1, <2>0, <3>4, <3>5 DEF OwnKeeps
  <2>2. CASE ~read_valids[id(q)]
    <3>1. r'[q] = ReaderAt("reset", r[q].id)
      BY <1>0, <1>4, <2>2 DEF CheckData, MsgqTypes
    <3>2. r'[q].pc = "reset"
      BY <3>1, ReaderAtFields
    <3> QED BY <1>1, <1>2, <2>0, <2>2, <3>2, RestReader DEF OwnKeeps
  <2> QED BY <2>1, <2>2
<1>5. CASE Deliver(q)
  <2>1. r[q].pc = "deliver" /\ got'[q] = r[q].copy[1].msg
    BY <1>2, <1>5 DEF Deliver
  <2>2. r'[q] = ReaderAt("idle", r[q].id)
    BY <1>0, <1>5 DEF Deliver, MsgqTypes
  <2>3. r'[q].pc = "idle" /\ r'[q].id = r[q].id
    BY <2>2, ReaderAtFields
  <2>4. got'[q] <= Top
    BY <2>1, OwnFacts DEF LocalOK, CopyOK
  <2> QED BY <1>1, <1>2, <1>3, <2>1, <2>3, <2>4, RestReader DEF OwnKeeps
<1> QED BY <1>4, <1>5

-----------------------------------------------------------------------------
(* Every step keeps the invariant.                                         *)

\* A step inside a call touches no slot but the subscriber's own, and two
\* subscribers that hold slots hold different ones.
LEMMA InCallKeepsAll ==
  ASSUME MsgqIInv, NEW q \in Readers, InCallStep(q)
  PROVE  MsgqIInv'
<1>1. MsgqTypes' /\ Own(q) /\ Inside(q)
  BY InCallTypes
<1>2. SlotInv' /\ Holds(q) /\ \A o \in Readers : Live(o)' => Calm /\ Holds(o)
  BY <1>1, InCallSlots
<1>3. OwnKeeps(q)
  BY ResetKeeps, LoadKeeps, CheckTagKeeps, StoreWrapKeeps, StoreSkipKeeps, CopyOutKeeps,
     StoreReadPointerKeeps, DeliverKeeps DEF InCallStep
<1>4. data' = data /\ write_pointer' = write_pointer /\ w' = w /\ sent' = sent /\ Top' = Top
  BY <1>1 DEF Own, Top
<1>5. SegmentInv' /\ WriterInv'
  BY <1>4 DEF MsgqIInv, SegmentInv, WriterInv
<1>6. LocalInv'
  <2> SUFFICES ASSUME NEW o \in Readers PROVE LocalOK(r'[o], Top, got'[o])
    BY <1>4 DEF LocalInv
  <2>1. CASE o = q
    BY <1>3, <2>1 DEF OwnKeeps
  <2>2. CASE o # q
    BY <1>1, <2>2 DEF Own, MsgqIInv, LocalInv
  <2> QED BY <2>1, <2>2
<1>7. ReaderInv'
  <2> SUFFICES ASSUME NEW o \in Readers, Live(o)'
               PROVE  ReaderOK(data, write_pointer, w, Top, r[o], read_pointers[id(o)], got[o])'
    BY DEF ReaderInv
  <2>1. CASE o = q
    <3>1. id(q)' = id(q) /\ read_valids'[id(q)]
      BY <1>1, <2>1 DEF Live, Inside, id
    <3>2. ReaderOK(data, write_pointer, w, Top, r'[q], read_pointers'[id(q)], got'[q])
      BY <1>3, <3>1 DEF OwnKeeps
    <3> QED BY <1>4, <2>1, <3>1, <3>2
  <2>2. CASE o # q
    <3>1. r'[o] = r[o] /\ got'[o] = got[o] /\ id(o)' = id(o)
      BY <1>1, <2>2 DEF Own, id
    <3>2. id(o) # id(q) /\ id(o) \in Slots /\ Calm /\ Holds(o)
      BY <1>2, <2>2, OwnFacts DEF Holds, id
    <3>3. read_pointers'[id(o)] = read_pointers[id(o)] /\ read_valids'[id(o)] = read_valids[id(o)]
      BY <1>1, <3>2 DEF Own
    <3>4. Live(o)
      BY <3>1, <3>2, <3>3 DEF Live
    <3>5. ReaderOK(data, write_pointer, w, Top, r[o], read_pointers[id(o)], got[o])
      BY <3>4 DEF MsgqIInv, ReaderInv
    <3> QED BY <1>4, <3>1, <3>3, <3>5
  <2> QED BY <2>1, <2>2
<1> QED BY <1>1, <1>2, <1>5, <1>6, <1>7 DEF MsgqIInv

LEMMA SparesKeepsAll ==
  ASSUME MsgqIInv, NEW q \in Readers, MsgqTypes', SlotInv', Spares(q)
  PROVE  MsgqIInv'
<1>1. /\ data' = data /\ write_pointer' = write_pointer /\ w' = w /\ sent' = sent /\ Top' = Top
      /\ got' = got /\ r'[q].pc \in Unslotted \cup {"reset"}
      /\ \A o \in Readers \ {q} : r'[o] = r[o]
  BY DEF Spares, Top
<1>2. SegmentInv' /\ WriterInv'
  BY <1>1 DEF MsgqIInv, SegmentInv, WriterInv
<1>3. LocalInv'
  <2> SUFFICES ASSUME NEW o \in Readers PROVE LocalOK(r'[o], Top, got[o])
    BY <1>1 DEF LocalInv
  <2>1. CASE o = q
    <3>1. got[q] <= Top
      BY OwnFacts DEF LocalOK
    <3> QED BY <1>1, <2>1, <3>1 DEF LocalOK, Unslotted
  <2>2. CASE o # q
    BY <1>1, <2>2 DEF MsgqIInv, LocalInv
  <2> QED BY <2>1, <2>2
<1>4. ReaderInv'
  <2> SUFFICES ASSUME NEW o \in Readers, Live(o)'
               PROVE  ReaderOK(data, write_pointer, w, Top, r[o], read_pointers[id(o)], got[o])'
    BY DEF ReaderInv
  <2>1. CASE o = q
    <3>1. r'[q].pc = "reset"
      BY <1>1, <2>1 DEF Live, Holds, Unslotted
    <3> QED BY <2>1, <3>1, RestReader
  <2>2. CASE o # q
    <3>1. Live(o) /\ read_pointers'[id(o)] = read_pointers[id(o)] /\ r'[o] = r[o]
      BY <2>2 DEF Spares
    <3>2. id(o)' = id(o)
      BY <3>1 DEF id
    <3>3. ReaderOK(data, write_pointer, w, Top, r[o], read_pointers[id(o)], got[o])
      BY <3>1 DEF MsgqIInv, ReaderInv
    <3> QED BY <1>1, <3>1, <3>2, <3>3
  <2> QED BY <2>1, <2>2
<1> QED BY <1>2, <1>3, <1>4 DEF MsgqIInv

LEMMA FoundKeepsAll ==
  ASSUME MsgqIInv, SETTLED, NEW q \in Readers, CheckUid(q), read_uids[id(q)] = q
  PROVE  MsgqIInv'
<1>1. /\ MsgqTypes' /\ SlotInv' /\ Own(q)
      /\ r'[q] = [r[q] EXCEPT !.pc = "valid"]
      /\ \A o \in Readers : Live(o)' => Live(o)
  BY FoundSlots
<1>2. /\ UNCHANGED <<data, write_pointer, w, sent, got, read_pointers>> /\ Top' = Top
      /\ r[q].pc \in {"uid", "idle"}
  BY DEF CheckUid, header, Top
<1>3. r'[q].pc = "valid" /\ r'[q].id = r[q].id /\ \A o \in Readers : id(o)' = id(o)
  <2>1. r'[q].pc = "valid" /\ r'[q].id = r[q].id
    BY <1>1, OwnFacts DEF ReaderRecs
  <2> QED BY <1>1, <2>1 DEF Own, id
<1>4. SegmentInv' /\ WriterInv'
  BY <1>2 DEF MsgqIInv, SegmentInv, WriterInv
<1>5. LocalInv'
  <2> SUFFICES ASSUME NEW o \in Readers PROVE LocalOK(r'[o], Top, got[o])
    BY <1>2 DEF LocalInv
  <2>1. CASE o = q
    <3>1. got[q] <= Top
      BY OwnFacts DEF LocalOK
    <3> QED BY <1>3, <2>1, <3>1, RestReader
  <2>2. CASE o # q
    BY <1>1, <2>2 DEF Own, MsgqIInv, LocalInv
  <2> QED BY <2>1, <2>2
<1>6. ReaderInv'
  <2> SUFFICES ASSUME NEW o \in Readers, Live(o)'
               PROVE  ReaderOK(data, write_pointer, w, Top, r'[o], read_pointers[id(o)], got[o])
    BY <1>2, <1>3 DEF ReaderInv
  <2>1. ReaderOK(data, write_pointer, w, Top, r[o], read_pointers[id(o)], got[o])
    BY <1>1 DEF MsgqIInv, ReaderInv
  <2>2. CASE o = q
    BY <1>2, <1>3, <2>1, <2>2, RestReader
  <2>3. CASE o # q
    BY <1>1, <2>1, <2>3 DEF Own
  <2> QED BY <2>2, <2>3
<1> QED BY <1>1, <1>4, <1>5, <1>6 DEF MsgqIInv

LEMMA MsgqInit == Init => MsgqIInv
<1> SUFFICES ASSUME Init PROVE MsgqIInv
  OBVIOUS
<1>1. MsgqTypes
  BY InitTypes
<1>2. w.pc = "down" /\ \A q \in Readers : r[q].pc = "down" /\ got[q] = 0
  BY ReaderAtFields, WriterAtFields DEF Init
<1>3. \A q \in Readers : ~Holds(q) /\ ~InCall(q) /\ ~Evicting(q) /\ ~Claiming(q)
  BY <1>2 DEF Holds, InCall, Evicting, Claiming
<1>4. SlotInv
  BY <1>2, <1>3 DEF SlotInv, EvictionIsAlone, StartIsAlone, ClaimsAreApart, CallersHold,
                    HolderIsCounted
<1>5. Top = 0
  BY <1>2 DEF Init, Top, Pub, Sending
<1>6. SegmentInv
  <2>1. write_pointer.ptr = 0 /\ \A a \in Addr : data[a] = Zero
    BY DEF Init, At, Addr
  <2> QED BY <2>1, CellKinds DEF SegmentInv, SegmentOK
<1>7. WriterInv
  BY <1>2 DEF WriterInv, WriterOK, Sending
<1>8. LocalInv
  <2> SUFFICES ASSUME NEW q \in Readers PROVE LocalOK(r[q], Top, got[q])
    BY DEF LocalInv
  <2>1. r[q].pc = "down" /\ got[q] <= Top
    BY <1>2, <1>5
  <2> QED BY <2>1 DEF LocalOK
<1>9. ReaderInv
  BY <1>3 DEF ReaderInv, Live
<1> QED BY <1>1, <1>4, <1>6, <1>7, <1>8, <1>9 DEF MsgqIInv

LEMMA MsgqStep ==
  ASSUME MsgqIInv, SETTLED, [Next]_vars
  PROVE  MsgqIInv'
<1>1. CASE Writer \/ (\E s \in Sizes : msgq_msg_send(s)) \/ WriterDies
  BY <1>1, WriterStep DEF WriterMoves
<1>2. ASSUME NEW q \in Readers, Subscriber(q) PROVE MsgqIInv'
  <2>1. CASE InCallStep(q)
    BY <2>1, InCallKeepsAll
  <2>2. CASE QuietStep(q)
    BY <2>2, QuietSlots, SparesKeepsAll
  <2>3. CASE EvictAll(q) \/ EvictUid(q) \/ Claim(q) \/ NewUid(q)
    BY <2>3, EvictAllSlots, EvictUidSlots, ClaimSlots, NewUidSlots, SparesKeepsAll
  <2>4. CASE CheckUid(q)
    BY <2>4, FoundKeepsAll, EvictedSlots, SparesKeepsAll
  <2> QED BY <1>2, <2>1, <2>2, <2>3, <2>4 DEF Subscriber, InCallStep, QuietStep
<1>3. ASSUME NEW q \in Readers, ReaderDies(q) PROVE MsgqIInv'
  BY <1>3, ReaderDiesSlots, SparesKeepsAll
<1>4. CASE UNCHANGED vars
  <2> USE <1>4 DEF vars, header
  <2>1. MsgqTypes'
    BY DEF MsgqIInv, MsgqTypes
  <2>2. SlotInv'
    BY DEF MsgqIInv, SlotInv, EvictionIsAlone, StartIsAlone, ClaimsAreApart, CallersHold,
           HolderIsCounted, Holds, InCall, Evicting, Claiming, id
  <2>3. SegmentInv' /\ WriterInv' /\ LocalInv'
    BY DEF MsgqIInv, SegmentInv, WriterInv, LocalInv, Top
  <2>4. ReaderInv'
    BY DEF MsgqIInv, ReaderInv, Live, Calm, Evicting, Holds, id, Top
  <2> QED BY <2>1, <2>2, <2>3, <2>4 DEF MsgqIInv
<1> QED BY <1>1, <1>2, <1>3, <1>4 DEF Next

-----------------------------------------------------------------------------
(* The theorems.                                                           *)

\* A copy that is whole is the sequence of the words of its message.
LEMMA CopyIsIntact ==
  ASSUME MsgqIInv, NEW q \in Readers, r[q].pc = "deliver"
  PROVE  Intact(q) /\ r[q].copy[1].msg > got[q]
<1>1. CopyOK(r[q], Top, got[q]) /\ r[q].copy \in Seq(Cells) /\ got[q] \in Nat
  BY OwnFacts DEF LocalOK
<1>2. r[q].copy = [i \in 1 .. r[q].size |-> r[q].copy[i]]
  <2> DEFINE c == r[q].copy
  <2>1. c \in Seq(Cells) /\ Len(c) = r[q].size
    BY <1>1 DEF CopyOK
  <2> HIDE DEF c
  <2>2. c = [i \in 1 .. Len(c) |-> c[i]]
    BY <2>1
  <2> QED BY <2>1, <2>2 DEF c
<1>3. Intact(q)
  BY <1>1, <1>2 DEF CopyOK, Intact
<1>4. r[q].copy[1].msg > got[q]
  BY <1>1 DEF CopyOK
<1> QED BY <1>3, <1>4

\* The four parts together are an invariant of the queue.
THEOREM MsgqInvariant ==
  ASSUME SETTLED
  PROVE  Spec => []MsgqIInv
<1>1. MsgqIInv /\ [Next]_vars => MsgqIInv'
  BY MsgqStep
<1> QED BY <1>1, MsgqInit, PTL DEF Spec

\* Every offset that msgq_msg_send and msgq_msg_recv compute lies in the data
\* segment, with a cell left for the wrap-around tag.
THEOREM MsgqTypeCorrect ==
  ASSUME SETTLED
  PROVE  Spec => []MsgqTypeOK
<1>1. MsgqIInv => MsgqTypeOK
  <2> SUFFICES ASSUME MsgqIInv PROVE MsgqTypeOK
    OBVIOUS
  <2>1. MsgqTypes
    BY DEF MsgqIInv
  <2>2. \A q \in Readers : /\ r[q].pc \in ReaderPcs /\ r[q].id \in Slots
                           /\ r[q].rp \in Pointers /\ r[q].wp \in Pointers
    BY <2>1, ReaderFields DEF MsgqTypes
  <2>3. w.pc \in WriterPcs /\ w.size \in Sizes \cup {0} /\ w.n \in 0 .. NUM_READERS
    BY <2>1, WriterFields DEF MsgqTypes
  <2>4. \A a \in 0 .. SIZE - 1 : data[a] \in Cells
    BY <2>1 DEF MsgqTypes, Addr
  <2> QED BY <2>1, <2>2, <2>3, <2>4 DEF MsgqTypes, MsgqTypeOK
<1> QED BY <1>1, MsgqInvariant, PTL

\* A message that msgq_msg_recv returns is one that was sent, whole, whatever the
\* publisher overwrote while it was copied, and no payload was taken for a size:
\* the flag read again after the copy is enough, without a lock.
THEOREM NothingTornIsDelivered ==
  ASSUME SETTLED
  PROVE  Spec => []DeliveredIntact
<1>1. MsgqIInv => DeliveredIntact
  <2> SUFFICES ASSUME MsgqIInv, NEW q \in Readers
               PROVE  r[q].pc # "abort" /\ (r[q].pc = "deliver" => Intact(q))
    BY DEF DeliveredIntact
  <2>1. r[q].pc # "abort"
    BY OwnFacts DEF LocalOK
  <2> QED BY <2>1, CopyIsIntact
<1> QED BY <1>1, MsgqInvariant, PTL

\* msgq_msg_recv never returns a message again and never an older one, across
\* laps, resets, evictions and restarts of either side.
THEOREM DeliveryIsInOrder ==
  ASSUME SETTLED
  PROVE  Spec => []DeliveredInOrder
<1>1. MsgqIInv => DeliveredInOrder
  BY CopyIsIntact DEF DeliveredInOrder
<1> QED BY <1>1, MsgqInvariant, PTL
=============================================================================
