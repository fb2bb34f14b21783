--------------------------- MODULE Kyouko3IrqProofs ---------------------------
(***************************************************************************)
(* Proofs about Kyouko3Irq, wherever dma_intr may arrive: in the middle of *)
(* a FIFO_WRITE, of a flush or of start_dma's critical section.  IInv      *)
(* holds until the handler has had commands of its own to write there,     *)
(* which is what mixed records.  For every number of buffers, requests and *)
(* triangles, and every FIFO longer than the buffers' commands.            *)
(***************************************************************************)
EXTENDS Kyouko3Irq, SequenceTheorems, TLAPS

Entries == 0 .. FIFO_ENTRIES - 1
EntryType == [command : Commands, value : Values]

\* The number of entries from i up to j, and the entry i places on, in ring
\* order.
Gap(i, j) == IF i <= j THEN j - i ELSE FIFO_ENTRIES + j - i
Place(i) == IF i < FIFO_ENTRIES THEN i ELSE i - FIFO_ENTRIES

\* The same in the ring of buffers, from drain on.
Slot(k) == IF drain + k < DMA_NUM_BUFFS THEN drain + k ELSE drain + k - DMA_NUM_BUFFS

\* Where the next entry goes: head, but for the moment before it wraps.
End == Place(head)

\* What the process has still to write after the entries in front of End.
Rest == IF access = "wrap" THEN Tail(todo) ELSE todo

Unread == Gap(FifoTail, End)

\* All that the card has still to execute, in the ring or not yet in it.
Stream ==
  [k \in 1 .. Unread + Len(Rest) |->
     IF k <= Unread THEN ring[Place(FifoTail + k - 1)] ELSE Rest[k - Unread]]

\* Buffers queued, without the one start_dma has counted and not yet placed.
Placed == IF pc = "locked" THEN queued_count - 1 ELSE queued_count

\* Buffers drawn and taken off the ring by the handler.
Handled == IF status THEN Len(drawn) - 1 ELSE Len(drawn)

\* The points of a request from its triangles to start_dma's critical section,
\* and those of its flush.
Flushing == {"flush", "flush_write", "poll"}
Preparing == Flushing \cup {"start", "locked"}

\* While FIFO_WRITE is under way its entry is written where it should be.
WriteInv ==
  /\ access = "none" <=> todo = <<>>
  /\ access # "none" => pc \in {"flush", "submit"}
  /\ access \in {"value", "head"} => ring[head].command = Head(todo).command
  /\ access = "head" => ring[head].value = Head(todo).value
  /\ loaded => register = head /\ access \in {"command", "value", "head"}
  /\ pc = "flush_write" => register = head

\* The indices, the count and main.c's request agree.
CountInv ==
  /\ Placed \in 0 .. DMA_NUM_BUFFS
  /\ Placed = DMA_NUM_BUFFS => pc = "not_full"
  /\ fill = Slot(Placed)
  /\ Handled \in Nat
  /\ request = IF pc \in {"submit", "not_full"} THEN Handled + Placed
                                                ELSE Handled + Placed + 1
  /\ pc \notin {"submit", "not_full"} => u_base = fill
  /\ pc \in {"start", "locked", "submit", "not_full"} => request <= U_NUM_BUFFS

\* The commands of the buffer being submitted: both, or the second.
Address == Entry("BufferAAddress", drain)
Config == Entry("BufferAConfig", Handled + 1)
Flush == Entry("RasterFlush", 0)

\* What the stream may be: commands of at most one buffer, and at most one
\* flush, before them or behind.
Shape(p, f) ==
  \/ p = 0 /\ f = 0 /\ Stream = <<>>
  \/ p = 0 /\ f = 1 /\ Stream = <<Flush>>
  \/ p = 1 /\ f = 0 /\ Stream = <<Config>>
  \/ p = 1 /\ f = 1 /\ Stream = <<Config, Flush>>
  \/ p = 2 /\ f = 0 /\ Stream = <<Address, Config>>
  \/ p = 2 /\ f = 1 /\ Stream = <<Address, Config, Flush>>
  \/ p = 2 /\ f = 1 /\ Stream = <<Flush, Address, Config>>

\* One buffer at a time is on its way to the card, being drawn, or drawn and
\* waiting for the handler; every flush is executed or in the stream.
Token(p, f) ==
  /\ Shape(p, f)
  /\ p > 0 => dma = NoDraw /\ ~status /\ Placed > 0
  /\ Placed > 0 /\ dma = NoDraw /\ ~status => p > 0
  /\ p = 1 => address = drain
  /\ flushes + f = IF pc = "fill" THEN request - 1 ELSE request
  /\ f = 1 => pc \in Flushing

StreamInv ==
  /\ \E p \in 0 .. 2, f \in 0 .. 1 : Token(p, f)
  /\ dma # NoDraw =>
       dma = [buffer |-> drain, count |-> Handled + 1] /\ ~status /\ Placed > 0
  /\ status => Placed > 0

\* The buffers of the ring hold successive requests, with their counts.
BufferInv ==
  /\ \A k \in 0 .. Placed - 1 : data[Slot(k)] = Contents(Handled + 1 + k, Counted(0))
  /\ \A k \in 1 .. Placed - 1 : stored_count[Slot(k)] = Handled + 1 + k
  /\ pc \in Preparing /\ request <= U_NUM_BUFFS => data[fill] = Contents(request, Counted(0))

\* How far the ring has moved since tail_cache was read, with what is to be
\* written and two commands for each buffer that waits: always less than a lap.
Lag == Gap(tail_cache, End)
Waiting == IF Placed = 0 THEN 0 ELSE Placed - 1
Allowance ==
  CASE pc \in Flushing                       -> 2 * DMA_NUM_BUFFS - 1
    [] pc \in {"fill", "submit", "not_full"} -> 2 * DMA_NUM_BUFFS - 2
    [] OTHER                                 -> 2 * DMA_NUM_BUFFS - 4

LagInv ==
  /\ Lag + Len(Rest) + 2 * Waiting <= Allowance
  /\ Unread <= Lag
  /\ Gap(FifoTail, FifoHead) <= Unread

DrawnInv ==
  \A i \in 1 .. Len(drawn) : drawn[i] = [data |-> Contents(i, Counted(0)), count |-> i]

IInv == Typed /\ WriteInv /\ CountInv /\ StreamInv /\ BufferInv /\ LagInv /\ DrawnInv

-----------------------------------------------------------------------------
(* The arithmetic of the two rings. *)

\* The FIFO has at least five entries.
LEMMA Sizes ==
  /\ FIFO_ENTRIES \in Nat /\ DMA_NUM_BUFFS \in Nat
  /\ DMA_NUM_BUFFS >= 2 /\ FIFO_ENTRIES > 2 * DMA_NUM_BUFFS
  /\ U_NUM_BUFFS \in Nat /\ U_NUM_TRIANGLES \in Nat
  /\ CountRange \in Nat /\ CountRange > 0
BY IrqAssumption DEF IrqAssumption

LEMMA PlaceStays ==
  ASSUME NEW i \in 0 .. 2 * FIFO_ENTRIES - 1
  PROVE  Place(i) \in Entries
BY Sizes DEF Place, Entries

\* Two places less than a lap apart are different entries.
LEMMA PlaceApart ==
  ASSUME NEW i \in 0 .. 2 * FIFO_ENTRIES - 1, NEW j \in 0 .. 2 * FIFO_ENTRIES - 1,
         i < j, j < i + FIFO_ENTRIES
  PROVE  Place(i) # Place(j)
BY Sizes DEF Place

LEMMA AdvanceStays ==
  ASSUME NEW i \in Entries
  PROVE  Advance(i) \in Entries /\ Place(i) = i /\ Place(i + 1) = Advance(i)
BY Sizes DEF Entries, Advance, Place

\* One entry on is one place on.
LEMMA PlaceAdvances ==
  ASSUME NEW t \in Entries, NEW k \in 1 .. FIFO_ENTRIES - 1
  PROVE  Place(Advance(t) + k - 1) = Place(t + (k + 1) - 1)
BY Sizes DEF Advance, Entries, Place

LEMMA GapBounds ==
  ASSUME NEW i \in Entries, NEW j \in Entries
  PROVE  /\ Gap(i, j) \in 0 .. FIFO_ENTRIES - 1
         /\ Gap(i, j) = 0 <=> i = j
         /\ Place(i + Gap(i, j)) = j
BY Sizes DEF Entries, Gap, Place

LEMMA GapGrows ==
  ASSUME NEW i \in Entries, NEW j \in Entries, Gap(i, j) < FIFO_ENTRIES - 1
  PROVE  Gap(i, Advance(j)) = Gap(i, j) + 1
BY Sizes DEF Entries, Gap, Advance

LEMMA GapShrinks ==
  ASSUME NEW i \in Entries, NEW j \in Entries, i # j
  PROVE  Gap(Advance(i), j) = Gap(i, j) - 1
BY Sizes DEF Entries, Gap, Advance

\* The card's way of advancing, and that of the buffers' indices.
LEMMA Modulo ==
  ASSUME NEW n \in Nat, n > 0, NEW i \in 0 .. n - 1
  PROVE  (i + 1) % n = IF i + 1 = n THEN 0 ELSE i + 1
<1>1. ASSUME i + 1 < n
      PROVE  (i + 1) % n = i + 1
  BY <1>1, SMTT(30)
<1>2. ASSUME i + 1 = n
      PROVE  (i + 1) % n = 0
  BY <1>2, SMTT(30)
<1> QED BY <1>1, <1>2

LEMMA TailAdvances ==
  ASSUME NEW i \in Entries
  PROVE  (i + 1) % FIFO_ENTRIES = Advance(i)
<1>1. (i + 1) % FIFO_ENTRIES = IF i + 1 = FIFO_ENTRIES THEN 0 ELSE i + 1
  BY Sizes, Modulo DEF Entries
<1> QED BY <1>1, Sizes DEF Entries, Advance

-----------------------------------------------------------------------------
(* What the card will execute, as a sequence of its own: n entries of the    *)
(* ring r from t on, then s.                                                 *)

RingType == [0 .. FIFO_ENTRIES -> EntryType]

Joined(r, t, n, s) ==
  [k \in 1 .. n + Len(s) |-> IF k <= n THEN r[Place(t + k - 1)] ELSE s[k - n]]

\* The sequence q is the one so joined.
Reads(q, r, t, n, s) ==
  /\ q \in Seq(EntryType) /\ Len(q) = n + Len(s)
  /\ \A k \in 1 .. n : q[k] = r[Place(t + k - 1)]
  /\ \A k \in 1 .. Len(s) : q[n + k] = s[k]

LEMMA JoinedReads ==
  ASSUME NEW r \in RingType, NEW t \in Entries, NEW n \in 0 .. FIFO_ENTRIES,
         NEW s \in Seq(EntryType)
  PROVE  Reads(Joined(r, t, n, s), r, t, n, s)
<1>0. n \in Nat /\ Len(s) \in Nat
  BY Sizes, LenProperties
<1>1. \A k \in 1 .. n : r[Place(t + k - 1)] \in EntryType
  <2> TAKE k \in 1 .. n
  <2>1. t + k - 1 \in 0 .. 2 * FIFO_ENTRIES - 1
    BY Sizes DEF Entries
  <2>2. Place(t + k - 1) \in 0 .. FIFO_ENTRIES
    BY <2>1, PlaceStays, Sizes DEF Entries
  <2> QED BY <2>2 DEF RingType
<1>2. \A k \in 1 .. Len(s) : s[k] \in EntryType
  BY ElementOfSeq
<1>3. Joined(r, t, n, s) \in [1 .. n + Len(s) -> EntryType]
  <2> SUFFICES ASSUME NEW k \in 1 .. n + Len(s)
               PROVE  (IF k <= n THEN r[Place(t + k - 1)] ELSE s[k - n]) \in EntryType
    BY DEF Joined
  <2>1. CASE k <= n
    BY <1>0, <1>1, <2>1
  <2>2. CASE ~(k <= n)
    <3>1. k - n \in 1 .. Len(s)
      BY <1>0, <2>2
    <3> QED BY <1>2, <2>2, <3>1
  <2> QED BY <2>1, <2>2
<1>4. Joined(r, t, n, s) \in Seq(EntryType)
  BY <1>0, <1>3, SeqDef
<1>5. Len(Joined(r, t, n, s)) = n + Len(s)
  BY <1>0, <1>3, <1>4, LenProperties
<1>6. \A k \in 1 .. n : Joined(r, t, n, s)[k] = r[Place(t + k - 1)]
  BY <1>0 DEF Joined
<1>7. \A k \in 1 .. Len(s) : Joined(r, t, n, s)[n + k] = s[k]
  <2> TAKE k \in 1 .. Len(s)
  <2>1. n + k \in 1 .. n + Len(s) /\ ~(n + k <= n) /\ (n + k) - n = k
    BY <1>0
  <2> QED BY <2>1 DEF Joined
<1> QED BY <1>4, <1>5, <1>6, <1>7 DEF Reads

LEMMA ReadsUnique ==
  ASSUME NEW r, NEW t, NEW n \in Nat, NEW s \in Seq(EntryType), NEW q, NEW u,
         Reads(q, r, t, n, s), Reads(u, r, t, n, s)
  PROVE  q = u
<1>0. Len(s) \in Nat /\ Len(q) = n + Len(s) /\ Len(u) = n + Len(s)
  BY LenProperties DEF Reads
<1>1. \A k \in 1 .. Len(q) : q[k] = u[k]
  <2> TAKE k \in 1 .. Len(q)
  <2>1. CASE k <= n
    BY <1>0, <2>1 DEF Reads
  <2>2. CASE ~(k <= n)
    <3>1. k - n \in 1 .. Len(s) /\ n + (k - n) = k
      BY <1>0, <2>2
    <3> QED BY <3>1 DEF Reads
  <2> QED BY <2>1, <2>2
<1> QED BY <1>0, <1>1, SeqEqual DEF Reads

\* An entry that is not yet part of the stream may be written.
LEMMA OutsideKept ==
  ASSUME NEW r \in RingType, NEW t \in Entries, NEW n \in 0 .. FIFO_ENTRIES - 1,
         NEW s \in Seq(EntryType), NEW e \in EntryType
  PROVE  Joined([r EXCEPT ![Place(t + n)] = e], t, n, s) = Joined(r, t, n, s)
<1>0. PICK new : new = [r EXCEPT ![Place(t + n)] = e]
  OBVIOUS
<1>1. /\ n \in 0 .. FIFO_ENTRIES /\ n \in Nat
      /\ t + n \in 0 .. 2 * FIFO_ENTRIES - 1 /\ t \in Nat
  BY Sizes DEF Entries
<1>2. Place(t + n) \in 0 .. FIFO_ENTRIES /\ new \in RingType
  BY <1>0, <1>1, PlaceStays, Sizes DEF RingType, Entries
<1>3. Reads(Joined(new, t, n, s), new, t, n, s)
  BY <1>1, <1>2, JoinedReads, Zenon
<1>4. \A k \in 1 .. n : new[Place(t + k - 1)] = r[Place(t + k - 1)]
  <2> TAKE k \in 1 .. n
  <2>1. t + k - 1 \in 0 .. 2 * FIFO_ENTRIES - 1
        /\ t + k - 1 < t + n /\ t + n < t + k - 1 + FIFO_ENTRIES
    BY <1>1, Sizes DEF Entries
  <2>2. Place(t + k - 1) # Place(t + n) /\ Place(t + k - 1) \in 0 .. FIFO_ENTRIES
    BY <1>1, <2>1, PlaceApart, PlaceStays, Sizes DEF Entries
  <2> QED BY <1>0, <2>2 DEF RingType
<1>5. Reads(Joined(new, t, n, s), r, t, n, s)
  BY <1>3, <1>4 DEF Reads
<1>6. Reads(Joined(r, t, n, s), r, t, n, s)
  BY <1>1, JoinedReads, Zenon
<1> QED BY <1>0, <1>1, <1>5, <1>6, ReadsUnique

\* The next of the entries to be written moves to the ring.
LEMMA EntryMoves ==
  ASSUME NEW r \in RingType, NEW t \in Entries, NEW n \in 0 .. FIFO_ENTRIES - 1,
         NEW s \in Seq(EntryType), s # <<>>, r[Place(t + n)] = Head(s)
  PROVE  Joined(r, t, n + 1, Tail(s)) = Joined(r, t, n, s)
<1>1. /\ n \in 0 .. FIFO_ENTRIES /\ n \in Nat /\ n + 1 \in 0 .. FIFO_ENTRIES /\ n + 1 \in Nat
      /\ t \in Nat
  BY Sizes DEF Entries
<1>2. /\ Head(s) = s[1] /\ Tail(s) \in Seq(EntryType) /\ Len(Tail(s)) = Len(s) - 1
      /\ \A k \in 1 .. Len(s) - 1 : Tail(s)[k] = s[k + 1]
  BY HeadTailProperties
<1>3. PICK q : q = Joined(r, t, n, s) /\ Reads(q, r, t, n, s)
  BY <1>1, JoinedReads, Zenon
<1>4. Len(s) \in Nat /\ Len(s) > 0
  BY LenProperties, EmptySeq
<1>5. q \in Seq(EntryType) /\ Len(q) = (n + 1) + Len(Tail(s))
  BY <1>1, <1>2, <1>3, <1>4 DEF Reads
<1>6. \A k \in 1 .. n + 1 : q[k] = r[Place(t + k - 1)]
  <2> TAKE k \in 1 .. n + 1
  <2>1. CASE k \in 1 .. n
    BY <1>3, <2>1 DEF Reads
  <2>2. CASE k = n + 1
    <3>1. q[n + 1] = s[1]
      BY <1>3, <1>4 DEF Reads
    <3>2. t + k - 1 = t + n
      BY <1>1, <2>2
    <3> QED BY <1>2, <2>2, <3>1, <3>2
  <2> QED BY <1>1, <2>1, <2>2
<1>7. \A k \in 1 .. Len(Tail(s)) : q[(n + 1) + k] = Tail(s)[k]
  <2> TAKE k \in 1 .. Len(Tail(s))
  <2>1. k + 1 \in 1 .. Len(s) /\ k \in 1 .. Len(s) - 1 /\ n + (k + 1) = (n + 1) + k
    BY <1>1, <1>2, <1>4
  <2>2. q[n + (k + 1)] = s[k + 1]
    BY <1>3, <2>1 DEF Reads
  <2> QED BY <1>2, <2>1, <2>2
<1>8. Reads(q, r, t, n + 1, Tail(s))
  BY <1>5, <1>6, <1>7 DEF Reads
<1>9. Reads(Joined(r, t, n + 1, Tail(s)), r, t, n + 1, Tail(s))
  BY <1>1, <1>2, JoinedReads, Zenon
<1> QED BY <1>1, <1>2, <1>3, <1>8, <1>9, ReadsUnique

\* A call of FIFO_WRITE appends its command.
LEMMA EntryAppended ==
  ASSUME NEW r \in RingType, NEW t \in Entries, NEW n \in 0 .. FIFO_ENTRIES,
         NEW s \in Seq(EntryType), NEW e \in EntryType
  PROVE  Joined(r, t, n, Append(s, e)) = Append(Joined(r, t, n, s), e)
<1>1. n \in Nat /\ Len(s) \in Nat
  BY Sizes, LenProperties
<1>2. PICK q : q = Joined(r, t, n, s) /\ Reads(q, r, t, n, s)
  BY JoinedReads, Zenon
<1>3. /\ Append(s, e) \in Seq(EntryType) /\ Len(Append(s, e)) = Len(s) + 1
      /\ \A k \in 1 .. Len(s) : Append(s, e)[k] = s[k]
      /\ Append(s, e)[Len(s) + 1] = e
  BY AppendProperties
<1>4. /\ Append(q, e) \in Seq(EntryType) /\ Len(Append(q, e)) = Len(q) + 1
      /\ \A k \in 1 .. Len(q) : Append(q, e)[k] = q[k]
      /\ Append(q, e)[Len(q) + 1] = e
  BY <1>2, AppendProperties DEF Reads
<1>5. Len(q) = n + Len(s)
  BY <1>2 DEF Reads
<1>6. \A k \in 1 .. n : Append(q, e)[k] = r[Place(t + k - 1)]
  <2> TAKE k \in 1 .. n
  <2>1. k \in 1 .. Len(q)
    BY <1>1, <1>5
  <2> QED BY <1>2, <1>4, <2>1 DEF Reads
<1>7. \A k \in 1 .. Len(s) + 1 : Append(q, e)[n + k] = Append(s, e)[k]
  <2> TAKE k \in 1 .. Len(s) + 1
  <2>1. CASE k \in 1 .. Len(s)
    <3>1. n + k \in 1 .. Len(q)
      BY <1>1, <1>5, <2>1
    <3> QED BY <1>2, <1>3, <1>4, <2>1, <3>1 DEF Reads
  <2>2. CASE k = Len(s) + 1
    <3>1. n + k = Len(q) + 1
      BY <1>1, <1>5, <2>2
    <3> QED BY <1>3, <1>4, <2>2, <3>1
  <2>3. k \in 1 .. Len(s) \/ k = Len(s) + 1
    BY <1>1
  <2> QED BY <2>1, <2>2, <2>3, Zenon
<1>8. Len(Append(q, e)) = n + Len(Append(s, e))
  BY <1>1, <1>3, <1>4, <1>5
<1>9. Reads(Append(q, e), r, t, n, Append(s, e))
  BY <1>3, <1>4, <1>6, <1>7, <1>8 DEF Reads
<1>10. Reads(Joined(r, t, n, Append(s, e)), r, t, n, Append(s, e))
  BY <1>3, JoinedReads, Zenon
<1> QED BY <1>1, <1>2, <1>3, <1>9, <1>10, ReadsUnique

\* The card takes the first.
LEMMA EntryTaken ==
  ASSUME NEW r \in RingType, NEW t \in Entries, NEW n \in 1 .. FIFO_ENTRIES - 1,
         NEW s \in Seq(EntryType)
  PROVE  /\ Joined(r, t, n, s) # <<>>
         /\ Head(Joined(r, t, n, s)) = r[t]
         /\ Tail(Joined(r, t, n, s)) = Joined(r, Advance(t), n - 1, s)
<1>1. /\ n \in 0 .. FIFO_ENTRIES /\ n - 1 \in 0 .. FIFO_ENTRIES /\ n \in Nat /\ n > 0
      /\ n - 1 \in Nat /\ Advance(t) \in Entries /\ Place(t) = t /\ t \in Nat
      /\ Len(s) \in Nat
  BY AdvanceStays, LenProperties, Sizes DEF Entries
<1>2. PICK q : q = Joined(r, t, n, s) /\ Reads(q, r, t, n, s)
  BY <1>1, JoinedReads, Zenon
<1>3. Len(q) = n + Len(s) /\ q \in Seq(EntryType)
  BY <1>2 DEF Reads
<1>4. q # <<>> /\ Head(q) = r[t]
  <2>1. t + 1 - 1 = t /\ 1 \in 1 .. n
    BY <1>1
  <2>2. Len(q) # 0 /\ q[1] = r[Place(t + 1 - 1)]
    BY <1>1, <1>2, <1>3, <2>1 DEF Reads
  <2> QED BY <1>1, <1>3, <2>1, <2>2, EmptySeq
<1>5. /\ Tail(q) \in Seq(EntryType) /\ Len(Tail(q)) = Len(q) - 1
      /\ \A k \in 1 .. Len(q) - 1 : Tail(q)[k] = q[k + 1]
  BY <1>3, <1>4, HeadTailProperties
<1>6. \A k \in 1 .. n - 1 : Tail(q)[k] = r[Place(Advance(t) + k - 1)]
  <2> TAKE k \in 1 .. n - 1
  <2>1. k + 1 \in 1 .. n /\ k \in 1 .. FIFO_ENTRIES - 1 /\ k \in 1 .. Len(q) - 1
    BY <1>1, <1>3, Sizes
  <2>2. Place(Advance(t) + k - 1) = Place(t + (k + 1) - 1)
    BY <2>1, PlaceAdvances
  <2>3. q[k + 1] = r[Place(t + (k + 1) - 1)]
    BY <1>2, <2>1 DEF Reads
  <2> QED BY <1>5, <2>1, <2>2, <2>3
<1>7. \A k \in 1 .. Len(s) : Tail(q)[(n - 1) + k] = s[k]
  <2> TAKE k \in 1 .. Len(s)
  <2>1. (n - 1) + k \in 1 .. Len(q) - 1 /\ ((n - 1) + k) + 1 = n + k
    BY <1>1, <1>3
  <2>2. q[n + k] = s[k]
    BY <1>2 DEF Reads
  <2> QED BY <1>5, <2>1, <2>2
<1>8. Len(Tail(q)) = (n - 1) + Len(s)
  BY <1>1, <1>3, <1>5
<1>9. Reads(Tail(q), r, Advance(t), n - 1, s)
  BY <1>5, <1>6, <1>7, <1>8 DEF Reads
<1>10. Reads(Joined(r, Advance(t), n - 1, s), r, Advance(t), n - 1, s)
  BY <1>1, JoinedReads, Zenon
<1> QED BY <1>1, <1>2, <1>4, <1>9, <1>10, ReadsUnique

-----------------------------------------------------------------------------
(* The accesses of FIFO_WRITE: the stream stays as it is. *)

LEMMA StreamJoined ==
  /\ Stream = Joined(ring, FifoTail, Unread, Rest)
  /\ Stream' = Joined(ring', FifoTail', Unread', Rest')
BY DEF Stream, Joined

\* Where things are, and that there is room.
LEMMA Fits ==
  ASSUME IInv
  PROVE  /\ ring \in RingType /\ FifoTail \in Entries /\ End \in Entries
         /\ tail_cache \in Entries /\ FifoHead \in Entries
         /\ access # "wrap" => head = End
         /\ Rest \in Seq(EntryType) /\ Len(Rest) \in Nat /\ Waiting \in Nat
         /\ Unread \in 0 .. FIFO_ENTRIES - 2 /\ Lag \in 0 .. FIFO_ENTRIES - 2
         /\ Lag + Len(Rest) + 2 * Waiting <= FIFO_ENTRIES - 2
         /\ Place(FifoTail + Unread) = End
<1> USE Sizes DEF IInv
<1>1. /\ ring \in RingType /\ FifoTail \in Entries /\ End \in Entries
      /\ tail_cache \in Entries /\ FifoHead \in Entries
      /\ access # "wrap" => head = End
  BY DEF Typed, RingType, EntryType, Entries, End, Place
<1>2. Rest \in Seq(EntryType) /\ Len(Rest) \in Nat
  <2>1. todo \in Seq(EntryType)
    BY DEF Typed, EntryType
  <2>2. CASE access = "wrap"
    <3>1. todo # <<>>
      BY <2>2 DEF WriteInv
    <3>2. Tail(todo) \in Seq(EntryType)
      BY <2>1, <3>1, HeadTailProperties
    <3> QED BY <2>2, <3>2, LenProperties DEF Rest
  <2>3. CASE access # "wrap"
    BY <2>1, <2>3, LenProperties DEF Rest
  <2> QED BY <2>2, <2>3
<1>3. Waiting \in Nat
  BY DEF CountInv, Waiting
<1>4. /\ Unread \in 0 .. FIFO_ENTRIES - 1 /\ Lag \in 0 .. FIFO_ENTRIES - 1
      /\ Place(FifoTail + Unread) = End
  BY <1>1, GapBounds DEF Unread, Lag
<1>5. Lag + Len(Rest) + 2 * Waiting <= FIFO_ENTRIES - 2
  <2>1. Allowance \in Int /\ Allowance <= 2 * DMA_NUM_BUFFS - 1
    BY DEF Allowance
  <2>2. Lag + Len(Rest) + 2 * Waiting <= Allowance
    BY DEF LagInv
  <2> QED BY <1>2, <1>3, <1>4, <2>1, <2>2
<1> QED BY <1>1, <1>2, <1>3, <1>4, <1>5 DEF LagInv

\* What a step leaves as it is when it only moves commands towards the card.
LEMMA Frame ==
  ASSUME IInv, Stream' = Stream, pc' = pc \/ (pc \in Flushing /\ pc' \in Flushing),
         UNCHANGED <<buffers, client, address, dma, status, flushes, drawn>>
  PROVE  CountInv' /\ StreamInv' /\ BufferInv' /\ DrawnInv'
<1> USE DEF IInv, buffers, client
<1>1. Placed' = Placed /\ Handled' = Handled
  BY DEF Placed, Handled, Flushing
<1>2. CountInv'
  BY <1>1 DEF CountInv, Slot, Flushing
<1>3. StreamInv'
  <2>1. ASSUME NEW p, NEW f, Token(p, f)
        PROVE  Token(p, f)'
    BY <1>1, <2>1 DEF Token, Shape, Address, Config, Flush, Flushing
  <2> QED BY <1>1, <2>1 DEF StreamInv
<1>4. BufferInv'
  BY <1>1 DEF BufferInv, Slot, Preparing
<1>5. DrawnInv'
  BY DEF DrawnInv
<1> QED BY <1>2, <1>3, <1>4, <1>5

LEMMA FifoWriteStep ==
  ASSUME IInv, FifoWrite
  PROVE  IInv'
<1>0. Typed /\ WriteInv /\ LagInv
  BY DEF IInv
<1> SUFFICES Typed' /\ WriteInv' /\ LagInv' /\ Stream' = Stream
  BY Frame DEF FifoWrite, fifo_write_load, fifo_write_command, fifo_write_value,
               fifo_write_head, fifo_write_wrap, IInv, card
<1> USE DEF buffers, client, card
<1>1. CASE fifo_write_load
  <2> USE <1>1 DEF fifo_write_load, fifo
  <2>1. head \in Entries /\ head = End
    BY Fits
  <2>2. End' = End /\ Rest' = Rest
    BY DEF End, Rest, Place
  <2>3. Typed'
    BY <1>0, <2>1 DEF Typed, Entries
  <2>4. WriteInv'
    BY <1>0 DEF WriteInv
  <2>5. LagInv'
    BY <1>0, <2>2 DEF LagInv, Lag, Unread, Waiting, Placed, Allowance, Gap
  <2>6. Stream' = Stream
    BY <2>2, StreamJoined DEF Unread, Gap
  <2> QED BY <2>3, <2>4, <2>5, <2>6
<1>2. ASSUME NEW e \in EntryType, ring' = [ring EXCEPT ![head] = e],
             access \in {"command", "value"}, access' \in {"value", "head"},
             UNCHANGED <<head, tail_cache, todo, pc, queued_count, FifoHead, FifoTail>>
      PROVE  LagInv' /\ Stream' = Stream
  <2>1. /\ ring \in RingType /\ FifoTail \in Entries /\ Rest \in Seq(EntryType)
        /\ Unread \in 0 .. FIFO_ENTRIES - 1 /\ Place(FifoTail + Unread) = head
    BY <1>2, Fits, Sizes
  <2>2. End' = End /\ Rest' = Rest
    BY <1>2 DEF End, Rest, Place
  <2>3. LagInv'
    BY <1>0, <1>2, <2>2 DEF LagInv, Lag, Unread, Waiting, Placed, Allowance, Gap
  <2>4. Joined([ring EXCEPT ![Place(FifoTail + Unread)] = e], FifoTail, Unread, Rest)
          = Joined(ring, FifoTail, Unread, Rest)
    BY <2>1, OutsideKept, Zenon
  <2>5. Unread' = Unread
    BY <1>2, <2>2 DEF Unread, Gap
  <2>6. Stream' = Stream
    BY <1>2, <2>1, <2>2, <2>4, <2>5, StreamJoined
  <2> QED BY <2>3, <2>6
<1>3. CASE fifo_write_command
  <2> USE <1>3 DEF fifo_write_command
  <2>1. register = head /\ head \in 0 .. FIFO_ENTRIES /\ Head(todo) \in EntryType
    <3>1. todo \in Seq(EntryType) /\ todo # <<>>
      BY <1>0 DEF Typed, WriteInv, EntryType
    <3>2. Head(todo) \in EntryType
      BY <3>1, HeadTailProperties, ElementOfSeq, EmptySeq, LenProperties
    <3> QED BY <1>0, <3>2 DEF Typed, WriteInv
  <2> DEFINE e == [ring[head] EXCEPT !.command = Head(todo).command]
  <2>2. e \in EntryType /\ ring' = [ring EXCEPT ![head] = e]
    BY <1>0, <2>1 DEF Typed, EntryType
  <2>3. e.command = Head(todo).command
    BY <1>0, <2>1 DEF Typed, EntryType
  <2> HIDE DEF e
  <2>4. Typed'
    BY <1>0, <2>1, <2>2 DEF Typed, EntryType
  <2>5. WriteInv'
    BY <1>0, <2>1, <2>2, <2>3 DEF WriteInv, Typed
  <2>6. LagInv' /\ Stream' = Stream
    BY <1>2, <2>2
  <2> QED BY <2>4, <2>5, <2>6
<1>4. CASE fifo_write_value
  <2> USE <1>4 DEF fifo_write_value
  <2>1. register = head /\ head \in 0 .. FIFO_ENTRIES /\ Head(todo) \in EntryType
    <3>1. todo \in Seq(EntryType) /\ todo # <<>>
      BY <1>0 DEF Typed, WriteInv, EntryType
    <3>2. Head(todo) \in EntryType
      BY <3>1, HeadTailProperties, ElementOfSeq, EmptySeq, LenProperties
    <3> QED BY <1>0, <3>2 DEF Typed, WriteInv
  <2> DEFINE e == [ring[head] EXCEPT !.value = Head(todo).value]
  <2>2. e \in EntryType /\ ring' = [ring EXCEPT ![head] = e]
    BY <1>0, <2>1 DEF Typed, EntryType
  <2>3. e.command = ring[head].command /\ e.value = Head(todo).value
    BY <1>0, <2>1 DEF Typed, EntryType
  <2> HIDE DEF e
  <2>4. Typed'
    BY <1>0, <2>1, <2>2 DEF Typed, EntryType
  <2>5. WriteInv'
    BY <1>0, <2>1, <2>2, <2>3 DEF WriteInv, Typed
  <2>6. LagInv' /\ Stream' = Stream
    BY <1>2, <2>2
  <2> QED BY <2>4, <2>5, <2>6
<1>5. CASE fifo_write_head
  <2> USE <1>5 DEF fifo_write_head
  <2>1. /\ ring \in RingType /\ FifoTail \in Entries /\ tail_cache \in Entries
        /\ todo \in Seq(EntryType) /\ todo # <<>> /\ Rest = todo
        /\ register = head /\ head = End /\ head \in Entries
        /\ Unread \in 0 .. FIFO_ENTRIES - 2 /\ Lag \in 0 .. FIFO_ENTRIES - 2
        /\ Place(FifoTail + Unread) = head /\ Len(Rest) \in Nat
    BY <1>0, Fits DEF WriteInv, Rest
  <2>2. End' = Advance(End) /\ Rest' = Tail(todo)
    BY <2>1, AdvanceStays DEF End, Rest
  <2>3. Unread' = Unread + 1 /\ Lag' = Lag + 1
    BY <2>1, <2>2, GapGrows, Sizes DEF Unread, Lag
  <2>4. Len(Rest') = Len(Rest) - 1
    BY <2>1, <2>2, HeadTailProperties
  <2>5. ring[head] = Head(todo)
    <3>1. Head(todo) \in EntryType
      BY <2>1, HeadTailProperties, ElementOfSeq, EmptySeq, LenProperties
    <3>2. ring[head] \in EntryType
      BY <2>1, Sizes DEF RingType, Entries
    <3> QED BY <1>0, <3>1, <3>2 DEF WriteInv, EntryType
  <2>6. Joined(ring, FifoTail, Unread + 1, Tail(Rest)) = Joined(ring, FifoTail, Unread, Rest)
    <3>1. Unread \in 0 .. FIFO_ENTRIES - 1
      BY <2>1, Sizes
    <3> QED BY <2>1, <2>5, <3>1, EntryMoves
  <2>7. Stream' = Stream
    BY <2>1, <2>2, <2>3, <2>6, StreamJoined
  <2>8. Typed'
    <3>1. head' \in 0 .. FIFO_ENTRIES /\ access' = "wrap" /\ loaded' = FALSE
      BY <2>1, Sizes DEF Entries
    <3>2. UNCHANGED <<tail_cache, ring, fill, drain, queued_count, stored_count, pc, register,
                      todo, request, u_base, dma_header, data, FifoHead, FifoTail, address,
                      dma, status, flushes, drawn>>
      OBVIOUS
    <3> QED BY ONLY <1>0, <3>1, <3>2 DEF Typed
  <2>9. WriteInv'
    BY <1>0 DEF WriteInv
  <2>10. LagInv'
    <3>1. Waiting' = Waiting /\ Allowance' = Allowance
      BY DEF Waiting, Placed, Allowance
    <3>2. Waiting \in Nat
      BY Fits
    <3>3. Gap(FifoTail, FifoHead)' = Gap(FifoTail, FifoHead)
      BY DEF Gap
    <3>4. Gap(FifoTail, FifoHead) \in Nat
      BY Fits, GapBounds
    <3>5. Lag' + Len(Rest') + 2 * Waiting' = Lag + Len(Rest) + 2 * Waiting
      BY <2>1, <2>3, <2>4, <3>1, <3>2
    <3> QED BY <1>0, <2>1, <2>3, <3>1, <3>3, <3>4, <3>5 DEF LagInv
  <2> QED BY <2>7, <2>8, <2>9, <2>10
<1>6. CASE fifo_write_wrap
  <2> USE <1>6 DEF fifo_write_wrap
  <2>1. /\ todo \in Seq(EntryType) /\ todo # <<>> /\ head \in 0 .. FIFO_ENTRIES
        /\ Tail(todo) \in Seq(EntryType)
    <3>1. todo \in Seq(EntryType) /\ todo # <<>>
      BY <1>0 DEF Typed, WriteInv, EntryType
    <3> QED BY <1>0, <3>1, HeadTailProperties DEF Typed
  <2>2. head' \in Entries /\ head' = End
    BY <2>1, Sizes DEF End, Place, Entries
  <2>3. End' = End /\ Rest' = Rest
    BY <2>2, AdvanceStays DEF End, Rest
  <2>4. Typed'
    BY <1>0, <2>1, <2>2, Sizes DEF Typed, Entries, EntryType
  <2>5. WriteInv'
    BY <1>0 DEF WriteInv
  <2>6. LagInv'
    BY <1>0, <2>3 DEF LagInv, Lag, Unread, Waiting, Placed, Allowance, Gap
  <2>7. Stream' = Stream
    BY <2>3, StreamJoined DEF Unread, Gap
  <2> QED BY <2>4, <2>5, <2>6, <2>7
<1> QED BY <1>1, <1>3, <1>4, <1>5, <1>6 DEF FifoWrite

-----------------------------------------------------------------------------
(* The ring of buffers. *)

LEMMA SlotFacts ==
  ASSUME drain \in Buffers
  PROVE  /\ \A k \in 0 .. DMA_NUM_BUFFS : Slot(k) \in Buffers
         /\ \A j, k \in 0 .. DMA_NUM_BUFFS :
              j < k /\ k < j + DMA_NUM_BUFFS => Slot(j) # Slot(k)
         /\ Slot(0) = drain /\ Slot(DMA_NUM_BUFFS) = drain
         /\ \A k \in 0 .. DMA_NUM_BUFFS - 1 : Slot(k + 1) = Succ(Slot(k))
<1> USE Sizes DEF Buffers, Slot
<1>1. \A k \in 0 .. DMA_NUM_BUFFS : Slot(k) \in Buffers
  OBVIOUS
<1>2. \A j, k \in 0 .. DMA_NUM_BUFFS : j < k /\ k < j + DMA_NUM_BUFFS => Slot(j) # Slot(k)
  OBVIOUS
<1>3. Slot(0) = drain /\ Slot(DMA_NUM_BUFFS) = drain
  OBVIOUS
<1>4. \A k \in 0 .. DMA_NUM_BUFFS - 1 : Slot(k + 1) = Succ(Slot(k))
  <2> TAKE k \in 0 .. DMA_NUM_BUFFS - 1
  <2>1. Slot(k) \in 0 .. DMA_NUM_BUFFS - 1
    OBVIOUS
  <2>2. Succ(Slot(k)) = IF Slot(k) + 1 = DMA_NUM_BUFFS THEN 0 ELSE Slot(k) + 1
    BY <2>1, Modulo DEF Succ
  <2> QED BY <2>1, <2>2
<1> QED BY <1>1, <1>2, <1>3, <1>4

\* The handler moves drain on by one.
LEMMA SlotMoves ==
  ASSUME drain \in Buffers, drain' = Succ(drain)
  PROVE  \A k \in 0 .. DMA_NUM_BUFFS - 1 : Slot(k)' = Slot(k + 1)
<1>1. drain \in 0 .. DMA_NUM_BUFFS - 1
  BY DEF Buffers
<1>2. drain' = IF drain + 1 = DMA_NUM_BUFFS THEN 0 ELSE drain + 1
  BY <1>1, Sizes, Modulo DEF Succ
<1> QED BY <1>1, <1>2, Sizes DEF Slot

LEMMA CountedType == Counted(0) \in 0 .. CountRange - 1
<1>1. \A m \in Nat, n \in Nat : n > 0 => m % n \in 0 .. n - 1
  BY SMTT(30)
<1> QED BY <1>1, Sizes DEF Counted

LEMMA Short ==
  ASSUME NEW S, NEW a \in S, NEW b \in S, NEW c \in S
  PROVE  Append(<<>>, a) = <<a>> /\ Append(<<a>>, b) = <<a, b>> /\ Append(<<a, b>>, c) = <<a, b, c>>
<1>1. Append(<<>>, a) = <<a>>
  OBVIOUS
<1>2. Append(<<a>>, b) = <<a, b>>
  <2>1. <<a>> \in Seq(S) /\ Len(<<a>>) = 1
    OBVIOUS
  <2>2. /\ Append(<<a>>, b) \in Seq(S) /\ Len(Append(<<a>>, b)) = 2
        /\ Append(<<a>>, b)[1] = a /\ Append(<<a>>, b)[2] = b
    BY <2>1, AppendProperties
  <2> DEFINE q == Append(<<a>>, b)
  <2> HIDE DEF q
  <2>3. q \in Seq(S) /\ Len(q) = 2 /\ q[1] = a /\ q[2] = b
    BY <2>2 DEF q
  <2>4. q = <<a, b>>
    BY <2>3
  <2> QED BY <2>4 DEF q
<1>3. Append(<<a, b>>, c) = <<a, b, c>>
  <2>1. <<a, b>> \in Seq(S) /\ Len(<<a, b>>) = 2
    OBVIOUS
  <2>2. /\ Append(<<a, b>>, c) \in Seq(S) /\ Len(Append(<<a, b>>, c)) = 3
        /\ Append(<<a, b>>, c)[1] = a /\ Append(<<a, b>>, c)[2] = b /\ Append(<<a, b>>, c)[3] = c
    BY <2>1, AppendProperties
  <2> DEFINE q == Append(<<a, b>>, c)
  <2> HIDE DEF q
  <2>3. q \in Seq(S) /\ Len(q) = 3 /\ q[1] = a /\ q[2] = b /\ q[3] = c
    BY <2>2 DEF q
  <2>4. q = <<a, b, c>>
    BY <2>3
  <2> QED BY <2>4 DEF q
<1> QED BY <1>1, <1>2, <1>3

-----------------------------------------------------------------------------
(* What the invariant says of the commands and the numbers. *)

\* The numbers, whatever the step.
LEMMA Numbers ==
  ASSUME IInv
  PROVE  /\ Placed \in 0 .. DMA_NUM_BUFFS /\ Handled \in Nat /\ drain \in Buffers
         /\ request \in 1 .. U_NUM_BUFFS + 1 /\ Len(drawn) \in Nat
         /\ Handled + Placed <= U_NUM_BUFFS
         /\ pc \notin {"submit", "not_full"} => request = Handled + Placed + 1
         /\ pc \in {"submit", "not_full"} => request = Handled + Placed
         /\ pc # "not_full" => Placed < DMA_NUM_BUFFS
         /\ flushes \in 0 .. U_NUM_BUFFS + 1
<1>1. /\ Placed \in 0 .. DMA_NUM_BUFFS /\ Handled \in Nat /\ drain \in Buffers
      /\ request \in 1 .. U_NUM_BUFFS + 1
      /\ pc \notin {"submit", "not_full"} => request = Handled + Placed + 1
      /\ pc \in {"submit", "not_full"} => request = Handled + Placed
      /\ flushes \in 0 .. U_NUM_BUFFS + 1
  BY DEF IInv, CountInv, Typed
<1>2. Len(drawn) \in Nat
  BY LenProperties DEF IInv, Typed
<1>3. Handled + Placed <= U_NUM_BUFFS
  <2>1. CASE pc \in {"submit", "not_full"}
    BY <1>1, <2>1, Sizes DEF IInv, CountInv
  <2>2. CASE pc \notin {"submit", "not_full"}
    BY <1>1, <2>2, Sizes
  <2> QED BY <2>1, <2>2
<1>4. pc # "not_full" => Placed < DMA_NUM_BUFFS
  BY <1>1, Sizes DEF IInv, CountInv
<1> QED BY <1>1, <1>2, <1>3, <1>4

\* The commands are entries of the ring.
LEMMA CommandTypes ==
  ASSUME IInv
  PROVE  /\ Address \in EntryType /\ Flush \in EntryType
         /\ Placed > 0 => Config \in EntryType
         /\ request <= U_NUM_BUFFS => Entry("BufferAConfig", request) \in EntryType
<1>1. /\ drain \in Values /\ 0 \in Values
      /\ Placed > 0 => Handled + 1 \in Values
      /\ request <= U_NUM_BUFFS => request \in Values
  BY Numbers, Sizes DEF Values, Buffers
<1>2. \A c \in Commands, v \in Values : Entry(c, v) \in EntryType
  BY DEF Entry, EntryType
<1>3. {"BufferAAddress", "BufferAConfig", "RasterFlush"} \subseteq Commands
  BY DEF Commands
<1>4. Address \in EntryType /\ Flush \in EntryType
  BY <1>1, <1>2, <1>3 DEF Address, Flush
<1>5. Placed > 0 => Config \in EntryType
  BY <1>1, <1>2, <1>3 DEF Config
<1>6. request <= U_NUM_BUFFS => Entry("BufferAConfig", request) \in EntryType
  BY <1>1, <1>2, <1>3
<1> QED BY <1>4, <1>5, <1>6

\* The steps that leave the ring and what is to be written alone.
LEMMA RingKept ==
  ASSUME UNCHANGED <<head, ring, access, todo, FifoTail>>
  PROVE  Stream' = Stream /\ End' = End /\ Rest' = Rest /\ Unread' = Unread
<1>1. End' = End /\ Rest' = Rest
  BY DEF End, Rest, Place
<1>2. Unread' = Unread
  BY <1>1 DEF Unread, Gap
<1> QED BY <1>1, <1>2, StreamJoined

-----------------------------------------------------------------------------
(* fifo_flush. *)

LEMMA FlushStep ==
  ASSUME IInv, fifo_flush_load \/ fifo_flush_head \/ fifo_flush_poll
  PROVE  IInv'
<1>0. Typed /\ WriteInv /\ LagInv
  BY DEF IInv
<1>1. /\ UNCHANGED <<head, ring, access, todo, FifoTail, queued_count, loaded>>
      /\ pc \in Flushing /\ pc' \in Flushing
  BY DEF fifo_flush_load, fifo_flush_head, fifo_flush_poll, buffers, writing, card, fifo,
         Flushing
<1>2. Stream' = Stream /\ End' = End /\ Rest' = Rest /\ Unread' = Unread
  BY <1>1, RingKept
<1>3. CountInv' /\ StreamInv' /\ BufferInv' /\ DrawnInv'
  BY <1>1, <1>2, Frame DEF fifo_flush_load, fifo_flush_head, fifo_flush_poll, buffers, client, card
<1>4. Waiting' = Waiting /\ Allowance' = Allowance
  BY <1>1 DEF Waiting, Placed, Allowance, Flushing
<1>5. Typed' /\ WriteInv'
  <2>1. CASE fifo_flush_load
    <3> USE <2>1 DEF fifo_flush_load, fifo, buffers, client, card
    <3>1. head \in 0 .. FIFO_ENTRIES - 1
      BY Fits DEF Entries
    <3>2. Typed'
      BY <1>0, <3>1 DEF Typed
    <3>3. WriteInv'
      BY <1>0 DEF WriteInv
    <3> QED BY <3>2, <3>3
  <2>2. CASE fifo_flush_head
    <3> USE <2>2 DEF fifo_flush_head, fifo, buffers, client, card, writing
    <3>1. Typed'
      BY <1>0 DEF Typed
    <3>2. WriteInv'
      BY <1>0 DEF WriteInv
    <3> QED BY <3>1, <3>2
  <2>3. CASE fifo_flush_poll
    <3> USE <2>3 DEF fifo_flush_poll, buffers, client, card, writing
    <3>1. Typed'
      BY <1>0 DEF Typed
    <3>2. WriteInv'
      BY <1>0 DEF WriteInv
    <3> QED BY <3>1, <3>2
  <2> QED BY <2>1, <2>2, <2>3
<1>6. LagInv'
  <2>1. CASE fifo_flush_load
    BY <1>0, <1>2, <1>4, <2>1 DEF fifo_flush_load, fifo, LagInv, Lag, Gap, card
  <2>2. CASE fifo_flush_head
    <3>1. FifoHead' = End
      BY <1>0, <2>2, Fits DEF fifo_flush_head, WriteInv
    <3>2. Gap(FifoTail, FifoHead)' = Unread /\ Lag' = Lag
      BY <1>2, <2>2, <3>1 DEF fifo_flush_head, fifo, card, Gap, Unread, Lag
    <3>3. Unread \in Int
      BY Fits
    <3> QED BY <1>0, <1>2, <1>4, <3>2, <3>3 DEF LagInv
  <2>3. CASE fifo_flush_poll
    <3>1. Lag' = Unread /\ Gap(FifoTail, FifoHead)' = Gap(FifoTail, FifoHead)
      BY <1>2, <2>3 DEF fifo_flush_poll, card, Gap, Unread, Lag
    <3>2. /\ Lag \in Int /\ Unread \in Int /\ Len(Rest) \in Int /\ Waiting \in Int
          /\ Allowance \in Int
      <4>1. Lag \in Int /\ Unread \in Int /\ Len(Rest) \in Int /\ Waiting \in Int
        BY Fits
      <4>2. Allowance \in Int
        BY Sizes DEF Allowance
      <4> QED BY <4>1, <4>2
    <3> QED BY <1>0, <1>2, <1>4, <3>1, <3>2 DEF LagInv
  <2> QED BY <2>1, <2>2, <2>3
<1> QED BY <1>3, <1>5, <1>6 DEF IInv

\* The flush ends: everything written has been executed.
LEMMA FlushEnds ==
  ASSUME IInv, fifo_flush_end
  PROVE  /\ Lag = 0 /\ Rest = <<>> /\ Stream = <<>> /\ flushes = request
         /\ Placed > 0 /\ dma = NoDraw => status
<1> USE DEF fifo_flush_end
<1>1. access = "none" /\ Rest = <<>>
  BY DEF IInv, WriteInv, Rest
<1>2. /\ ring \in RingType /\ FifoTail \in Entries /\ End \in Entries /\ head = End
      /\ Rest \in Seq(EntryType) /\ Unread \in 0 .. FIFO_ENTRIES - 2
      /\ tail_cache \in Entries
  BY <1>1, Fits
<1>3. Lag = 0 /\ Unread = 0
  BY <1>2, GapBounds DEF Drained, Lag, IInv, LagInv
<1>4. Stream = <<>>
  <2>1. Unread \in 0 .. FIFO_ENTRIES
    BY <1>2, Sizes
  <2>2. PICK q : q = Stream /\ Reads(q, ring, FifoTail, Unread, Rest)
    BY <1>2, <2>1, JoinedReads, StreamJoined, Zenon
  <2>3. q \in Seq(EntryType) /\ Len(q) = 0
    BY <1>1, <1>3, <2>2 DEF Reads
  <2> QED BY <2>2, <2>3, EmptySeq
<1>5. flushes = request /\ (Placed > 0 /\ dma = NoDraw => status)
  <2>1. PICK p \in 0 .. 2, f \in 0 .. 1 : Token(p, f)
    BY DEF IInv, StreamInv
  <2>2. p = 0 /\ f = 0
    BY <1>4, <2>1 DEF Token, Shape
  <2>3. flushes = request
    BY <2>1, <2>2 DEF Token, IInv, Typed
  <2>4. Placed > 0 /\ dma = NoDraw => status
    BY <2>1, <2>2 DEF Token
  <2> QED BY <2>3, <2>4
<1> QED BY <1>1, <1>3, <1>4, <1>5

LEMMA FlushEndStep ==
  ASSUME IInv, fifo_flush_end
  PROVE  IInv'
<1>0. Typed /\ WriteInv /\ LagInv /\ CountInv /\ StreamInv /\ BufferInv /\ DrawnInv
  BY DEF IInv
<1>1. UNCHANGED <<head, ring, access, todo, FifoTail>>
  BY DEF fifo_flush_end, fifo, writing, card
<1>2. /\ Stream' = Stream /\ End' = End /\ Rest' = Rest /\ Unread' = Unread
      /\ Lag' = Lag /\ Lag = 0 /\ Rest = <<>> /\ Stream = <<>> /\ flushes = request
      /\ Placed > 0 /\ dma = NoDraw => status
  BY <1>1, RingKept, FlushEnds DEF fifo_flush_end, Lag, Gap, fifo
<1>3. /\ Placed' = Placed /\ Handled' = Handled /\ pc = "poll" /\ pc' \in {"start", "unbind"}
      /\ pc' = "start" => request <= U_NUM_BUFFS
  BY DEF fifo_flush_end, Placed, Handled, buffers, client, card
<1>4. Typed'
  BY <1>0 DEF fifo_flush_end, Typed, fifo, buffers, writing, client, card
<1>5. WriteInv'
  BY <1>0, <1>3 DEF fifo_flush_end, WriteInv, fifo, writing
<1>6. CountInv'
  BY <1>0, <1>3 DEF fifo_flush_end, CountInv, Slot, buffers, client
<1>7. StreamInv'
  <2>1. Token(0, 0)'
    <3>1. Stream' = <<>> /\ flushes' = flushes /\ request' = request /\ pc' # "fill"
      BY <1>2, <1>3 DEF fifo_flush_end, card, client
    <3>2. Shape(0, 0)'
      BY <3>1 DEF Shape
    <3>3. flushes + 0 = request
      BY <1>2, Numbers
    <3>4. Placed' > 0 /\ dma' = NoDraw => status'
      BY <1>2, <1>3 DEF fifo_flush_end, card
    <3> QED BY <3>1, <3>2, <3>3, <3>4 DEF Token
  <2> QED BY <1>0, <1>3, <2>1 DEF fifo_flush_end, StreamInv, card, buffers
<1>8. BufferInv'
  BY <1>0, <1>3 DEF fifo_flush_end, BufferInv, Slot, buffers, client, Preparing, Flushing
<1>9. LagInv'
  <2>1. Placed \in 0 .. DMA_NUM_BUFFS - 1
    BY <1>3, Numbers, Sizes
  <2>2. Waiting' = Waiting /\ Waiting \in Nat /\ Waiting <= DMA_NUM_BUFFS - 2
    BY <1>3, <2>1, Sizes DEF Waiting
  <2>3. Allowance' = 2 * DMA_NUM_BUFFS - 4
    BY <1>3 DEF Allowance, Flushing
  <2>4. Len(Rest) = 0 /\ Rest' = Rest /\ Lag' = Lag /\ Lag = 0
    BY <1>2
  <2>5. Lag + Len(Rest) + 2 * Waiting <= 2 * DMA_NUM_BUFFS - 4
    BY <2>2, <2>4, Sizes
  <2>6. Lag' + Len(Rest') + 2 * Waiting' <= Allowance'
    BY <2>2, <2>3, <2>4, <2>5
  <2> QED BY <1>0, <1>2, <2>6 DEF fifo_flush_end, LagInv, card, Gap
<1>10. DrawnInv'
  BY <1>0 DEF fifo_flush_end, DrawnInv, card
<1> QED BY <1>4, <1>5, <1>6, <1>7, <1>8, <1>9, <1>10 DEF IInv

-----------------------------------------------------------------------------
(* main.c fills a buffer and queues its flush. *)

\* A call of FIFO_WRITE for the entries s, when the process writes nothing.
LEMMA CallStream ==
  ASSUME IInv, access = "none", access' = "command", UNCHANGED <<head, ring, FifoTail>>
  PROVE  /\ Rest = <<>> /\ Rest' = todo' /\ End' = End /\ Unread' = Unread
         /\ Stream' = Joined(ring, FifoTail, Unread, todo')
         /\ Stream = Joined(ring, FifoTail, Unread, <<>>)
<1>1. Rest = <<>> /\ Rest' = todo' /\ End' = End
  BY DEF IInv, WriteInv, Rest, End, Place
<1>2. Unread' = Unread
  BY <1>1 DEF Unread, Gap
<1> QED BY <1>1, <1>2, StreamJoined

LEMMA FillStep ==
  ASSUME IInv, user_fill
  PROVE  IInv'
<1> USE DEF user_fill, Call
<1>0. Typed /\ WriteInv /\ LagInv /\ CountInv /\ StreamInv /\ BufferInv /\ DrawnInv
  BY DEF IInv
<1>1. /\ access = "none" /\ access' = "command" /\ todo' = <<Flush>>
      /\ pc = "fill" /\ pc' = "flush"
      /\ UNCHANGED <<head, ring, FifoTail, FifoHead, tail_cache, fill, drain, queued_count,
                     stored_count, loaded, register, request, u_base, address, dma, status,
                     flushes, drawn>>
  BY <1>0 DEF WriteInv, fifo, buffers, card, Flush
<1>2. /\ Rest = <<>> /\ Rest' = todo' /\ End' = End /\ Unread' = Unread
      /\ Stream' = Joined(ring, FifoTail, Unread, todo')
      /\ Stream = Joined(ring, FifoTail, Unread, <<>>)
  BY <1>1, CallStream
<1>3. Placed' = Placed /\ Handled' = Handled
  BY <1>1 DEF Placed, Handled
<1>4. Flush \in EntryType /\ <<>> \in Seq(EntryType) /\ <<Flush>> = Append(<<>>, Flush)
  BY CommandTypes, Short
<1>5. Stream' = Append(Stream, Flush)
  <2>1. ring \in RingType /\ FifoTail \in Entries /\ Unread \in 0 .. FIFO_ENTRIES
    BY Fits, Sizes
  <2>2. Joined(ring, FifoTail, Unread, Append(<<>>, Flush))
          = Append(Joined(ring, FifoTail, Unread, <<>>), Flush)
    BY <1>4, <2>1, EntryAppended, Zenon
  <2> QED BY <1>1, <1>2, <1>4, <2>2, Zenon
<1>6. /\ request <= U_NUM_BUFFS =>
           data' = [data EXCEPT ![fill] = Contents(request, Counted(0))]
      /\ request > U_NUM_BUFFS => data' = data
      /\ dma_header' \in 0 .. CountRange - 1
  BY <1>0, <1>1, CountedType, Numbers, Sizes DEF FreshHeader, CountInv, Typed
<1>7. data' \in [Buffers -> BufferContents]
  <2>1. request \in 1 .. U_NUM_BUFFS + 1 /\ data \in [Buffers -> BufferContents]
    BY <1>0 DEF Typed
  <2>2. request <= U_NUM_BUFFS => Contents(request, Counted(0)) \in BufferContents
    BY <2>1, CountedType, Sizes DEF Contents, BufferContents, Requests
  <2> QED BY <1>6, <2>1, <2>2, Sizes
<1>8. Typed'
  <2>1. /\ todo' \in Seq([command : Commands, value : Values])
        /\ pc' \in {"flush"} /\ access' = "command"
    BY <1>1, <1>4 DEF EntryType
  <2>2. head # FIFO_ENTRIES
    BY <1>0, <1>1 DEF Typed
  <2> HIDE DEF user_fill
  <2> QED BY <1>0, <1>1, <1>6, <1>7, <2>1, <2>2 DEF Typed
<1>9. WriteInv'
  BY <1>0, <1>1 DEF WriteInv
<1>10. CountInv'
  BY <1>0, <1>1, <1>3 DEF CountInv, Slot
<1>11. StreamInv'
  <2>1. PICK p \in 0 .. 2, f \in 0 .. 1 : Token(p, f)
    BY <1>0 DEF StreamInv
  <2>2. f = 0
    BY <1>1, <2>1 DEF Token, Flushing
  <2>3. Shape(p, 1)'
    <3>1. UNCHANGED <<Address, Config, Flush>>
      BY <1>1, <1>3 DEF Address, Config, Flush
    <3>2. CASE p = 0
      BY <1>5, <2>1, <2>2, <3>1, <3>2, CommandTypes, Short DEF Token, Shape
    <3>3. CASE p = 1
      <4>1. Stream = <<Config>> /\ Config \in EntryType
        BY <2>1, <2>2, <3>3, CommandTypes DEF Token, Shape
      <4>2. Stream' = <<Config, Flush>>
        BY <1>4, <1>5, <4>1, Short
      <4> QED BY <3>1, <3>3, <4>2 DEF Shape
    <3>4. CASE p = 2
      <4>1. Stream = <<Address, Config>> /\ Config \in EntryType /\ Address \in EntryType
        BY <2>1, <2>2, <3>4, CommandTypes DEF Token, Shape
      <4>2. Stream' = <<Address, Config, Flush>>
        BY <1>4, <1>5, <4>1, Short
      <4> QED BY <3>1, <3>4, <4>2 DEF Shape
    <3> QED BY <3>2, <3>3, <3>4
  <2>4. Token(p, 1)'
    BY <1>1, <1>3, <2>1, <2>2, <2>3, Numbers DEF Token, Flushing
  <2> QED BY <1>0, <1>1, <1>3, <2>4 DEF StreamInv
<1>12. BufferInv'
  <2>1. /\ drain \in Buffers /\ Placed \in 0 .. DMA_NUM_BUFFS - 1 /\ fill = Slot(Placed)
        /\ fill \in Buffers /\ data \in [Buffers -> BufferContents]
    BY <1>0, <1>1, Numbers, Sizes DEF CountInv, Typed
  <2>2. \A k \in 0 .. Placed - 1 : data'[Slot(k)] = data[Slot(k)]
    <3> TAKE k \in 0 .. Placed - 1
    <3>1. Slot(k) # Slot(Placed) /\ Slot(k) \in Buffers
      BY <2>1, SlotFacts, Sizes
    <3> QED BY <1>6, <2>1, <3>1, Numbers, Sizes
  <2>3. \A k : Slot(k)' = Slot(k)
    BY <1>1 DEF Slot
  <2>4. request <= U_NUM_BUFFS => data'[fill] = Contents(request, Counted(0))
    BY <1>6, <2>1
  <2> QED BY <1>0, <1>1, <1>3, <2>2, <2>3, <2>4 DEF BufferInv
<1>13. LagInv'
  <2>1. Waiting' = Waiting /\ Lag' = Lag
    BY <1>1, <1>2, <1>3 DEF Waiting, Lag, Gap
  <2>2. Allowance = 2 * DMA_NUM_BUFFS - 2 /\ Allowance' = 2 * DMA_NUM_BUFFS - 1
    BY <1>1 DEF Allowance, Flushing
  <2>3. Len(Rest) = 0 /\ Len(Rest') = 1 /\ Lag \in Int /\ Waiting \in Int
    BY <1>1, <1>2, Fits
  <2>4. Lag' + Len(Rest') + 2 * Waiting' <= Allowance'
    BY <1>0, <2>1, <2>2, <2>3, Sizes DEF LagInv
  <2> QED BY <1>0, <1>1, <1>2, <2>1, <2>4 DEF LagInv, Gap
<1>14. DrawnInv'
  BY <1>0, <1>1 DEF DrawnInv
<1> QED BY <1>8, <1>9, <1>10, <1>11, <1>12, <1>13, <1>14 DEF IInv

-----------------------------------------------------------------------------
(* start_dma and late_unbind_dma. *)

\* What the invariant says while the process is not in a flush: none is on its
\* way.
LEMMA NoFlushPending ==
  ASSUME IInv, pc \notin Flushing
  PROVE  \E p \in 0 .. 2 : Token(p, 0)
<1>1. PICK p \in 0 .. 2, f \in 0 .. 1 : Token(p, f)
  BY DEF IInv, StreamInv
<1>2. f = 0
  BY <1>1 DEF Token
<1> QED BY <1>1, <1>2

\* The steps that only move the process on.
LEMMA EnterStep ==
  ASSUME IInv, start_dma \/ late_unbind_dma
  PROVE  IInv'
<1>0. Typed /\ WriteInv /\ LagInv /\ CountInv /\ StreamInv /\ BufferInv /\ DrawnInv
  BY DEF IInv
<1>1. /\ UNCHANGED <<head, ring, access, todo, FifoTail, FifoHead, tail_cache, fill, drain,
                     stored_count, loaded, register, request, u_base, dma_header, data,
                     address, dma, status, flushes, drawn>>
      /\ \/ pc = "start" /\ pc' = "locked" /\ queued_count' = queued_count + 1
         \/ pc = "unbind" /\ pc' = "done" /\ queued_count' = queued_count
  BY DEF start_dma, late_unbind_dma, fifo, buffers, writing, client, card
<1>2. Stream' = Stream /\ End' = End /\ Rest' = Rest /\ Unread' = Unread
  BY <1>1, RingKept
<1>3. Placed' = Placed /\ Handled' = Handled
  <2>1. queued_count \in Nat
    BY <1>0, Sizes DEF Typed
  <2> QED BY <1>1, <2>1 DEF Placed, Handled
<1>4. Typed'
  <2>1. queued_count' \in 0 .. DMA_NUM_BUFFS
    <3>1. pc = "start" => queued_count \in 0 .. DMA_NUM_BUFFS - 1
      BY <1>0, Numbers, Sizes DEF Placed, Typed
    <3> QED BY <1>0, <1>1, <3>1, Sizes DEF Typed
  <2> QED BY <1>0, <1>1, <2>1 DEF Typed
<1>5. WriteInv'
  BY <1>0, <1>1 DEF WriteInv
<1>6. CountInv'
  BY <1>0, <1>1, <1>3 DEF CountInv, Slot
<1>7. StreamInv'
  <2>1. PICK p \in 0 .. 2 : Token(p, 0)
    BY <1>1, NoFlushPending DEF Flushing
  <2>2. Token(p, 0)'
    BY <1>1, <1>2, <1>3, <2>1 DEF Token, Shape, Address, Config, Flush
  <2> QED BY <1>0, <1>1, <1>3, <2>2 DEF StreamInv
<1>8. BufferInv'
  BY <1>0, <1>1, <1>3 DEF BufferInv, Slot, Preparing, Flushing
<1>9. LagInv'
  BY <1>0, <1>1, <1>2, <1>3 DEF LagInv, Lag, Waiting, Allowance, Flushing, Gap
<1>10. DrawnInv'
  BY <1>0, <1>1 DEF DrawnInv
<1> QED BY <1>4, <1>5, <1>6, <1>7, <1>8, <1>9, <1>10 DEF IInv

\* The steps that return to main.c with the next buffer.
LEMMA ReturnStep ==
  ASSUME IInv, start_dma_submit \/ start_dma_waited
  PROVE  IInv'
<1>0. Typed /\ WriteInv /\ LagInv /\ CountInv /\ StreamInv /\ BufferInv /\ DrawnInv
  BY DEF IInv
<1>1. /\ UNCHANGED <<head, ring, access, todo, FifoTail, tail_cache, fill, drain, queued_count,
                     stored_count, loaded, register, dma_header, data,
                     address, dma, status, flushes, drawn>>
      /\ pc \in {"submit", "not_full"} /\ pc' = "fill"
      /\ request' = request + 1 /\ u_base' = fill
      /\ FifoHead' \in {FifoHead, End} /\ access = "none"
      /\ queued_count # DMA_NUM_BUFFS
  <2>1. CASE start_dma_submit
    <3>1. head = End
      BY <2>1, Fits DEF start_dma_submit
    <3>2. queued_count # DMA_NUM_BUFFS
      BY <2>1, Numbers, Sizes DEF start_dma_submit, Placed
    <3> QED BY <2>1, <3>1, <3>2 DEF start_dma_submit, Returns, fifo, buffers, writing, client, card
  <2>2. CASE start_dma_waited
    BY <1>0, <2>2 DEF start_dma_waited, Returns, fifo, buffers, writing, client, card, WriteInv
  <2> QED BY <2>1, <2>2
<1>2. Stream' = Stream /\ End' = End /\ Rest' = Rest /\ Unread' = Unread
  BY <1>1, RingKept
<1>3. Placed' = Placed /\ Handled' = Handled /\ Placed # DMA_NUM_BUFFS
  BY <1>1 DEF Placed, Handled
<1>4. request = Handled + Placed /\ request \in 1 .. U_NUM_BUFFS /\ FifoHead' \in Entries
  BY <1>0, <1>1, Numbers, Fits DEF CountInv
<1>5. Typed'
  <2>1. request' \in 1 .. U_NUM_BUFFS + 1 /\ FifoHead' \in 0 .. FIFO_ENTRIES - 1
    BY <1>1, <1>4, Sizes DEF Entries
  <2> QED BY <1>0, <1>1, <2>1 DEF Typed
<1>6. WriteInv'
  BY <1>0, <1>1 DEF WriteInv
<1>7. CountInv'
  <2>1. request' = Handled + Placed + 1
    BY <1>1, <1>4
  <2> QED BY <1>0, <1>1, <1>3, <2>1 DEF CountInv, Slot
<1>8. StreamInv'
  <2>1. PICK p \in 0 .. 2 : Token(p, 0)
    BY <1>1, NoFlushPending DEF Flushing
  <2>2. flushes + 0 = (request + 1) - 1
    BY <1>1, <1>4, <2>1 DEF Token
  <2>3. Token(p, 0)'
    BY <1>1, <1>2, <1>3, <2>1, <2>2 DEF Token, Shape, Address, Config, Flush
  <2> QED BY <1>0, <1>1, <1>3, <2>3 DEF StreamInv
<1>9. BufferInv'
  BY <1>0, <1>1, <1>3 DEF BufferInv, Slot, Preparing, Flushing
<1>10. LagInv'
  <2>1. Lag' = Lag /\ Waiting' = Waiting /\ Allowance' = Allowance
    BY <1>1, <1>2, <1>3 DEF Lag, Waiting, Allowance, Flushing, Gap
  <2>2. Gap(FifoTail, FifoHead)' <= Unread
    <3>1. Gap(FifoTail, FifoHead)' \in {Gap(FifoTail, FifoHead), Unread}
      BY <1>1 DEF Gap, Unread
    <3>2. Unread \in Int
      BY Fits
    <3> QED BY <1>0, <3>1, <3>2 DEF LagInv
  <2> QED BY <1>0, <1>2, <2>1, <2>2 DEF LagInv
<1>11. DrawnInv'
  BY <1>0, <1>1 DEF DrawnInv
<1> QED BY <1>5, <1>6, <1>7, <1>8, <1>9, <1>10, <1>11 DEF IInv

\* The buffer is queued behind those on their way.
LEMMA StartQueueStep ==
  ASSUME IInv, start_dma_queue
  PROVE  IInv'
<1>0. Typed /\ WriteInv /\ LagInv /\ CountInv /\ StreamInv /\ BufferInv /\ DrawnInv
  BY DEF IInv
<1>1. /\ UNCHANGED <<head, ring, access, todo, FifoTail, FifoHead, tail_cache, drain, queued_count,
                     loaded, register, dma_header, data,
                     address, dma, status, flushes, drawn>>
      /\ pc = "locked" /\ fill # drain
      /\ stored_count' = [stored_count EXCEPT ![fill] = request]
      /\ fill' = Succ(fill)
      /\ \/ fill' = drain /\ pc' = "not_full" /\ UNCHANGED <<u_base, request>>
         \/ fill' # drain /\ pc' = "fill" /\ u_base' = fill' /\ request' = request + 1
  BY DEF start_dma_queue, Suspends, Returns, fifo, writing, card
<1>2. Stream' = Stream /\ End' = End /\ Rest' = Rest /\ Unread' = Unread
  BY <1>1, RingKept
<1>3. /\ Placed \in 1 .. DMA_NUM_BUFFS - 1 /\ Handled' = Handled /\ Placed' = Placed + 1
      /\ queued_count = Placed + 1 /\ fill = Slot(Placed) /\ drain \in Buffers
      /\ Placed + 1 \in 2 .. DMA_NUM_BUFFS
  <2>1. Placed \in 0 .. DMA_NUM_BUFFS - 1 /\ drain \in Buffers /\ fill = Slot(Placed)
    BY <1>0, <1>1, Numbers, Sizes DEF CountInv
  <2>2. Placed # 0
    BY <1>1, <2>1, SlotFacts
  <2>3. queued_count = Placed + 1 /\ Placed' = queued_count'
    <3>1. queued_count \in Int
      BY <1>0 DEF Typed
    <3> QED BY <1>1, <3>1 DEF Placed
  <2> QED BY <1>1, <2>1, <2>2, <2>3, Sizes DEF Handled
<1>4. /\ Slot(Placed + 1) = fill' /\ fill' \in Buffers
      /\ \A k : Slot(k)' = Slot(k)
      /\ Placed + 1 = DMA_NUM_BUFFS => fill' = drain
  <2>1. Placed \in 0 .. DMA_NUM_BUFFS - 1 /\ Placed + 1 \in 0 .. DMA_NUM_BUFFS
    BY <1>3, Sizes
  <2> QED BY <1>1, <1>3, <2>1, SlotFacts DEF Slot
<1>5. request = Handled + Placed + 1 /\ request \in 1 .. U_NUM_BUFFS /\ Handled \in Nat
  BY <1>0, <1>1, Numbers, Sizes DEF CountInv
<1>6. Typed'
  <2>1. stored_count' \in [Buffers -> Requests]
    BY <1>0, <1>1, <1>5, Sizes DEF Typed, Requests
  <2>2. request' \in 1 .. U_NUM_BUFFS + 1 /\ u_base' \in Buffers /\ pc' \in {"fill", "not_full"}
    BY <1>0, <1>1, <1>4, <1>5, Sizes DEF Typed
  <2> QED BY <1>0, <1>1, <1>4, <2>1, <2>2 DEF Typed
<1>7. WriteInv'
  BY <1>0, <1>1 DEF WriteInv
<1>8. CountInv'
  <2>1. Slot(Placed)' = fill'
    <3>1. Slot(Placed)' = Slot(Placed + 1)
      BY <1>1, <1>3 DEF Slot
    <3> QED BY <1>4, <3>1
  <2>2. CASE pc' = "not_full"
    <3>1. request' = request /\ request = Handled + (Placed + 1)
      BY <1>1, <1>3, <1>5, <2>2
    <3> QED BY <1>3, <1>5, <2>1, <2>2, <3>1 DEF CountInv
  <2>3. CASE pc' = "fill"
    <3>1. request' = request + 1 /\ request + 1 = Handled + (Placed + 1) + 1
      BY <1>1, <1>3, <1>5, <2>3
    <3>2. Placed + 1 # DMA_NUM_BUFFS /\ u_base' = fill'
      BY <1>1, <1>4, <2>3
    <3> QED BY <1>3, <1>5, <2>1, <2>3, <3>1, <3>2 DEF CountInv
  <2> QED BY <1>1, <2>2, <2>3
<1>9. StreamInv'
  <2>1. PICK p \in 0 .. 2 : Token(p, 0)
    BY <1>1, NoFlushPending DEF Flushing
  <2>2. /\ flushes + 0 = request /\ request = (request + 1) - 1
        /\ Placed' > 0 /\ pc' \in {"fill", "not_full"}
    BY <1>1, <1>3, <1>5, <2>1 DEF Token
  <2>3. Shape(p, 0)'
    BY <1>1, <1>2, <1>3, <2>1 DEF Token, Shape, Address, Config, Flush
  <2>a. p > 0 => dma = NoDraw /\ ~status
    BY <2>1 DEF Token
  <2>b. dma = NoDraw /\ ~status => p > 0
    BY <1>3, <2>1 DEF Token
  <2>c. p = 1 => address = drain
    BY <2>1 DEF Token
  <2>4. Token(p, 0)'
    BY <1>1, <2>a, <2>b, <2>c, <2>2, <2>3 DEF Token
  <2> QED BY <1>0, <1>1, <1>3, <2>2, <2>4 DEF StreamInv
<1>10. BufferInv'
  <2>1. ASSUME NEW k \in 0 .. Placed
        PROVE  /\ data[Slot(k)] = Contents(Handled + 1 + k, Counted(0))
               /\ k >= 1 => stored_count'[Slot(k)] = Handled + 1 + k
    <3>1. CASE k = Placed
      <4>1. data[fill] = Contents(request, Counted(0))
        BY <1>0, <1>1, <1>5 DEF BufferInv, Preparing
      <4>2. stored_count'[fill] = request
        BY <1>0, <1>1 DEF Typed
      <4>3. request = Handled + 1 + k
        BY <1>3, <1>5, <3>1
      <4> QED BY <1>3, <3>1, <4>1, <4>2, <4>3
    <3>2. CASE k # Placed
      <4>1. /\ k \in 0 .. Placed - 1 /\ k \in 0 .. DMA_NUM_BUFFS
            /\ k < Placed /\ Placed < k + DMA_NUM_BUFFS /\ Placed \in 0 .. DMA_NUM_BUFFS
        BY <1>3, <3>2, Sizes
      <4>2. Slot(k) # fill /\ Slot(k) \in Buffers
        BY <1>3, <4>1, SlotFacts
      <4>3. stored_count'[Slot(k)] = stored_count[Slot(k)]
        BY <1>0, <1>1, <4>2 DEF Typed
      <4>4. k >= 1 => k \in 1 .. Placed - 1
        BY <4>1
      <4> QED BY <1>0, <4>1, <4>3, <4>4 DEF BufferInv
    <3> QED BY <3>1, <3>2
  <2>2. Placed' - 1 = Placed
    BY <1>3
  <2>3. pc' \notin Preparing
    BY <1>1 DEF Preparing, Flushing
  <2>4. \A k \in 0 .. Placed' - 1 : data'[Slot(k)'] = Contents(Handled' + 1 + k, Counted(0))
    BY <1>1, <1>3, <1>4, <2>1, <2>2
  <2>5. \A k \in 1 .. Placed' - 1 : stored_count'[Slot(k)'] = Handled' + 1 + k
    <3>1. \A k \in 1 .. Placed : k \in 0 .. Placed /\ k >= 1
      BY <1>3
    <3> QED BY <1>3, <1>4, <2>1, <2>2, <3>1
  <2> QED BY <2>3, <2>4, <2>5 DEF BufferInv
<1>11. LagInv'
  <2>1. Lag' = Lag
    BY <1>1, <1>2 DEF Lag, Gap
  <2>2. Waiting' = Waiting + 1 /\ Waiting \in Nat
    BY <1>3 DEF Waiting
  <2>3. Allowance = 2 * DMA_NUM_BUFFS - 4 /\ Allowance' = 2 * DMA_NUM_BUFFS - 2
    BY <1>1 DEF Allowance, Flushing
  <2>4. Lag + Len(Rest) + 2 * (Waiting + 1) <= 2 * DMA_NUM_BUFFS - 2
    BY <1>0, <2>2, <2>3, Fits, Sizes DEF LagInv
  <2>5. Lag' + Len(Rest') + 2 * Waiting' <= Allowance'
    BY <1>2, <2>1, <2>2, <2>3, <2>4
  <2> QED BY <1>0, <1>1, <1>2, <2>1, <2>5 DEF LagInv, Gap
<1>12. DrawnInv'
  BY <1>0, <1>1 DEF DrawnInv
<1> QED BY <1>6, <1>7, <1>8, <1>9, <1>10, <1>11, <1>12 DEF IInv

\* The ring is empty, and the process gives the buffer to the card itself.
LEMMA StartDirectStep ==
  ASSUME IInv, start_dma_direct
  PROVE  IInv'
<1>0. Typed /\ WriteInv /\ LagInv /\ CountInv /\ StreamInv /\ BufferInv /\ DrawnInv
  BY DEF IInv
<1> DEFINE a == Entry("BufferAAddress", drain)
           c == Entry("BufferAConfig", request)
<1>1. /\ UNCHANGED <<head, ring, FifoTail, FifoHead, tail_cache, drain, queued_count,
                     stored_count, loaded, register, request, u_base, dma_header, data,
                     address, dma, status, flushes, drawn>>
      /\ pc = "locked" /\ pc' = "submit" /\ fill = drain /\ fill' = Succ(drain)
      /\ access = "none" /\ access' = "command" /\ todo' = <<a, c>>
  BY <1>0 DEF start_dma_direct, Call, fifo, client, card, WriteInv
<1>2. /\ Placed = 0 /\ Handled' = Handled /\ queued_count = 1 /\ Placed' = 1
      /\ drain \in Buffers
  <2>1. Placed \in 0 .. DMA_NUM_BUFFS - 1 /\ drain \in Buffers /\ fill = Slot(Placed)
    BY <1>0, <1>1, Numbers, Sizes DEF CountInv
  <2>2. Placed = 0
    <3>1. ~(0 < Placed)
      <4>1. /\ Placed \in 0 .. DMA_NUM_BUFFS /\ 0 \in 0 .. DMA_NUM_BUFFS
            /\ Placed < 0 + DMA_NUM_BUFFS
        BY <2>1, Sizes
      <4>2. Slot(0) = Slot(Placed)
        BY <1>1, <2>1, SlotFacts
      <4> QED BY <2>1, <4>1, <4>2, SlotFacts
    <3> QED BY <2>1, <3>1
  <2>3. queued_count = 1 /\ Placed' = queued_count'
    <3>1. queued_count \in Int
      BY <1>0 DEF Typed
    <3> QED BY <1>1, <2>2, <3>1 DEF Placed
  <2> QED BY <1>1, <2>1, <2>2, <2>3 DEF Handled
<1>3. /\ request = Handled + 1 /\ request \in 1 .. U_NUM_BUFFS /\ Handled \in Nat
      /\ request <= U_NUM_BUFFS
  BY <1>0, <1>1, <1>2, Numbers, Sizes DEF CountInv
<1>4. a = Address /\ c = Config /\ a \in EntryType /\ c \in EntryType
  BY <1>3, CommandTypes DEF Address, Config
<1>5. UNCHANGED <<Address, Config, Flush>>
  BY <1>1, <1>2 DEF Address, Config, Flush
<1> HIDE DEF a, c
<1>6. Stream = <<>> /\ flushes + 0 = request /\ dma = NoDraw /\ ~status
  <2>1. PICK p \in 0 .. 2 : Token(p, 0)
    BY <1>1, NoFlushPending DEF Flushing
  <2>2. ~(Placed > 0)
    BY <1>2
  <2>3. p = 0
    BY <2>1, <2>2 DEF Token
  <2> QED BY <1>0, <1>1, <2>1, <2>2, <2>3 DEF Token, Shape, StreamInv
<1>7. /\ Rest = <<>> /\ Rest' = todo' /\ End' = End /\ Unread' = Unread
      /\ Stream' = Joined(ring, FifoTail, Unread, todo')
      /\ Stream = Joined(ring, FifoTail, Unread, <<>>)
  BY <1>1, CallStream
<1>8. Stream' = <<Address, Config>>
  <2>1. ring \in RingType /\ FifoTail \in Entries /\ Unread \in 0 .. FIFO_ENTRIES
    BY Fits, Sizes
  <2>2. /\ <<>> \in Seq(EntryType) /\ <<a>> \in Seq(EntryType)
        /\ <<a>> = Append(<<>>, a) /\ <<a, c>> = Append(<<a>>, c)
    BY <1>4, Short
  <2>3. Joined(ring, FifoTail, Unread, Append(<<>>, a))
          = Append(Joined(ring, FifoTail, Unread, <<>>), a)
    BY <1>4, <2>1, <2>2, EntryAppended, Zenon
  <2>4. Joined(ring, FifoTail, Unread, Append(<<a>>, c))
          = Append(Joined(ring, FifoTail, Unread, <<a>>), c)
    BY <1>4, <2>1, <2>2, EntryAppended, Zenon
  <2> QED BY <1>1, <1>4, <1>6, <1>7, <2>2, <2>3, <2>4, Zenon
<1>9. fill' = Slot(1) /\ fill' \in Buffers /\ \A k : Slot(k)' = Slot(k)
  <2>1. 0 \in 0 .. DMA_NUM_BUFFS - 1 /\ 1 \in 0 .. DMA_NUM_BUFFS /\ 0 + 1 = 1
    BY Sizes
  <2>2. Slot(1) = Succ(Slot(0)) /\ Slot(1) \in Buffers /\ Slot(0) = drain
    BY <1>2, <2>1, SlotFacts
  <2> QED BY <1>1, <2>2 DEF Slot
<1>10. Typed'
  <2>1. todo' \in Seq([command : Commands, value : Values]) /\ head # FIFO_ENTRIES
    BY <1>0, <1>1, <1>4 DEF EntryType, Typed
  <2> QED BY <1>0, <1>1, <1>9, <2>1 DEF Typed
<1>11. WriteInv'
  BY <1>0, <1>1 DEF WriteInv
<1>12. CountInv'
  <2>1. Slot(Placed)' = fill'
    BY <1>1, <1>2, <1>9 DEF Slot
  <2>2. 1 # DMA_NUM_BUFFS /\ 1 \in 0 .. DMA_NUM_BUFFS
    BY Sizes
  <2> QED BY <1>1, <1>2, <1>3, <2>1, <2>2 DEF CountInv
<1>13. StreamInv'
  <2>1. Shape(2, 0)'
    BY <1>5, <1>8 DEF Shape
  <2>2. Token(2, 0)'
    BY <1>1, <1>2, <1>6, <2>1 DEF Token
  <2> QED BY <1>1, <1>6, <2>2 DEF StreamInv
<1>14. BufferInv'
  <2>1. data[drain] = Contents(request, Counted(0))
    BY <1>0, <1>1, <1>3 DEF BufferInv, Preparing
  <2>2. Slot(0) = drain
    BY <1>2, SlotFacts
  <2>3. Placed' - 1 = 0 /\ Handled + 1 + 0 = request
    BY <1>2, <1>3
  <2>4. \A k \in 0 .. Placed' - 1 : data'[Slot(k)'] = Contents(Handled' + 1 + k, Counted(0))
    BY <1>1, <1>2, <1>9, <2>1, <2>2, <2>3
  <2>5. \A k \in 1 .. Placed' - 1 : stored_count'[Slot(k)'] = Handled' + 1 + k
    BY <2>3
  <2>6. pc' \notin Preparing
    BY <1>1 DEF Preparing, Flushing
  <2> QED BY <2>4, <2>5, <2>6 DEF BufferInv
<1>15. LagInv'
  <2>1. Lag' = Lag /\ Waiting = 0 /\ Waiting' = 0 /\ Len(Rest) = 0 /\ Len(Rest') = 2
    BY <1>1, <1>2, <1>7 DEF Lag, Gap, Waiting
  <2>2. Allowance = 2 * DMA_NUM_BUFFS - 4 /\ Allowance' = 2 * DMA_NUM_BUFFS - 2
    BY <1>1 DEF Allowance, Flushing
  <2>3. Lag + 0 + 2 * 0 <= 2 * DMA_NUM_BUFFS - 4 /\ Lag \in Int
    BY <1>0, <2>1, <2>2, Fits DEF LagInv
  <2>4. Lag + 2 + 2 * 0 <= 2 * DMA_NUM_BUFFS - 2
    BY <2>3, Sizes
  <2>5. Lag' + Len(Rest') + 2 * Waiting' <= Allowance'
    BY <2>1, <2>2, <2>4
  <2> QED BY <1>0, <1>1, <1>7, <2>1, <2>5 DEF LagInv, Gap
<1>16. DrawnInv'
  BY <1>0, <1>1 DEF DrawnInv
<1> QED BY <1>10, <1>11, <1>12, <1>13, <1>14, <1>15, <1>16 DEF IInv

-----------------------------------------------------------------------------
(* dma_intr, in none of the windows. *)

\* The two FIFO_WRITEs of the handler append their commands to the stream.
LEMMA PairWritten ==
  ASSUME IInv, access = "none", NEW a \in EntryType, NEW c \in EntryType,
         Unread + 2 < FIFO_ENTRIES,
         ring' = [ring EXCEPT ![head] = a, ![Advance(head)] = c],
         head' = Advance(Advance(head)), UNCHANGED <<access, todo, FifoTail>>
  PROVE  /\ Stream' = Append(Append(Stream, a), c)
         /\ head' \in Entries /\ End' = head' /\ End = head
         /\ Unread' = Unread + 2 /\ Rest = <<>> /\ Rest' = <<>>
         /\ ring' \in RingType
<1>1. /\ ring \in RingType /\ FifoTail \in Entries /\ head = End /\ head \in Entries
      /\ Unread \in 0 .. FIFO_ENTRIES - 2 /\ Place(FifoTail + Unread) = head
  BY Fits
<1>2. Rest = <<>> /\ Rest' = <<>>
  BY DEF IInv, WriteInv, Rest
<1> DEFINE next == Advance(head)
           one == [ring EXCEPT ![head] = a]
           two == [one EXCEPT ![next] = c]
<1>3. ring' = two
  BY <1>1 DEF RingType
<1>4. next \in Entries /\ Advance(next) \in Entries
  BY <1>1, AdvanceStays
<1>5. one \in RingType /\ two \in RingType
  BY <1>1, <1>4, Sizes DEF RingType, Entries
<1>6. /\ Unread \in 0 .. FIFO_ENTRIES - 1 /\ Unread + 1 \in 0 .. FIFO_ENTRIES - 1
      /\ Unread \in 0 .. FIFO_ENTRIES /\ Unread + 1 \in 0 .. FIFO_ENTRIES
      /\ Gap(FifoTail, head) = Unread /\ Unread < FIFO_ENTRIES - 1
      /\ Unread + 1 < FIFO_ENTRIES - 1 /\ (Unread + 1) + 1 = Unread + 2
  BY <1>1, Sizes DEF Unread
<1>7. Gap(FifoTail, next) = Unread + 1
  BY <1>1, <1>6, GapGrows
<1>8. Gap(FifoTail, Advance(next)) = Unread + 2
  <2> HIDE DEF next
  <2>1. Gap(FifoTail, Advance(next)) = Gap(FifoTail, next) + 1
    BY <1>1, <1>4, <1>6, <1>7, GapGrows
  <2> QED BY <1>6, <1>7, <2>1
<1>9. Place(FifoTail + (Unread + 1)) = next
  BY <1>1, <1>4, <1>7, GapBounds
<1>10. head' = Advance(next) /\ End' = Advance(next) /\ Unread' = Unread + 2
  <2>1. head' = Advance(next) /\ End' = Advance(next)
    BY <1>4, AdvanceStays DEF End
  <2>2. Unread' = Gap(FifoTail, Advance(next))
    BY <2>1 DEF Unread, Gap
  <2> QED BY <1>8, <2>1, <2>2
<1>11. one[head] = a /\ two[head] = a /\ two[next] = c
  BY <1>1, <1>4, Sizes DEF RingType, Entries, Advance
<1> HIDE DEF next, one, two
<1>11a. /\ <<>> \in Seq(EntryType) /\ <<a>> \in Seq(EntryType)
        /\ <<a, c>> \in Seq(EntryType) /\ <<c>> \in Seq(EntryType)
        /\ a \in EntryType /\ c \in EntryType
  OBVIOUS
<1>11b. ring \in RingType /\ one \in RingType /\ two \in RingType /\ FifoTail \in Entries
  BY <1>1, <1>5
<1>11c. /\ Unread \in 0 .. FIFO_ENTRIES - 1 /\ Unread + 1 \in 0 .. FIFO_ENTRIES - 1
        /\ Unread \in 0 .. FIFO_ENTRIES
  BY <1>6
<1>12. /\ <<a>> = Append(<<>>, a) /\ <<a, c>> = Append(<<a>>, c)
       /\ Head(<<a, c>>) = a /\ Tail(<<a, c>>) = <<c>> /\ <<a, c>> # <<>>
       /\ Head(<<c>>) = c /\ Tail(<<c>>) = <<>> /\ <<c>> # <<>>
  BY Short
<1>12a. <<a, c>> # <<>> /\ <<c>> # <<>>
  OBVIOUS
<1>13. Append(Append(Stream, a), c) = Joined(ring, FifoTail, Unread, <<a, c>>)
  <2>1. Joined(ring, FifoTail, Unread, Append(<<>>, a))
          = Append(Joined(ring, FifoTail, Unread, <<>>), a)
    <3>1. <<>> \in Seq(EntryType) /\ a \in EntryType
      BY ONLY <1>11a
    <3>2. ring \in RingType /\ FifoTail \in Entries /\ Unread \in 0 .. FIFO_ENTRIES
      BY ONLY <1>11b, <1>11c
    <3> QED BY ONLY <3>1, <3>2, EntryAppended, Zenon
  <2>2. Joined(ring, FifoTail, Unread, Append(<<a>>, c))
          = Append(Joined(ring, FifoTail, Unread, <<a>>), c)
    <3>1. <<a>> \in Seq(EntryType) /\ c \in EntryType
      BY ONLY <1>11a
    <3>2. ring \in RingType /\ FifoTail \in Entries /\ Unread \in 0 .. FIFO_ENTRIES
      BY ONLY <1>11b, <1>11c
    <3> QED BY ONLY <3>1, <3>2, EntryAppended, Zenon
  <2>3. Stream = Joined(ring, FifoTail, Unread, <<>>)
    BY <1>2, StreamJoined
  <2> QED BY <1>12, <2>1, <2>2, <2>3, Zenon
<1>14. Joined(one, FifoTail, Unread, <<a, c>>) = Joined(ring, FifoTail, Unread, <<a, c>>)
  <2>1. Joined([ring EXCEPT ![Place(FifoTail + Unread)] = a], FifoTail, Unread, <<a, c>>)
          = Joined(ring, FifoTail, Unread, <<a, c>>)
    <3>1. <<a, c>> \in Seq(EntryType) /\ a \in EntryType
      BY ONLY <1>11a
    <3>2. ring \in RingType /\ FifoTail \in Entries /\ Unread \in 0 .. FIFO_ENTRIES - 1
      BY ONLY <1>11b, <1>11c
    <3> QED BY ONLY <3>1, <3>2, OutsideKept, Zenon
  <2> QED BY <1>1, <2>1 DEF one
<1>15. Joined(one, FifoTail, Unread + 1, <<c>>) = Joined(one, FifoTail, Unread, <<a, c>>)
  <2>1. one[Place(FifoTail + Unread)] = Head(<<a, c>>)
    BY <1>1, <1>11, <1>12
  <2>2. Joined(one, FifoTail, Unread + 1, Tail(<<a, c>>))
          = Joined(one, FifoTail, Unread, <<a, c>>)
    BY ONLY <1>11a, <1>11b, <1>11c, <1>12a, <2>1, EntryMoves, Zenon
  <2> QED BY <1>12, <2>2, Zenon
<1>16. Joined(two, FifoTail, Unread + 1, <<c>>) = Joined(one, FifoTail, Unread + 1, <<c>>)
  <2>1. Joined([one EXCEPT ![Place(FifoTail + (Unread + 1))] = c], FifoTail, Unread + 1, <<c>>)
          = Joined(one, FifoTail, Unread + 1, <<c>>)
    <3>1. <<c>> \in Seq(EntryType) /\ c \in EntryType
      BY ONLY <1>11a
    <3>2. one \in RingType /\ FifoTail \in Entries /\ Unread + 1 \in 0 .. FIFO_ENTRIES - 1
      BY ONLY <1>11b, <1>11c
    <3> QED BY ONLY <3>1, <3>2, OutsideKept, Zenon
  <2> QED BY <1>9, <2>1 DEF two
<1>17. Joined(two, FifoTail, Unread + 2, <<>>) = Joined(two, FifoTail, Unread + 1, <<c>>)
  <2>1. two[Place(FifoTail + (Unread + 1))] = Head(<<c>>)
    BY <1>9, <1>11, <1>12
  <2>2. Joined(two, FifoTail, (Unread + 1) + 1, Tail(<<c>>))
          = Joined(two, FifoTail, Unread + 1, <<c>>)
    BY ONLY <1>11a, <1>11b, <1>11c, <1>12a, <2>1, EntryMoves, Zenon
  <2> QED BY <1>6, <1>12, <2>2, Zenon
<1>18. Stream' = Joined(two, FifoTail, Unread + 2, <<>>)
  BY <1>2, <1>3, <1>10, StreamJoined
<1> QED BY <1>1, <1>2, <1>3, <1>4, <1>5, <1>10, <1>13, <1>14, <1>15, <1>16, <1>17, <1>18

LEMMA IntrStep ==
  ASSUME IInv, dma_intr, ~mixed'
  PROVE  IInv'
<1>0. Typed /\ WriteInv /\ LagInv /\ CountInv /\ StreamInv /\ BufferInv /\ DrawnInv
  BY DEF IInv
<1>1. /\ UNCHANGED <<tail_cache, fill, stored_count, pc, access, loaded, register, todo,
                     request, u_base, dma_header, data, FifoTail, address, dma, flushes, drawn>>
      /\ status /\ status' = FALSE
      /\ queued_count' = queued_count - 1 /\ drain' = Succ(drain)
  BY DEF dma_intr, writing, client
<1>2. /\ Placed \in 1 .. DMA_NUM_BUFFS /\ Placed' = Placed - 1
      /\ queued_count = IF pc = "locked" THEN Placed + 1 ELSE Placed
      /\ queued_count \in 0 .. DMA_NUM_BUFFS
      /\ Handled' = Handled + 1 /\ Handled \in Nat /\ drain \in Buffers
  <2>1. Placed \in 0 .. DMA_NUM_BUFFS /\ Placed > 0 /\ Handled \in Nat /\ drain \in Buffers
        /\ Len(drawn) \in Nat /\ queued_count \in 0 .. DMA_NUM_BUFFS
    BY <1>0, <1>1, Numbers DEF StreamInv, Typed
  <2>2. /\ queued_count = IF pc = "locked" THEN Placed + 1 ELSE Placed
        /\ Placed' = Placed - 1
    BY <1>1, <2>1 DEF Placed
  <2>3. Handled = Len(drawn) - 1 /\ Handled' = Len(drawn)
    BY <1>1 DEF Handled
  <2> QED BY <2>1, <2>2, <2>3, Sizes
<1>3. /\ \A k \in 0 .. DMA_NUM_BUFFS - 1 : Slot(k)' = Slot(k + 1)
      /\ drain' = Slot(1) /\ drain' \in Buffers
  <2>1. 0 \in 0 .. DMA_NUM_BUFFS - 1 /\ 1 \in 0 .. DMA_NUM_BUFFS /\ 0 + 1 = 1
    BY Sizes
  <2>2. Slot(1) = Succ(Slot(0)) /\ Slot(1) \in Buffers /\ Slot(0) = drain
    BY <1>2, <2>1, SlotFacts
  <2> QED BY <1>1, <1>2, <2>2, SlotMoves
<1>4. /\ dma = NoDraw
      /\ \E f \in 0 .. 1 : Token(0, f)
  <2>1. PICK p \in 0 .. 2, f \in 0 .. 1 : Token(p, f)
    BY <1>0 DEF StreamInv
  <2>2. p = 0
    BY <1>1, <2>1 DEF Token
  <2> QED BY <1>0, <1>1, <2>1, <2>2 DEF StreamInv
<1>5. PICK f \in 0 .. 1 : Token(0, f)
  BY <1>4
<1>6. /\ IF queued_count' # 0
           THEN /\ ring' = [ring EXCEPT ![head] = Submission(drain')[1],
                                        ![Advance(head)] = Submission(drain')[2]]
                /\ head' = Advance(Advance(head)) /\ FifoHead' = Advance(Advance(head))
           ELSE UNCHANGED <<ring, head, FifoHead>>
  BY DEF dma_intr, Resubmits, Announced
<1>7. \* The handler has nothing to write where the process is writing.
      queued_count' # 0 =>
        access = "none" /\ pc # "flush_write" /\ ~loaded /\ head = End /\ Placed # 1
  <2> SUFFICES ASSUME queued_count' # 0
               PROVE  access = "none" /\ pc # "flush_write" /\ ~loaded /\ head = End
                      /\ Placed # 1
    OBVIOUS
  <2>1. Window \notin OneProcessor /\ ~(Window = "lock" /\ queued_count' = 1)
    BY DEF dma_intr, Mixes, Resubmits
  <2>2. access = "none" /\ pc # "flush_write"
    <3>1. CASE access # "none"
      <4>1. Window = access
        BY <1>0, <3>1 DEF Window, WriteInv
      <4>2. access \in {"command", "value", "head", "wrap"}
        BY <1>0, <3>1 DEF Typed
      <4> QED BY <2>1, <4>1, <4>2 DEF OneProcessor
    <3>2. CASE access = "none" /\ pc = "flush_write"
      <4>1. Window = "flush"
        BY <3>2 DEF Window
      <4> QED BY <2>1, <4>1 DEF OneProcessor
    <3> QED BY <3>1, <3>2
  <2>3. pc = "locked" => Window = "lock"
    BY <2>2 DEF Window
  <2>4. Placed # 1
    BY <1>1, <1>2, <2>1, <2>3
  <2>5. ~loaded /\ head = End
    BY <1>0, <2>2, Fits DEF WriteInv
  <2> QED BY <2>2, <2>4, <2>5
<1>8. CountInv'
  <2>1. PICK m : m = Placed - 1
    OBVIOUS
  <2>2. Slot(Placed)' = fill
    <3>1. m \in 0 .. DMA_NUM_BUFFS - 1 /\ m + 1 = Placed /\ Placed' = m
      BY <1>2, <2>1, Sizes
    <3>2. Slot(m)' = Slot(Placed)
      BY <1>3, <3>1
    <3>3. Slot(Placed)' = Slot(m)'
      BY <3>1 DEF Slot
    <3> QED BY <1>0, <3>2, <3>3 DEF CountInv
  <2>3. /\ Placed - 1 \in 0 .. DMA_NUM_BUFFS /\ Placed - 1 # DMA_NUM_BUFFS
        /\ (Handled + 1) + (Placed - 1) = Handled + Placed /\ Handled + 1 \in Nat
    BY <1>2, Sizes
  <2> QED BY <1>0, <1>1, <1>2, <2>2, <2>3 DEF CountInv
<1>9. BufferInv'
  <2>1. ASSUME NEW k \in 0 .. Placed - 2
        PROVE  /\ data[Slot(k)'] = Contents((Handled + 1) + 1 + k, Counted(0))
               /\ k >= 1 => stored_count[Slot(k)'] = (Handled + 1) + 1 + k
    <3>1. k \in 0 .. DMA_NUM_BUFFS - 1 /\ k + 1 \in 1 .. Placed - 1 /\ k + 1 \in 0 .. Placed - 1
          /\ Handled + 1 + (k + 1) = (Handled + 1) + 1 + k
      BY <1>2, Sizes
    <3>2. Slot(k)' = Slot(k + 1)
      BY <1>3, <3>1
    <3> QED BY <1>0, <3>1, <3>2 DEF BufferInv
  <2>2. Placed' - 1 = Placed - 2
    BY <1>2
  <2>3. \A k \in 0 .. Placed' - 1 : data'[Slot(k)'] = Contents(Handled' + 1 + k, Counted(0))
    BY <1>1, <1>2, <2>1, <2>2
  <2>4. \A k \in 1 .. Placed' - 1 : stored_count'[Slot(k)'] = Handled' + 1 + k
    <3>1. \A k \in 1 .. Placed - 2 : k \in 0 .. Placed - 2 /\ k >= 1
      BY <1>2
    <3> QED BY <1>1, <1>2, <2>1, <2>2, <3>1
  <2>5. pc' \in Preparing /\ request' <= U_NUM_BUFFS =>
          data'[fill'] = Contents(request', Counted(0))
    BY <1>0, <1>1 DEF BufferInv
  <2> QED BY <2>3, <2>4, <2>5 DEF BufferInv
<1>10. DrawnInv'
  BY <1>0, <1>1 DEF DrawnInv
<1>11. CASE queued_count' # 0
  <2> DEFINE a == Submission(drain')[1]
             c == Submission(drain')[2]
  <2>1. Placed \in 2 .. DMA_NUM_BUFFS /\ Waiting = Placed - 1 /\ Waiting' = Waiting - 1
    BY <1>2, <1>7, <1>11, Sizes DEF Waiting
  <2>2. a = Entry("BufferAAddress", drain') /\ c = Entry("BufferAConfig", Handled + 1 + 1)
    <3>1. stored_count[Slot(1)] = Handled + 1 + 1
      <4>1. 1 \in 1 .. Placed - 1
        BY <2>1
      <4> QED BY <1>0, <4>1 DEF BufferInv
    <3> QED BY <1>3, <3>1 DEF Submission
  <2>3. a \in EntryType /\ c \in EntryType
    <3>1. Handled + 1 + 1 \in 0 .. U_NUM_BUFFS
      BY <1>2, <2>1, Numbers, Sizes
    <3>2. drain' \in Values /\ Handled + 1 + 1 \in Values
      BY <1>3, <3>1, Sizes DEF Buffers, Values
    <3> QED BY <2>2, <3>2 DEF Entry, EntryType, Commands
  <2>4. Address' = a /\ Config' = c /\ Flush' = Flush
    BY <1>1, <1>2, <2>2 DEF Address, Config, Flush
  <2> HIDE DEF a, c
  <2>5. /\ Unread \in Nat /\ Lag \in 0 .. FIFO_ENTRIES - 2 /\ Unread <= Lag
        /\ Rest \in Seq(EntryType) /\ Len(Rest) \in Nat /\ Waiting \in Nat /\ Waiting >= 1
        /\ Lag + Len(Rest) + 2 * Waiting <= FIFO_ENTRIES - 2
    BY <1>0, <2>1, Fits DEF LagInv
  <2>6. Unread + 2 < FIFO_ENTRIES /\ Lag < FIFO_ENTRIES - 1 /\ Lag + 1 < FIFO_ENTRIES - 1
    BY <2>5, Sizes
  <2>7. /\ Stream' = Append(Append(Stream, a), c)
        /\ head' \in Entries /\ End' = head' /\ Unread' = Unread + 2
        /\ Rest = <<>> /\ Rest' = <<>> /\ ring' \in RingType
    BY <1>1, <1>6, <1>7, <1>11, <2>3, <2>6, PairWritten DEF a, c
  <2>8. FifoHead' = head' /\ head' = Advance(Advance(head))
    BY <1>6, <1>11
  <2>a. WriteInv'
    BY <1>0, <1>1, <1>7, <1>11 DEF WriteInv
  <2>9. Typed'
    <3>1. head' \in 0 .. FIFO_ENTRIES /\ head' # FIFO_ENTRIES /\ FifoHead' \in 0 .. FIFO_ENTRIES - 1
      BY <2>7, <2>8, Sizes DEF Entries
    <3>2. ring' \in [0 .. FIFO_ENTRIES -> [command : Commands, value : Values]]
      BY <2>7 DEF RingType, EntryType
    <3>3. queued_count' \in 0 .. DMA_NUM_BUFFS
      BY <1>1, <1>2, Sizes
    <3> QED BY <1>0, <1>1, <1>3, <3>1, <3>2, <3>3 DEF Typed
  <2>10. StreamInv'
    <3>1. Shape(2, f)'
      <4>1. CASE f = 0
        <5>1. Stream = <<>>
          BY <1>5, <4>1 DEF Token, Shape
        <5>2. Stream' = <<a, c>>
          BY <2>3, <2>7, <5>1, Short
        <5> QED BY <2>4, <4>1, <5>2 DEF Shape
      <4>2. CASE f = 1
        <5>1. Stream = <<Flush>> /\ Flush \in EntryType
          BY <1>5, <4>2, CommandTypes DEF Token, Shape
        <5>2. Append(Append(<<Flush>>, a), c) = <<Flush, a, c>>
          <6>1. Flush \in EntryType /\ a \in EntryType /\ c \in EntryType
            BY <5>1, <2>3
          <6>2. /\ Append(<<Flush>>, a) = <<Flush, a>>
                /\ Append(<<Flush, a>>, c) = <<Flush, a, c>>
            BY ONLY <6>1, Short, Zenon
          <6> QED BY <6>2, Zenon
        <5>3. Stream' = <<Flush, a, c>>
          BY <2>7, <5>1, <5>2, Zenon
        <5> QED BY <2>4, <4>2, <5>3 DEF Shape
      <4> QED BY <4>1, <4>2
    <3>2. Placed - 1 > 0
      BY <2>1
    <3>3. Token(2, f)'
      BY <1>1, <1>2, <1>4, <1>5, <3>1, <3>2 DEF Token
    <3> QED BY <1>1, <1>4, <3>3 DEF StreamInv
  <2>11. LagInv'
    <3>1. Lag' = Lag + 2
      <4>1. tail_cache \in Entries /\ head \in Entries /\ Advance(head) \in Entries
        BY <1>7, <1>11, Fits, AdvanceStays
      <4>2. Gap(tail_cache, head) = Lag
        BY <1>7, <1>11 DEF Lag
      <4>3. Gap(tail_cache, Advance(head)) = Lag + 1
        BY <2>6, <4>1, <4>2, GapGrows
      <4>4. Gap(tail_cache, Advance(Advance(head))) = Gap(tail_cache, Advance(head)) + 1
        BY <2>6, <4>1, <4>3, GapGrows
      <4>5. Lag' = Gap(tail_cache, Advance(Advance(head)))
        BY <1>1, <2>7, <2>8 DEF Lag, Gap
      <4>6. Lag \in Int
        BY <2>5
      <4> QED BY <4>3, <4>4, <4>5, <4>6
    <3>2. Allowance' = Allowance
      BY <1>1 DEF Allowance
    <3>3. (Lag + 2) + Len(Rest) + 2 * (Waiting - 1) = Lag + Len(Rest) + 2 * Waiting
          /\ Unread + 2 <= Lag + 2
      BY <2>5
    <3>4. Gap(FifoTail, FifoHead)' = Unread'
      BY <1>1, <2>7, <2>8 DEF Gap, Unread
    <3>5. Unread + 2 <= Unread + 2
      BY <2>5
    <3> QED BY <1>0, <2>1, <2>7, <3>1, <3>2, <3>3, <3>4, <3>5 DEF LagInv
  <2> QED BY <2>a, <1>8, <1>9, <1>10, <2>9, <2>10, <2>11 DEF IInv
<1>12. CASE queued_count' = 0
  <2>1. Placed = 1 /\ Waiting = 0 /\ Waiting' = 0
    BY <1>1, <1>2, <1>12 DEF Waiting
  <2>2. UNCHANGED <<ring, head, FifoHead>>
    BY <1>6, <1>12
  <2>3. Stream' = Stream /\ End' = End /\ Rest' = Rest /\ Unread' = Unread
    BY <1>1, <2>2, RingKept
  <2>a. WriteInv'
    BY <1>0, <1>1, <2>2 DEF WriteInv
  <2>4. Typed'
    <3>1. queued_count' \in 0 .. DMA_NUM_BUFFS
      BY <1>12, Sizes
    <3> QED BY <1>0, <1>1, <1>3, <2>2, <3>1 DEF Typed
  <2>5. StreamInv'
    <3>1. Shape(0, f)'
      BY <1>5, <2>3 DEF Token, Shape, Flush
    <3>2. ~(Placed' > 0)
      BY <1>2, <2>1
    <3>3. Token(0, f)'
      BY <1>1, <1>5, <3>1, <3>2 DEF Token
    <3> QED BY <1>1, <1>4, <3>3 DEF StreamInv
  <2>6. LagInv'
    BY <1>0, <1>1, <2>1, <2>2, <2>3 DEF LagInv, Lag, Gap, Allowance
  <2> QED BY <2>a, <1>8, <1>9, <1>10, <2>4, <2>5, <2>6 DEF IInv
<1> QED BY <1>11, <1>12

-----------------------------------------------------------------------------
(* The card. *)

LEMMA ExecuteStep ==
  ASSUME IInv, card_execute
  PROVE  IInv'
<1>0. Typed /\ WriteInv /\ LagInv /\ CountInv /\ StreamInv /\ BufferInv /\ DrawnInv
  BY DEF IInv
<1> DEFINE e == ring[FifoTail]
<1>1. /\ UNCHANGED <<head, tail_cache, ring, fill, drain, queued_count, stored_count, pc, access,
                     loaded, register, todo, request, u_base, dma_header, data, FifoHead,
                     status, drawn>>
      /\ FifoTail # FifoHead /\ FifoTail' = (FifoTail + 1) % FIFO_ENTRIES
      /\ e.command = "BufferAConfig" => dma = NoDraw
      /\ dma' = IF e.command = "BufferAConfig"
                  THEN [buffer |-> address, count |-> e.value] ELSE dma
      /\ address' = IF e.command = "BufferAAddress" THEN e.value ELSE address
      /\ flushes' = IF e.command = "RasterFlush" THEN flushes + 1 ELSE flushes
  BY DEF card_execute, fifo, buffers, writing, client
<1>2. /\ ring \in RingType /\ FifoTail \in Entries /\ FifoHead \in Entries /\ End \in Entries
      /\ Rest \in Seq(EntryType) /\ Unread \in 0 .. FIFO_ENTRIES - 2
  BY Fits
<1>3. /\ Unread \in 1 .. FIFO_ENTRIES - 1 /\ FifoTail # End
      /\ Gap(FifoTail, FifoHead) \in Int
  <2>1. Gap(FifoTail, FifoHead) \in 0 .. FIFO_ENTRIES - 1 /\ Gap(FifoTail, FifoHead) # 0
    BY <1>1, <1>2, GapBounds
  <2>2. Unread # 0 /\ Unread >= 1
    BY <1>0, <1>2, <2>1 DEF LagInv
  <2>3. FifoTail # End
    BY <1>2, <2>2, GapBounds DEF Unread
  <2> QED BY <1>2, <2>1, <2>2, <2>3, Sizes
<1>4. FifoTail' = Advance(FifoTail) /\ FifoTail' \in Entries
  BY <1>1, <1>2, TailAdvances, AdvanceStays
<1>5. End' = End /\ Rest' = Rest /\ Unread' = Unread - 1
  <2>1. End' = End /\ Rest' = Rest
    BY <1>1 DEF End, Rest, Place
  <2>2. Gap(Advance(FifoTail), End) = Gap(FifoTail, End) - 1
    BY <1>2, <1>3, GapShrinks
  <2> QED BY <1>4, <2>1, <2>2 DEF Unread
<1>6. Stream # <<>> /\ Head(Stream) = e /\ Stream' = Tail(Stream)
  <2>1. /\ Joined(ring, FifoTail, Unread, Rest) # <<>>
        /\ Head(Joined(ring, FifoTail, Unread, Rest)) = ring[FifoTail]
        /\ Tail(Joined(ring, FifoTail, Unread, Rest))
             = Joined(ring, Advance(FifoTail), Unread - 1, Rest)
    BY <1>2, <1>3, EntryTaken, Zenon
  <2>2. Stream' = Joined(ring, Advance(FifoTail), Unread - 1, Rest)
    BY <1>1, <1>4, <1>5, StreamJoined
  <2> QED BY <2>1, <2>2, StreamJoined
<1> HIDE DEF e
<1>7. Placed' = Placed /\ Handled' = Handled /\ UNCHANGED <<Address, Config, Flush>>
  BY <1>1 DEF Placed, Handled, Address, Config, Flush
<1>8. PICK p \in 0 .. 2, f \in 0 .. 1 : Token(p, f)
  BY <1>0 DEF StreamInv
<1>9. /\ drain \in Buffers /\ flushes \in Nat /\ Handled \in Nat
      /\ Placed > 0 => Handled + 1 \in Requests
      /\ (IF pc = "fill" THEN request - 1 ELSE request) \in 0 .. U_NUM_BUFFS + 1
  BY Numbers, Sizes DEF Requests
<1>10. /\ Address.command = "BufferAAddress" /\ Address.value = drain
       /\ Config.command = "BufferAConfig" /\ Config.value = Handled + 1
       /\ Flush.command = "RasterFlush"
  BY DEF Address, Config, Flush, Entry
<1>10a. Address # Config /\ Address # Flush /\ Config # Flush
  BY <1>10
<1>10b. /\ Stream = <<Flush>> => e = Flush /\ Stream' = <<>>
        /\ Stream = <<Config>> => e = Config /\ Stream' = <<>>
        /\ Stream = <<Config, Flush>> => e = Config /\ Stream' = <<Flush>>
  <2>1. CASE Stream = <<Flush>>
    BY ONLY <1>6, <2>1
  <2>2. CASE Stream = <<Config>>
    BY ONLY <1>6, <2>2
  <2>3. CASE Stream = <<Config, Flush>>
    BY ONLY <1>6, <2>3
  <2> QED BY <2>1, <2>2, <2>3, Zenon
<1>10c. /\ Stream = <<Address, Config>> => e = Address /\ Stream' = <<Config>>
        /\ Stream = <<Address, Config, Flush>> => e = Address /\ Stream' = <<Config, Flush>>
        /\ Stream = <<Flush, Address, Config>> => e = Flush /\ Stream' = <<Address, Config>>
  <2>1. CASE Stream = <<Address, Config>>
    BY ONLY <1>6, <2>1
  <2>2. CASE Stream = <<Address, Config, Flush>>
    BY ONLY <1>6, <2>2
  <2>3. CASE Stream = <<Flush, Address, Config>>
    BY ONLY <1>6, <2>3
  <2> QED BY <2>1, <2>2, <2>3, Zenon
<1>11. CountInv' /\ BufferInv' /\ DrawnInv' /\ WriteInv'
  <2>1. CountInv'
    BY <1>0, <1>1, <1>7 DEF CountInv, Slot
  <2>2. BufferInv'
    BY <1>0, <1>1, <1>7 DEF BufferInv, Slot
  <2>3. DrawnInv' /\ WriteInv'
    BY <1>0, <1>1 DEF DrawnInv, WriteInv
  <2> QED BY <2>1, <2>2, <2>3
<1>12. LagInv'
  <2>1. Lag' = Lag /\ Waiting' = Waiting /\ Allowance' = Allowance
    BY <1>1, <1>5, <1>7 DEF Lag, Gap, Waiting, Allowance
  <2>2. Gap(FifoTail, FifoHead)' = Gap(FifoTail, FifoHead) - 1
    <3>1. Gap(Advance(FifoTail), FifoHead) = Gap(FifoTail, FifoHead) - 1
      BY <1>1, <1>2, GapShrinks
    <3> QED BY <1>1, <1>4, <3>1 DEF Gap
  <2>3. Lag \in Int /\ Unread - 1 <= Lag /\ Gap(FifoTail, FifoHead) - 1 <= Unread - 1
    BY <1>0, <1>3, Fits DEF LagInv
  <2> QED BY <1>0, <1>5, <2>1, <2>2, <2>3 DEF LagInv
<1>13. ASSUME NEW q \in 0 .. 2, NEW g \in 0 .. 1, Token(q, g)',
              address' \in Values,
              dma' \in [buffer : Buffers, count : Requests] \cup {NoDraw},
              dma' # NoDraw =>
                dma' = [buffer |-> drain, count |-> Handled + 1] /\ ~status /\ Placed > 0,
              flushes' \in 0 .. U_NUM_BUFFS + 1
       PROVE  IInv'
  <2>1. StreamInv'
    BY <1>0, <1>1, <1>7, <1>13 DEF StreamInv
  <2>2. Typed'
    BY <1>0, <1>1, <1>4, <1>13 DEF Typed, Entries
  <2> QED BY <1>11, <1>12, <2>1, <2>2 DEF IInv
<1>13a. /\ address \in Values /\ flushes \in 0 .. U_NUM_BUFFS + 1
        /\ dma \in [buffer : Buffers, count : Requests] \cup {NoDraw}
        /\ dma # NoDraw =>
             dma = [buffer |-> drain, count |-> Handled + 1] /\ ~status /\ Placed > 0
  BY <1>0 DEF Typed, StreamInv
<1>14. CASE e = Flush
  <2>1. flushes' = flushes + 1 /\ dma' = dma /\ address' = address /\ f = 1
        /\ flushes + 1 \in 0 .. U_NUM_BUFFS + 1
        /\ flushes + 1 + 0 = IF pc = "fill" THEN request - 1 ELSE request
    <3>1. f = 1
      <4>1. \/ Stream = <<Config>> \/ Stream = <<Address, Config>> => e # Flush
        BY <1>6, <1>10
      <4> QED BY <1>6, <1>8, <1>10, <1>14, <4>1 DEF Token, Shape
    <3> QED BY <1>1, <1>8, <1>9, <1>10, <1>14, <3>1 DEF Token
  <2>2. \/ p = 0 /\ Stream' = <<>>
        \/ p = 2 /\ Stream' = <<Address, Config>>
    BY <1>6, <1>8, <1>10a, <1>10b, <1>10c, <1>14 DEF Token, Shape
  <2>3. Shape(p, 0)'
    BY <1>7, <2>2 DEF Shape
  <2>4. Token(p, 0)'
    BY <1>1, <1>7, <1>8, <2>1, <2>3 DEF Token
  <2>5. p \in 0 .. 2 /\ 0 \in 0 .. 1
    BY <1>8
  <2>7. /\ address' \in Values
        /\ dma' \in [buffer : Buffers, count : Requests] \cup {NoDraw}
        /\ dma' # NoDraw =>
             dma' = [buffer |-> drain, count |-> Handled + 1] /\ ~status /\ Placed > 0
        /\ flushes' \in 0 .. U_NUM_BUFFS + 1
    BY ONLY <1>13a, <2>1, Zenon
  <2> QED BY ONLY <1>13, <2>4, <2>5, <2>7, Zenon
<1>15. CASE e = Address
  <2>1. flushes' = flushes /\ dma' = dma /\ address' = drain
    BY <1>1, <1>10, <1>15
  <2>2. p = 2 /\ \/ f = 0 /\ Stream' = <<Config>>
                 \/ f = 1 /\ Stream' = <<Config, Flush>>
    BY <1>6, <1>8, <1>10a, <1>10b, <1>10c, <1>15 DEF Token, Shape
  <2>3. Shape(1, f)'
    BY <1>7, <2>2 DEF Shape
  <2>4. Token(1, f)'
    BY <1>1, <1>7, <1>8, <2>1, <2>2, <2>3 DEF Token
  <2>5. drain \in Values
    BY <1>9, Sizes DEF Buffers, Values
  <2>6. 1 \in 0 .. 2 /\ f \in 0 .. 1
    BY <1>8
  <2>7. /\ address' \in Values
        /\ dma' \in [buffer : Buffers, count : Requests] \cup {NoDraw}
        /\ dma' # NoDraw =>
             dma' = [buffer |-> drain, count |-> Handled + 1] /\ ~status /\ Placed > 0
        /\ flushes' \in 0 .. U_NUM_BUFFS + 1
    BY ONLY <1>13a, <2>1, <2>5, Zenon
  <2> QED BY ONLY <1>13, <2>4, <2>6, <2>7, Zenon
<1>16. CASE e = Config
  <2>1. p = 1 /\ \/ f = 0 /\ Stream' = <<>>
                 \/ f = 1 /\ Stream' = <<Flush>>
    BY <1>6, <1>8, <1>10a, <1>10b, <1>10c, <1>16 DEF Token, Shape
  <2>2. flushes' = flushes /\ address' = address /\ dma = NoDraw /\ ~status /\ Placed > 0
        /\ dma' = [buffer |-> drain, count |-> Handled + 1]
    BY <1>1, <1>8, <1>10, <1>16, <2>1 DEF Token
  <2>3. Shape(0, f)'
    BY <1>7, <2>1 DEF Shape
  <2>a. dma' # NoDraw
    <3>1. dma'.buffer # NoBuffer
      BY <1>9, <2>2 DEF Buffers, NoBuffer
    <3> QED BY <3>1 DEF NoDraw
  <2>4. Token(0, f)'
    BY <1>1, <1>7, <1>8, <2>a, <2>2, <2>3 DEF Token
  <2>5. dma' \in [buffer : Buffers, count : Requests]
    BY <1>9, <2>2
  <2>6. 0 \in 0 .. 2 /\ f \in 0 .. 1
    BY <1>8
  <2>7. /\ address' \in Values
        /\ dma' \in [buffer : Buffers, count : Requests] \cup {NoDraw}
        /\ dma' # NoDraw =>
             dma' = [buffer |-> drain, count |-> Handled + 1] /\ ~status /\ Placed > 0
        /\ flushes' \in 0 .. U_NUM_BUFFS + 1
    BY ONLY <1>13a, <2>2, <2>5, Zenon
  <2> QED BY ONLY <1>13, <2>4, <2>6, <2>7, Zenon
<1> QED
  <2>1. e \in {Flush, Address, Config}
    BY <1>6, <1>8 DEF Token, Shape
  <2> QED BY <1>14, <1>15, <1>16, <2>1

LEMMA DrawStep ==
  ASSUME IInv, card_draw
  PROVE  IInv'
<1>0. Typed /\ WriteInv /\ LagInv /\ CountInv /\ StreamInv /\ BufferInv /\ DrawnInv
  BY DEF IInv
<1> DEFINE d == [data |-> Read(dma.buffer), count |-> dma.count]
<1>1. /\ UNCHANGED <<head, tail_cache, ring, fill, drain, queued_count, stored_count, pc, access,
                     loaded, register, todo, request, u_base, dma_header, data, FifoHead,
                     FifoTail, address, flushes>>
      /\ dma # NoDraw /\ drawn' = Append(drawn, d) /\ dma' = NoDraw /\ status' = TRUE
  BY DEF card_draw, fifo, buffers, writing, client
<1>2. /\ dma = [buffer |-> drain, count |-> Handled + 1] /\ ~status /\ Placed > 0
      /\ Handled \in Nat /\ drain \in Buffers /\ Placed \in 0 .. DMA_NUM_BUFFS
      /\ Handled + 1 \in Requests
  BY <1>0, <1>1, Numbers, Sizes DEF StreamInv, Requests
<1>3. d = [data |-> Contents(Handled + 1, Counted(0)), count |-> Handled + 1]
  <2>1. data[drain] = Contents(Handled + 1 + 0, Counted(0))
    <3>1. 0 \in 0 .. Placed - 1 /\ Slot(0) = drain
      BY <1>2, SlotFacts
    <3> QED BY <1>0, <3>1 DEF BufferInv
  <2>2. Handled + 1 + 0 = Handled + 1
    BY <1>2
  <2> QED BY <1>2, <2>1, <2>2 DEF Read
<1>4. /\ drawn \in Seq([data : BufferContents, count : Requests])
      /\ d \in [data : BufferContents, count : Requests]
  <2>1. data[drain] \in BufferContents
    BY <1>0, <1>2 DEF Typed
  <2> QED BY <1>0, <1>2, <2>1 DEF Typed, Read
<1> HIDE DEF d
<1>5. /\ Len(drawn) = Handled /\ Len(drawn') = Handled + 1 /\ drawn'[Handled + 1] = d
      /\ \A i \in 1 .. Handled : drawn'[i] = drawn[i]
      /\ drawn' \in Seq([data : BufferContents, count : Requests])
  <2>1. Len(drawn) = Handled
    BY <1>2 DEF Handled
  <2> QED BY <1>1, <1>4, <2>1, AppendProperties
<1>6. Placed' = Placed /\ Handled' = Handled
  <2>1. Handled' = Len(drawn') - 1
    BY <1>1 DEF Handled
  <2>2. (Handled + 1) - 1 = Handled
    BY <1>2
  <2> QED BY <1>1, <1>5, <2>1, <2>2 DEF Placed
<1>7. Stream' = Stream /\ End' = End /\ Rest' = Rest /\ Unread' = Unread
  BY <1>1, RingKept
<1>8. Typed'
  BY <1>0, <1>1, <1>5 DEF Typed
<1>9. WriteInv'
  BY <1>0, <1>1 DEF WriteInv
<1>10. CountInv'
  BY <1>0, <1>1, <1>6 DEF CountInv, Slot
<1>11. StreamInv'
  <2>1. PICK p \in 0 .. 2, f \in 0 .. 1 : Token(p, f)
    BY <1>0 DEF StreamInv
  <2>2. p = 0
    BY <1>1, <2>1 DEF Token
  <2>3. Shape(0, f)'
    BY <1>7, <2>1, <2>2 DEF Token, Shape, Flush
  <2>4. Token(0, f)'
    BY <1>1, <2>1, <2>2, <2>3 DEF Token
  <2> QED BY <1>1, <1>2, <1>6, <2>4 DEF StreamInv
<1>12. BufferInv'
  BY <1>0, <1>1, <1>6 DEF BufferInv, Slot
<1>13. LagInv'
  BY <1>0, <1>1, <1>6, <1>7 DEF LagInv, Lag, Gap, Waiting, Allowance
<1>14. DrawnInv'
  <2>1. ASSUME NEW i \in 1 .. Handled + 1
        PROVE  drawn'[i] = [data |-> Contents(i, Counted(0)), count |-> i]
    <3>1. CASE i = Handled + 1
      BY <1>3, <1>5, <3>1
    <3>2. CASE i \in 1 .. Handled
      BY <1>0, <1>5, <3>2 DEF DrawnInv
    <3> QED BY <1>2, <3>1, <3>2
  <2> QED BY <1>5, <2>1 DEF DrawnInv
<1> QED BY <1>8, <1>9, <1>10, <1>11, <1>12, <1>13, <1>14 DEF IInv

-----------------------------------------------------------------------------
(* IInv is inductive. *)

LEMMA IInvInit == Init => IInv
<1> SUFFICES ASSUME Init PROVE IInv
  OBVIOUS
<1> USE Sizes DEF Init
<1>1. Typed
  <2>1. /\ ring \in [0 .. FIFO_ENTRIES -> [command : Commands, value : Values]]
        /\ data \in [Buffers -> BufferContents] /\ stored_count \in [Buffers -> Requests]
    BY DEF Commands, Values, Buffers, BufferContents, Requests, Contents, Stale, Entry
  <2>2. /\ 0 \in Buffers /\ 0 \in 0 .. FIFO_ENTRIES - 1 /\ 0 \in 0 .. CountRange - 1
        /\ 0 \in 0 .. DMA_NUM_BUFFS /\ 0 \in Values /\ 1 \in 1 .. U_NUM_BUFFS + 1
        /\ 0 \in 0 .. U_NUM_BUFFS + 1 /\ 0 \in 0 .. FIFO_ENTRIES /\ 0 # FIFO_ENTRIES
    BY DEF Buffers, Values
  <2>3. /\ todo \in Seq([command : Commands, value : Values])
        /\ drawn \in Seq([data : BufferContents, count : Requests])
    OBVIOUS
  <2>4. /\ head \in 0 .. FIFO_ENTRIES /\ head # FIFO_ENTRIES
        /\ tail_cache \in 0 .. FIFO_ENTRIES - 1 /\ register \in 0 .. FIFO_ENTRIES - 1
        /\ FifoHead \in 0 .. FIFO_ENTRIES - 1 /\ FifoTail \in 0 .. FIFO_ENTRIES - 1
        /\ fill \in Buffers /\ drain \in Buffers /\ u_base \in Buffers
        /\ queued_count \in 0 .. DMA_NUM_BUFFS
    BY <2>2
  <2>5. /\ request \in 1 .. U_NUM_BUFFS + 1 /\ dma_header \in 0 .. CountRange - 1
        /\ address \in Values /\ flushes \in 0 .. U_NUM_BUFFS + 1
        /\ dma \in [buffer : Buffers, count : Requests] \cup {NoDraw}
        /\ loaded \in BOOLEAN /\ status \in BOOLEAN /\ access = "none" /\ pc = "fill"
    BY <2>2
  <2>6. pc \in {"fill", "flush", "flush_write", "poll", "start", "locked", "submit", "not_full",
                "unbind", "done"}
    BY <2>5
  <2>7. access \in {"none", "command", "value", "head", "wrap"}
    BY <2>5
  <2> QED BY ONLY <2>1, <2>3, <2>4, <2>5, <2>6, <2>7, Zenon DEF Typed
<1>2. WriteInv
  BY DEF WriteInv
<1>3. Placed = 0 /\ Handled = 0 /\ Slot(0) = 0 /\ Len(drawn) = 0
  BY DEF Placed, Handled, Slot
<1>4. CountInv
  BY <1>3 DEF CountInv
<1>5. End = 0 /\ Rest = <<>> /\ Unread = 0 /\ Lag = 0 /\ Gap(FifoTail, FifoHead) = 0
  BY DEF End, Rest, Unread, Lag, Gap, Place
<1>6. StreamInv
  <2>1. ring \in RingType /\ FifoTail \in Entries /\ 0 \in 0 .. FIFO_ENTRIES
        /\ <<>> \in Seq(EntryType)
    BY <1>1 DEF Typed, RingType, EntryType, Entries
  <2>2. PICK q : q = Stream /\ Reads(q, ring, FifoTail, 0, <<>>)
    BY <1>5, <2>1, JoinedReads, StreamJoined
  <2>3. Stream = <<>>
    <3>1. q \in Seq(EntryType) /\ Len(q) = 0
      BY <2>2 DEF Reads
    <3> QED BY <2>2, <3>1, EmptySeq
  <2>4. Token(0, 0)
    BY <2>3 DEF Token, Shape
  <2> QED BY <2>4 DEF StreamInv
<1>7. BufferInv
  BY <1>3 DEF BufferInv, Preparing, Flushing
<1>8. LagInv
  BY <1>3, <1>5 DEF LagInv, Waiting, Allowance, Flushing
<1>9. DrawnInv
  BY <1>3 DEF DrawnInv
<1> QED BY <1>1, <1>2, <1>4, <1>6, <1>7, <1>8, <1>9 DEF IInv

LEMMA IInvStep ==
  ASSUME IInv, [Next]_vars, ~mixed'
  PROVE  IInv'
<1>1. CASE UNCHANGED vars
  <2>1. UNCHANGED <<head, tail_cache, ring, fill, drain, queued_count, stored_count, pc, access,
                    loaded, register, todo, request, u_base, dma_header, data, FifoHead,
                    FifoTail, address, dma, status, flushes, drawn>>
    BY <1>1 DEF vars, fifo, buffers, writing, client, card
  <2>2. Stream' = Stream /\ End' = End /\ Rest' = Rest /\ Unread' = Unread
    BY <2>1, RingKept
  <2>3. CountInv' /\ StreamInv' /\ BufferInv' /\ DrawnInv'
    BY <2>1, <2>2, Frame DEF buffers, client
  <2>4. Typed' /\ WriteInv'
    BY <2>1 DEF IInv, Typed, WriteInv
  <2>5. LagInv'
    BY <2>1, <2>2 DEF IInv, LagInv, Lag, Gap, Waiting, Placed, Allowance
  <2> QED BY <2>3, <2>4, <2>5 DEF IInv
<1>2. CASE Next
  BY <1>2, FifoWriteStep, FillStep, FlushStep, FlushEndStep, EnterStep, ReturnStep,
     StartQueueStep, StartDirectStep, IntrStep, ExecuteStep, DrawStep DEF Next, Process
<1> QED BY <1>1, <1>2

\* Commands once mixed stay so: IInv need hold no longer.
LEMMA MixedStays ==
  ASSUME mixed, [Next]_vars
  PROVE  mixed'
BY DEF Next, vars, Process, dma_intr, card_execute, card_draw

LEMMA Inductive == Spec => [](~mixed => IInv)
<1>1. Init => IInv
  BY IInvInit
<1>2. (~mixed => IInv) /\ [Next]_vars => (~mixed => IInv)'
  BY IInvStep, MixedStays
<1> QED BY <1>1, <1>2, PTL DEF Spec

-----------------------------------------------------------------------------
(* Outside the calls that write to the ring all of it is announced.          *)

AnnouncedInv == pc \notin {"flush", "flush_write", "submit"} => FifoHead = head

LEMMA AnnouncedStep ==
  ASSUME IInv, AnnouncedInv, [Next]_vars, ~mixed'
  PROVE  AnnouncedInv'
<1>0. access # "none" => pc \in {"flush", "submit"}
  BY DEF IInv, WriteInv
<1>1. CASE UNCHANGED vars
  BY <1>1 DEF vars, fifo, AnnouncedInv
<1>2. CASE FifoWrite
  BY <1>0, <1>2 DEF FifoWrite, fifo_write_load, fifo_write_command, fifo_write_value,
     fifo_write_head, fifo_write_wrap, AnnouncedInv
<1>3. CASE user_fill \/ fifo_flush_load
  BY <1>3 DEF user_fill, Call, fifo_flush_load, AnnouncedInv
<1>4. CASE fifo_flush_head
  BY <1>4 DEF fifo_flush_head, fifo, AnnouncedInv, IInv, WriteInv
<1>5. CASE fifo_flush_poll \/ fifo_flush_end
  BY <1>5 DEF fifo_flush_poll, fifo_flush_end, fifo, AnnouncedInv
<1>6. CASE start_dma \/ start_dma_direct \/ start_dma_submit \/ start_dma_queue
            \/ start_dma_waited \/ late_unbind_dma
  BY <1>6 DEF start_dma, start_dma_direct, start_dma_submit, start_dma_queue,
     start_dma_waited, late_unbind_dma, Call, Returns, fifo, AnnouncedInv
<1>7. CASE dma_intr
  BY <1>7 DEF dma_intr, Announced, AnnouncedInv, fifo
<1>8. CASE card_execute \/ card_draw
  BY <1>8 DEF card_execute, card_draw, fifo, AnnouncedInv
<1> QED BY <1>1, <1>2, <1>3, <1>4, <1>5, <1>6, <1>7, <1>8 DEF Next, Process

-----------------------------------------------------------------------------
(* The theorems. *)

LEMMA MixedType == Spec => [](mixed \in BOOLEAN)
<1>1. Init => mixed \in BOOLEAN
  BY DEF Init
<1>2. mixed \in BOOLEAN /\ [Next]_vars => (mixed \in BOOLEAN)'
  BY DEF Next, vars, Process, dma_intr, card_execute, card_draw
<1> QED BY <1>1, <1>2, PTL DEF Spec

\* Wherever dma_intr arrives, the indices, the count of queued buffers and
\* main.c's request stay in their ranges, and head is FIFO_ENTRIES only until
\* FIFO_WRITE has wrapped it, as long as no commands have been mixed.
THEOREM TypeCorrect == Spec => []TypeOK
<1>1. mixed \in BOOLEAN /\ (~mixed => IInv) => TypeOK
  BY DEF IInv, TypeOK
<1> QED BY <1>1, Inductive, MixedType, PTL

\* The requests of main.c are drawn in its order, each once and with its own
\* contents and count, although the process and the handler share the FIFO and
\* neither masks the other: unless the handler has had commands to write between
\* two accesses of the process.
THEOREM AllDrawnInOrder == Spec => []InOrderUnlessMixed
<1>1. IInv => DrawnInOrder
  <2> SUFFICES ASSUME IInv PROVE DrawnInOrder
    OBVIOUS
  <2>1. DOMAIN drawn = 1 .. Len(drawn)
    BY LenProperties DEF IInv, Typed
  <2> QED BY <2>1 DEF IInv, DrawnInv, DrawnInOrder, Contents
<1>2. (~mixed => IInv) => InOrderUnlessMixed
  BY <1>1 DEF InOrderUnlessMixed
<1> QED BY <1>2, Inductive, PTL

\* When fifo_flush returns to main.c every RasterFlush queued so far has been
\* executed, whatever the handler wrote behind it and whatever moved head in
\* between, unless commands are mixed.
THEOREM FlushIsBarrier == Spec => []FlushBarrier
<1>1. (~mixed => IInv) => FlushBarrier
  <2> SUFFICES ASSUME IInv, pc \in {"start", "unbind"} PROVE flushes = request
    BY DEF FlushBarrier
  <2>1. PICK p \in 0 .. 2 : Token(p, 0)
    BY NoFlushPending DEF Flushing
  <2> QED BY <2>1, Numbers DEF Token
<1> QED BY <1>1, Inductive, PTL

\* What main.c waits for is on its way wherever it waits.
WaitsEnd ==
  /\ pc = "poll" => FifoHead = head
  /\ pc \in {"not_full", "unbind"} /\ queued_count # 0 =>
       status \/ dma # NoDraw \/ FifoTail # FifoHead

\* Neither wait nor flush is for something that will not come: the card has been
\* told of all that fifo_flush waits for, although the handler moves head in the
\* meantime, and while START_DMA or UNBIND_DMA waits for a buffer the card is
\* drawing one, is to take the commands of one, or has an interrupt outstanding.
\* The one way to be stuck is commands mixed, such as a FifoHead that the handler
\* announced and the flush overwrote.  It is the safety that Completes rests on.
THEOREM NothingStuck == Spec => [](~mixed => WaitsEnd)
<1>1. Init => AnnouncedInv
  BY DEF Init, AnnouncedInv
<1>2. /\ ~mixed => IInv
      /\ ~mixed => AnnouncedInv
      /\ [Next]_vars
      => (~mixed => AnnouncedInv)'
  BY AnnouncedStep, MixedStays
<1>3. IInv /\ AnnouncedInv => WaitsEnd
  <2> SUFFICES ASSUME IInv, AnnouncedInv, pc \in {"not_full", "unbind"}, queued_count # 0,
                      ~status, dma = NoDraw
               PROVE  FifoTail # FifoHead
    BY DEF WaitsEnd, AnnouncedInv
  <2>1. PICK p \in 0 .. 2, f \in 0 .. 1 : Token(p, f)
    BY DEF IInv, StreamInv
  <2>2. Placed > 0
    BY Numbers DEF Placed
  <2>3. Stream # <<>>
    BY <2>1, <2>2 DEF Token, Shape
  <2>4. Rest = <<>> /\ access # "wrap" /\ FifoHead = head
    BY DEF IInv, WriteInv, Rest, AnnouncedInv
  <2>5. Unread # 0
    <3> SUFFICES ASSUME Unread = 0 PROVE FALSE
      OBVIOUS
    <3>1. ring \in RingType /\ FifoTail \in Entries /\ Unread \in 0 .. FIFO_ENTRIES
          /\ Rest \in Seq(EntryType)
      BY Fits, Sizes
    <3>2. PICK q : q = Stream /\ Reads(q, ring, FifoTail, Unread, Rest)
      BY <3>1, JoinedReads, StreamJoined, Zenon
    <3>3. q \in Seq(EntryType) /\ Len(q) = 0
      BY <2>4, <3>2 DEF Reads
    <3> QED BY <2>3, <3>2, <3>3, EmptySeq
  <2> QED BY <2>4, <2>5, Fits, GapBounds DEF Unread
<1> QED BY <1>1, <1>2, <1>3, Inductive, PTL DEF Spec
=============================================================================
