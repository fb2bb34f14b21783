-------------------------- MODULE Kyouko3FifoProofs --------------------------
(***************************************************************************)
(* Proofs about Kyouko3Fifo, for every ring size and every client that     *)
(* leaves room for graphics_on's commands in the batches it flushes.       *)
(***************************************************************************)
EXTENDS Kyouko3Fifo, SequenceTheorems, TLAPS

\* While the process is not in a flush the card is idle, tail_cache is its
\* FifoTail, and the ring holds exactly the current batch.
IdleInv ==
  pc \in {"user", "write", "head"} =>
    tail_cache = FifoTail /\ FifoTail = FifoHead /\ Gap(FifoTail, head) = batch

\* During a flush the card moves from the last known FifoTail towards head and
\* never passes it.
FlushInv ==
  pc = "poll" =>
    /\ FifoHead = head
    /\ Gap(tail_cache, head) <= batch
    /\ Gap(FifoTail, head) <= Gap(tail_cache, head)

\* The client's part: a batch, with a call's commands still to come, is less
\* than a lap.
BatchInv ==
  /\ pc = "user" => batch <= MaxBatch
  /\ pc # "closed" => batch <= MaxBatch + OnCommands
  /\ pc = "write" => /\ todo >= 1 /\ issued + todo <= MaxCommands
                     /\ batch + todo <= MaxBatch + OnCommands

ClosedInv == pc = "closed" => FifoTail = FifoHead /\ tail_cache = FifoTail

IInv == TypeOK /\ IdleInv /\ FlushInv /\ BatchInv /\ ClosedInv

-----------------------------------------------------------------------------
(* The arithmetic of the ring. *)

\* An index advanced from inside the ring stays inside it.
LEMMA AdvanceStays ==
  ASSUME NEW i \in Entries
  PROVE  Advance(i) \in Entries
BY FifoAssumption DEF FifoAssumption, Entries, Advance

\* The distance between two entries is less than a lap, and zero only when
\* they are the same.
LEMMA GapBounds ==
  ASSUME NEW i \in Entries, NEW j \in Entries
  PROVE  Gap(i, j) \in 0 .. FIFO_ENTRIES - 1 /\ (Gap(i, j) = 0 <=> i = j)
BY FifoAssumption DEF FifoAssumption, Entries, Gap

\* Writing an entry moves head one further from any entry at less than a lap
\* behind it.
LEMMA GapGrows ==
  ASSUME NEW i \in Entries, NEW j \in Entries, Gap(i, j) < FIFO_ENTRIES - 1
  PROVE  Gap(i, Advance(j)) = Gap(i, j) + 1
BY FifoAssumption DEF FifoAssumption, Entries, Gap, Advance

\* Executing an entry brings the card one nearer to head.
LEMMA GapShrinks ==
  ASSUME NEW i \in Entries, NEW j \in Entries, i # j
  PROVE  Gap(Advance(i), j) = Gap(i, j) - 1
BY FifoAssumption DEF FifoAssumption, Entries, Gap, Advance

-----------------------------------------------------------------------------
(* IInv is inductive. *)

LEMMA IInvInit == Init => IInv
<1> SUFFICES ASSUME Init PROVE IInv
  OBVIOUS
<1> USE FifoAssumption DEF FifoAssumption, Init
<1>1. TypeOK
  BY DEF TypeOK, Entries, Points, Calls, Garbage
<1> QED BY <1>1 DEF IInv, IdleInv, FlushInv, BatchInv, ClosedInv

\* What every FIFO_WRITE does: head stays in the ring, and while there is room
\* the ring holds one command more.
LEMMA WriteStep ==
  ASSUME TypeOK, NEW c \in 0 .. MaxCommands, FIFO_WRITE(c),
         batch < MaxBatch + OnCommands, Gap(FifoTail, head) = batch, UNCHANGED FifoTail
  PROVE  /\ ring' \in [Entries -> 0 .. MaxCommands]
         /\ head' \in Entries
         /\ batch' \in 0 .. FIFO_ENTRIES - 1
         /\ Gap(FifoTail', head') = batch'
<1> USE FifoAssumption DEF FifoAssumption, TypeOK, FIFO_WRITE
<1>1. ring' \in [Entries -> 0 .. MaxCommands] /\ head' \in Entries
  BY AdvanceStays
<1>2. batch < FIFO_ENTRIES - 1 /\ batch' = batch + 1
  OBVIOUS
<1>3. Gap(FifoTail, Advance(head)) = Gap(FifoTail, head) + 1
  BY <1>2, GapGrows
<1> QED BY <1>1, <1>2, <1>3

\* The calls of the process in user mode.
LEMMA UserStep ==
  ASSUME IInv, User
  PROVE  IInv'
<1> USE FifoAssumption DEF FifoAssumption, IInv
<1>1. CASE kyouko3_open
  <2> USE <1>1 DEF kyouko3_open
  <2>1. /\ ring' \in [Entries -> 0 .. MaxCommands]
        /\ head' \in Entries /\ tail_cache' \in Entries
        /\ FifoHead' \in Entries /\ FifoTail' \in Entries
        /\ batch' \in 0 .. FIFO_ENTRIES - 1
    BY DEF Entries, Garbage
  <2>2. TypeOK'
    BY <2>1 DEF TypeOK, Points
  <2>3. Gap(FifoTail', head') = 0
    BY DEF Gap
  <2> QED BY <2>2, <2>3 DEF IdleInv, FlushInv, BatchInv, ClosedInv
<1>2. CASE fifo_queue
  <2> USE <1>2 DEF fifo_queue, card
  <2>1. PICK c \in {issued', Garbage} : FIFO_WRITE(c)
    OBVIOUS
  <2>2. issued' \in 0 .. MaxCommands /\ c \in 0 .. MaxCommands
    BY DEF TypeOK, Garbage
  <2>3. Gap(FifoTail, head) = batch /\ batch < MaxBatch + OnCommands
    BY DEF IdleInv, TypeOK
  <2>4. /\ ring' \in [Entries -> 0 .. MaxCommands]
        /\ head' \in Entries
        /\ batch' \in 0 .. FIFO_ENTRIES - 1
        /\ Gap(FifoTail', head') = batch'
    BY <2>1, <2>2, <2>3, WriteStep
  <2>5. batch' <= MaxBatch
    BY <2>1 DEF FIFO_WRITE, TypeOK
  <2>6. TypeOK'
    BY <2>2, <2>4 DEF TypeOK
  <2> QED BY <2>4, <2>5, <2>6 DEF IdleInv, FlushInv, BatchInv, ClosedInv
<1>3. CASE ioctl_flush
  <2> USE <1>3 DEF ioctl_flush, card
  <2>1. TypeOK'
    BY DEF TypeOK, Points, Calls
  <2> QED BY <2>1 DEF IdleInv, FlushInv, BatchInv, ClosedInv, Gap
<1>4. ASSUME NEW c \in Calls, NEW n \in 1 .. OnCommands, Begin(c, n)
      PROVE  IInv'
  <2> USE <1>4 DEF Begin, card
  <2>1. TypeOK'
    BY DEF TypeOK, Points, Calls
  <2>2. BatchInv'
    BY DEF BatchInv, TypeOK
  <2> QED BY <2>1, <2>2 DEF IdleInv, FlushInv, ClosedInv, Gap
<1>5. CASE graphics_on_begin \/ graphics_off_begin \/ kyouko3_release_on
  BY <1>4, <1>5 DEF graphics_on_begin, graphics_off_begin, kyouko3_release_on, OffCommands, Calls
<1>6. CASE kyouko3_release_off
  <2> USE <1>6 DEF kyouko3_release_off, card
  <2>1. TypeOK'
    BY DEF TypeOK, Points
  <2> QED BY <2>1 DEF IdleInv, FlushInv, BatchInv, ClosedInv
<1> QED BY <1>1, <1>2, <1>3, <1>5, <1>6 DEF User

\* The steps of the driver.
LEMMA KernelStep ==
  ASSUME IInv, Kernel
  PROVE  IInv'
<1> USE FifoAssumption DEF FifoAssumption, IInv
<1>1. CASE graphics_write
  <2> USE <1>1 DEF graphics_write, card
  <2>1. issued' \in 0 .. MaxCommands /\ todo' \in 0 .. OnCommands
    BY DEF TypeOK, BatchInv
  <2>2. Gap(FifoTail, head) = batch /\ batch < MaxBatch + OnCommands
    BY DEF IdleInv, BatchInv, TypeOK
  <2>3. /\ ring' \in [Entries -> 0 .. MaxCommands]
        /\ head' \in Entries
        /\ batch' \in 0 .. FIFO_ENTRIES - 1
        /\ Gap(FifoTail', head') = batch'
    BY <2>1, <2>2, WriteStep
  <2>4. TypeOK'
    BY <2>1, <2>3 DEF TypeOK, Points
  <2>5. BatchInv'
    BY <2>1 DEF BatchInv, TypeOK, FIFO_WRITE
  <2> QED BY <2>3, <2>4, <2>5 DEF IdleInv, FlushInv, ClosedInv
<1>2. CASE fifo_flush_head
  <2> USE <1>2 DEF fifo_flush_head, FlushHead, card
  <2>1. TypeOK'
    BY DEF TypeOK, Points
  <2>2. FlushInv'
    BY DEF IdleInv, FlushInv, Gap, TypeOK
  <2> QED BY <2>1, <2>2 DEF IdleInv, BatchInv, ClosedInv
<1>3. CASE fifo_flush_poll
  <2> USE <1>3 DEF fifo_flush_poll, CardTail, process, card
  <2>1. TypeOK'
    BY DEF TypeOK
  <2>2. FlushInv'
    <3>1. Gap(FifoTail, head) \in Nat /\ Gap(tail_cache, head) \in Nat
      BY GapBounds DEF TypeOK
    <3>2. Gap(tail_cache', head') = Gap(FifoTail, head)
          /\ Gap(FifoTail', head') = Gap(FifoTail, head)
      OBVIOUS
    <3> QED BY <3>1, <3>2 DEF FlushInv, TypeOK
  <2> QED BY <2>1, <2>2 DEF IdleInv, BatchInv, ClosedInv
<1>4. CASE fifo_flush_end
  <2> USE <1>4 DEF fifo_flush_end, Drained, card
  <2>1. TypeOK'
    <3>1. graphics_on' \in BOOLEAN
      BY DEF TypeOK
    <3>2. batch' \in 0 .. FIFO_ENTRIES - 1 /\ pc' \in Points /\ call' \in Calls
      BY DEF Points, Calls
    <3>3. UNCHANGED <<head, tail_cache, ring, todo, issued, FifoHead, FifoTail, executed>>
      OBVIOUS
    <3> HIDE <1>4
    <3> QED BY <3>1, <3>2, <3>3 DEF TypeOK
  <2>2. FifoTail = head
    BY GapBounds DEF FlushInv, TypeOK
  <2>3. Gap(FifoTail', head') = 0
    BY <2>2, GapBounds DEF TypeOK
  <2> QED BY <2>1, <2>2, <2>3 DEF IdleInv, FlushInv, BatchInv, ClosedInv
<1> QED BY <1>1, <1>2, <1>3, <1>4 DEF Kernel

\* The card.
LEMMA CardStep ==
  ASSUME IInv, card_execute
  PROVE  IInv'
<1> USE FifoAssumption DEF FifoAssumption, IInv, card_execute, process
<1>1. pc = "poll" /\ FifoHead = head
  BY DEF IdleInv, FlushInv, ClosedInv, TypeOK, Points
<1>2. FifoTail' = Advance(FifoTail)
  BY DEF TypeOK, Entries, Advance
<1>3. FifoTail' \in Entries /\ executed' \in Seq(0 .. MaxCommands)
  BY <1>2, AdvanceStays DEF TypeOK
<1>4. TypeOK'
  BY <1>3 DEF TypeOK
<1>5. FlushInv'
  <2>1. Gap(FifoTail', head') = Gap(FifoTail, head) - 1
    BY <1>1, <1>2, GapShrinks DEF TypeOK
  <2>2. Gap(FifoTail, head) \in Nat /\ Gap(tail_cache, head) \in Nat
    BY GapBounds DEF TypeOK
  <2>3. Gap(tail_cache', head') = Gap(tail_cache, head)
    OBVIOUS
  <2> QED BY <1>1, <2>1, <2>2, <2>3 DEF FlushInv
<1> QED BY <1>1, <1>4, <1>5 DEF IdleInv, BatchInv, ClosedInv

LEMMA IInvStep ==
  ASSUME IInv, [Next]_vars
  PROVE  IInv'
<1>1. CASE UNCHANGED vars
  BY <1>1 DEF vars, process, card, IInv, TypeOK, IdleInv, FlushInv, BatchInv, ClosedInv, Gap
<1> QED BY <1>1, UserStep, KernelStep, CardStep DEF Next

-----------------------------------------------------------------------------
(* The theorems. *)

LEMMA Inductive == Spec => []IInv
BY IInvInit, IInvStep, PTL DEF Spec

\* The indices stay in the ring, and a batch stays below a lap.
THEOREM TypeCorrect == Spec => []TypeOK
<1>1. IInv => TypeOK
  BY DEF IInv
<1> QED BY <1>1, Inductive, PTL

\* The cached tail is never ahead of the card.
THEOREM CacheNeverAhead == Spec => []CacheBehind
<1>1. IInv => CacheBehind
  <2> SUFFICES ASSUME IInv PROVE CacheBehind
    OBVIOUS
  <2>1. CASE pc = "poll"
    BY <2>1 DEF IInv, FlushInv, CacheBehind
  <2>2. CASE pc # "poll"
    <3>1. tail_cache = FifoTail
      BY <2>2 DEF IInv, TypeOK, Points, IdleInv, ClosedInv
    <3>2. Gap(FifoTail, head) \in Nat
      BY GapBounds, FifoAssumption DEF IInv, TypeOK
    <3> QED BY <3>1, <3>2 DEF CacheBehind
  <2> QED BY <2>1, <2>2
<1> QED BY <1>1, Inductive, PTL

\* A call that flushes returns only when the card has executed everything.
THEOREM FlushIsBarrier == Spec => []FlushDrains
<1>1. IInv => FlushDrains
  BY DEF IInv, IdleInv, FlushDrains, Unread
<1> QED BY <1>1, Inductive, PTL

\* The ring is freed only when the card has stopped reading it.
THEOREM FreedWhenIdle == Spec => []FreedIdle
<1>1. IInv => FreedIdle
  BY DEF IInv, ClosedInv, FreedIdle
<1> QED BY <1>1, Inductive, PTL

-----------------------------------------------------------------------------
(* Slices of the ring: what the n entries from t on hold, in ring order.     *)

Commands == 0 .. MaxCommands
Rings == [Entries -> Commands]

\* The entry i places from the start of the ring, for an i below two laps.
Place(i) == i % FIFO_ENTRIES

Slice(r, t, n) == [k \in 1 .. n |-> r[Place(t + k - 1)]]

LEMMA PlaceStays ==
  ASSUME NEW i \in 0 .. 2 * FIFO_ENTRIES - 1
  PROVE  /\ Place(i) \in Entries
         /\ i < FIFO_ENTRIES => Place(i) = i
         /\ i >= FIFO_ENTRIES => Place(i) = i - FIFO_ENTRIES
<1> FIFO_ENTRIES \in Nat /\ FIFO_ENTRIES > 0
  BY FifoAssumption DEF FifoAssumption, OffCommands
<1>1. ASSUME i < FIFO_ENTRIES
      PROVE  i % FIFO_ENTRIES = i
  BY <1>1, SMTT(30)
<1>2. ASSUME i >= FIFO_ENTRIES
      PROVE  i % FIFO_ENTRIES = i - FIFO_ENTRIES
  BY <1>2, SMTT(30)
<1> QED BY <1>1, <1>2 DEF Place, Entries

\* Two places less than a lap apart are different entries.
LEMMA PlaceApart ==
  ASSUME NEW i \in 0 .. 2 * FIFO_ENTRIES - 1, NEW j \in 0 .. 2 * FIFO_ENTRIES - 1,
         i < j, j < i + FIFO_ENTRIES
  PROVE  Place(i) # Place(j)
BY PlaceStays, FifoAssumption DEF FifoAssumption

\* One entry on is one place on.
LEMMA PlaceAdvances ==
  ASSUME NEW t \in Entries, NEW k \in 1 .. FIFO_ENTRIES - 1
  PROVE  Place(Advance(t) + k - 1) = Place(t + (k + 1) - 1)
BY PlaceStays, FifoAssumption DEF FifoAssumption, Advance, Entries

\* head is as many places on from the card as there are entries unread.
LEMMA PlaceOfHead ==
  ASSUME NEW i \in Entries, NEW j \in Entries
  PROVE  Place(i + Gap(i, j)) = j /\ i + Gap(i, j) \in 0 .. 2 * FIFO_ENTRIES - 1
BY PlaceStays, FifoAssumption DEF FifoAssumption, Gap, Entries

\* The sequence s is what the n entries of r from t on hold.
Reads(s, r, t, n) ==
  /\ s \in Seq(Commands) /\ Len(s) = n
  /\ \A k \in 1 .. n : s[k] = r[Place(t + k - 1)]

\* A slice of at most a lap is such a sequence, and the only one.
LEMMA SliceReads ==
  ASSUME NEW r \in Rings, NEW t \in Entries, NEW n \in 0 .. FIFO_ENTRIES
  PROVE  Reads(Slice(r, t, n), r, t, n)
<1>0. n \in Nat
  BY FifoAssumption DEF FifoAssumption
<1>1. \A k \in 1 .. n : Place(t + k - 1) \in Entries
  BY PlaceStays, FifoAssumption DEF FifoAssumption, Entries
<1>2. Slice(r, t, n) \in [1 .. n -> Commands]
  BY <1>1 DEF Slice, Rings
<1>3. Slice(r, t, n) \in Seq(Commands)
  BY <1>0, <1>2, SeqDef
<1>4. Len(Slice(r, t, n)) = n
  BY <1>0, <1>2, <1>3, LenProperties
<1> QED BY <1>3, <1>4 DEF Slice, Reads

LEMMA ReadsUnique ==
  ASSUME NEW r, NEW t, NEW n, NEW s, NEW q, Reads(s, r, t, n), Reads(q, r, t, n)
  PROVE  s = q
<1>1. Len(s) = Len(q) /\ \A k \in 1 .. Len(s) : s[k] = q[k]
  BY DEF Reads
<1> QED BY <1>1, SeqEqual DEF Reads

LEMMA SliceEmpty ==
  ASSUME NEW r \in Rings, NEW t \in Entries
  PROVE  Slice(r, t, 0) = <<>>
<1>1. 0 \in 0 .. FIFO_ENTRIES
  BY FifoAssumption DEF FifoAssumption
<1>2. Reads(Slice(r, t, 0), r, t, 0)
  BY <1>1, SliceReads, Zenon
<1> QED BY <1>2, EmptySeq DEF Reads

\* Writing behind a slice of less than a lap appends to it.
LEMMA SliceGrows ==
  ASSUME NEW r \in Rings, NEW t \in Entries, NEW n \in 0 .. FIFO_ENTRIES - 1,
         NEW c \in Commands
  PROVE  Slice([r EXCEPT ![Place(t + n)] = c], t, n + 1) = Append(Slice(r, t, n), c)
<1>0. PICK new : new = [r EXCEPT ![Place(t + n)] = c]
  OBVIOUS
<1>1. /\ n \in 0 .. FIFO_ENTRIES /\ n + 1 \in 0 .. FIFO_ENTRIES /\ n \in Nat
      /\ t + n \in 0 .. 2 * FIFO_ENTRIES - 1 /\ t \in Nat
  BY FifoAssumption DEF FifoAssumption, Entries
<1>2. Place(t + n) \in Entries /\ new \in Rings
  BY <1>0, <1>1, PlaceStays DEF Rings
<1>3. Reads(Slice(new, t, n + 1), new, t, n + 1)
  BY <1>1, <1>2, SliceReads, Zenon
<1>4. PICK s : s = Slice(r, t, n) /\ Reads(s, r, t, n)
  BY <1>1, SliceReads, Zenon
<1>5. Append(s, c) \in Seq(Commands) /\ Len(Append(s, c)) = n + 1
  BY <1>4, AppendProperties DEF Reads
<1>6. \A k \in 1 .. n + 1 : Append(s, c)[k] = new[Place(t + k - 1)]
  <2> TAKE k \in 1 .. n + 1
  <2>1. CASE k = n + 1
    <3>1. t + k - 1 = t + n
      BY <1>1, <2>1
    <3>2. new[Place(t + n)] = c
      BY <1>0, <1>2 DEF Rings
    <3>3. Append(s, c)[n + 1] = c
      BY <1>4, AppendProperties DEF Reads
    <3> QED BY <2>1, <3>1, <3>2, <3>3
  <2>2. CASE k # n + 1
    <3>1. k \in 1 .. n /\ t + k - 1 \in 0 .. 2 * FIFO_ENTRIES - 1
          /\ t + k - 1 < t + n /\ t + n < t + k - 1 + FIFO_ENTRIES
      BY <1>1, <2>2, FifoAssumption DEF FifoAssumption, Entries
    <3>2. Place(t + k - 1) # Place(t + n) /\ Place(t + k - 1) \in Entries
      BY <1>1, <3>1, PlaceApart, PlaceStays
    <3>3. Append(s, c)[k] = s[k] /\ s[k] = r[Place(t + k - 1)]
      BY <1>4, <3>1, AppendProperties DEF Reads
    <3>4. new[Place(t + k - 1)] = r[Place(t + k - 1)]
      BY <1>0, <3>2 DEF Rings
    <3> QED BY <3>3, <3>4
  <2> QED BY <2>1, <2>2
<1>7. Reads(Append(s, c), new, t, n + 1)
  BY <1>5, <1>6 DEF Reads
<1> QED BY <1>0, <1>3, <1>4, <1>7, ReadsUnique

\* Without its first entry a slice is its own tail.
LEMMA SliceShrinks ==
  ASSUME NEW r \in Rings, NEW t \in Entries, NEW n \in 1 .. FIFO_ENTRIES - 1
  PROVE  /\ Slice(r, t, n) # <<>>
         /\ Head(Slice(r, t, n)) = r[t]
         /\ Tail(Slice(r, t, n)) = Slice(r, Advance(t), n - 1)
<1>1. /\ n \in 0 .. FIFO_ENTRIES /\ n - 1 \in 0 .. FIFO_ENTRIES /\ n \in Nat /\ n > 0
      /\ Advance(t) \in Entries /\ Place(t) = t
  BY PlaceStays, AdvanceStays, FifoAssumption DEF FifoAssumption, Entries
<1>2. PICK s : s = Slice(r, t, n) /\ Reads(s, r, t, n)
  BY <1>1, SliceReads, Zenon
<1>3. Reads(Slice(r, Advance(t), n - 1), r, Advance(t), n - 1)
  BY <1>1, SliceReads, Zenon
<1>4. s # <<>> /\ Head(s) = r[t]
  <2>1. t + 1 - 1 = t /\ 1 \in 1 .. n
    BY <1>1 DEF Entries
  <2>2. Len(s) # 0 /\ s[1] = r[Place(t + 1 - 1)]
    BY <1>1, <1>2, <2>1 DEF Reads
  <2> QED BY <1>1, <1>2, <2>1, <2>2, EmptySeq DEF Reads
<1>5. /\ Tail(s) \in Seq(Commands) /\ Len(Tail(s)) = n - 1
      /\ \A k \in 1 .. n - 1 : Tail(s)[k] = s[k + 1]
  BY <1>2, <1>4, HeadTailProperties DEF Reads
<1>6. \A k \in 1 .. n - 1 : Tail(s)[k] = r[Place(Advance(t) + k - 1)]
  <2> TAKE k \in 1 .. n - 1
  <2>1. k + 1 \in 1 .. n /\ k \in 1 .. FIFO_ENTRIES - 1
    BY <1>1, FifoAssumption DEF FifoAssumption
  <2>2. Place(Advance(t) + k - 1) = Place(t + (k + 1) - 1)
    BY <2>1, PlaceAdvances
  <2>3. s[k + 1] = r[Place(t + (k + 1) - 1)]
    BY <1>2, <2>1 DEF Reads
  <2> QED BY <1>5, <2>2, <2>3
<1>7. Reads(Tail(s), r, Advance(t), n - 1)
  BY <1>5, <1>6 DEF Reads
<1> QED BY <1>2, <1>3, <1>4, <1>7, ReadsUnique

-----------------------------------------------------------------------------
(* Each step of the process, the driver or the card is a step of the queue,  *)
(* or none.                                                                  *)

Closed == pc = "closed"
Backlog == IF Closed THEN 0 ELSE Unread

\* What is pending is the slice from the card's tail up to head.
LEMMA PendingIsSlice ==
  /\ Pending = Slice(ring, FifoTail, Backlog)
  /\ Pending' = Slice(ring', FifoTail', Backlog')
BY DEF Pending, Slice, Backlog, Closed, Place

\* The slice is less than a lap, and there is none while the device is closed.
LEMMA BacklogFits ==
  ASSUME IInv
  PROVE  /\ ring \in Rings /\ FifoTail \in Entries /\ head \in Entries
         /\ Backlog \in 0 .. FIFO_ENTRIES - 1
         /\ Place(FifoTail + Unread) = head
         /\ Closed => Pending = <<>>
<1>1. ring \in Rings /\ FifoTail \in Entries /\ head \in Entries
  BY DEF IInv, TypeOK, Rings, Commands
<1>2. Unread \in 0 .. FIFO_ENTRIES - 1 /\ Place(FifoTail + Unread) = head
  BY <1>1, GapBounds, PlaceOfHead DEF Unread
<1>3. Closed => Slice(ring, FifoTail, Backlog) = <<>>
  BY <1>1, SliceEmpty DEF Backlog
<1>4. Backlog \in 0 .. FIFO_ENTRIES - 1
  BY <1>2, FifoAssumption DEF FifoAssumption, Backlog
<1> QED BY <1>1, <1>2, <1>3, <1>4, PendingIsSlice

\* Nothing is pending once the device is closed.
LEMMA ClosedEmpty ==
  ASSUME IInv, Closed', UNCHANGED ring, UNCHANGED FifoTail
  PROVE  Pending' = <<>>
<1>1. ring \in Rings /\ FifoTail \in Entries
  BY BacklogFits
<1>2. Slice(ring, FifoTail, 0) = <<>>
  BY <1>1, SliceEmpty
<1> QED BY <1>2, PendingIsSlice DEF Backlog

LEMMA RefinesInit == Init => Queue!Init
<1> SUFFICES ASSUME Init PROVE Queue!Init
  OBVIOUS
<1>1. Pending = <<>>
  BY IInvInit, BacklogFits DEF Init, Closed
<1> QED BY <1>1 DEF Queue!Init, Init

\* The steps that the queue does not see: they leave the ring, the card and the
\* queue's mode as they are.
LEMMA Stutter ==
  ASSUME UNCHANGED <<head, ring, FifoTail, executed>>,
         Closed' = Closed, (pc' = "poll") = (pc = "poll")
  PROVE  UNCHANGED Queue!vars
<1>1. Backlog' = Backlog
  BY DEF Backlog, Unread, Gap
<1>2. Pending' = Pending
  BY <1>1, PendingIsSlice
<1> QED BY <1>2 DEF Queue!vars, Closed

\* FIFO_WRITE queues its command.
LEMMA QueueStep ==
  ASSUME IInv, NEW c \in Commands, FIFO_WRITE(c), UNCHANGED <<FifoTail, executed>>,
         pc \in {"user", "write"}, pc' \in {"user", "write", "head"},
         batch < MaxBatch + OnCommands
  PROVE  Queue!Queue(c)
<1>1. /\ ring \in Rings /\ FifoTail \in Entries /\ head \in Entries
      /\ Backlog \in 0 .. FIFO_ENTRIES - 1
      /\ Place(FifoTail + Backlog) = head /\ Backlog = Unread
  BY BacklogFits DEF Closed, Backlog
<1>2. ring' = [ring EXCEPT ![Place(FifoTail + Backlog)] = c]
  BY <1>1 DEF FIFO_WRITE
<1>3. Backlog' = Backlog + 1
  <2>1. Gap(FifoTail, head) < FIFO_ENTRIES - 1
    BY FifoAssumption DEF FifoAssumption, IInv, IdleInv, TypeOK
  <2>2. Gap(FifoTail, Advance(head)) = Gap(FifoTail, head) + 1
    BY <1>1, <2>1, GapGrows
  <2> QED BY <1>1, <2>2 DEF FIFO_WRITE, Backlog, Unread, Closed
<1>4. Slice([ring EXCEPT ![Place(FifoTail + Backlog)] = c], FifoTail, Backlog + 1)
        = Append(Slice(ring, FifoTail, Backlog), c)
  BY <1>1, SliceGrows, Zenon
<1>5. Pending' = Append(Pending, c)
  BY <1>2, <1>3, <1>4, PendingIsSlice
<1> QED BY <1>5 DEF Queue!Queue

\* The card executes the oldest command.
LEMMA ExecuteStep ==
  ASSUME IInv, card_execute
  PROVE  Queue!Execute
<1>1. pc = "poll" /\ FifoHead = head /\ FifoTail # head
  BY DEF IInv, TypeOK, IdleInv, FlushInv, ClosedInv, Points, card_execute
<1>2. /\ ring \in Rings /\ FifoTail \in Entries /\ head \in Entries
      /\ Backlog = Unread /\ Backlog \in 1 .. FIFO_ENTRIES - 1
  <2>1. Gap(FifoTail, head) # 0
    BY <1>1, BacklogFits, GapBounds
  <2> QED BY <1>1, <2>1, BacklogFits DEF Backlog, Closed, Unread
<1>3. UNCHANGED <<pc, ring, head>> /\ FifoTail' = Advance(FifoTail)
  BY <1>2, FifoAssumption DEF FifoAssumption, card_execute, process, Entries, Advance
<1>4. Backlog' = Backlog - 1
  <2>1. Gap(Advance(FifoTail), head) = Gap(FifoTail, head) - 1
    BY <1>1, <1>2, GapShrinks
  <2> QED BY <1>1, <1>2, <1>3, <2>1 DEF Backlog, Closed, Unread
<1>5. /\ Slice(ring, FifoTail, Backlog) # <<>>
      /\ Head(Slice(ring, FifoTail, Backlog)) = ring[FifoTail]
      /\ Tail(Slice(ring, FifoTail, Backlog)) = Slice(ring, Advance(FifoTail), Backlog - 1)
  BY <1>2, SliceShrinks, Zenon
<1>6. Pending' = Slice(ring, Advance(FifoTail), Backlog - 1)
  BY <1>3, <1>4, PendingIsSlice
<1> QED BY <1>1, <1>3, <1>5, <1>6, PendingIsSlice DEF Queue!Execute, card_execute

LEMMA RefinesStep ==
  ASSUME IInv, IInv', [Next]_vars
  PROVE  [Queue!Next]_Queue!vars
<1> USE DEF Closed, process, card
<1>1. CASE UNCHANGED vars
  BY <1>1, Stutter DEF vars
<1>2. CASE ioctl_flush \/ graphics_on_begin \/ graphics_off_begin \/ kyouko3_release_on
           \/ fifo_flush_poll
  BY <1>2, Stutter DEF ioctl_flush, Begin, graphics_on_begin, graphics_off_begin,
                       kyouko3_release_on, fifo_flush_poll
<1>3. CASE kyouko3_open
  <2>1. pc = "closed" /\ pc' = "user" /\ executed' = executed /\ Pending = <<>>
    BY <1>3, BacklogFits DEF kyouko3_open
  <2>2. head' = 0 /\ FifoTail' = 0 /\ ring' \in Rings /\ 0 \in Entries
    BY <1>3 DEF kyouko3_open, IInv, TypeOK, Rings, Commands
  <2>3. Backlog' = 0
    BY <2>1, <2>2 DEF Backlog, Unread, Gap
  <2>4. Slice(ring', 0, 0) = <<>>
    BY <2>2, SliceEmpty
  <2>5. Pending' = <<>>
    BY <2>2, <2>3, <2>4, PendingIsSlice
  <2> QED BY <2>1, <2>5 DEF Queue!Next, Queue!Open
<1>4. CASE fifo_queue
  <2>1. PICK c \in {issued + 1, Garbage} : FIFO_WRITE(c)
    BY <1>4 DEF fifo_queue
  <2>2. c \in Commands /\ batch < MaxBatch + OnCommands
    BY <1>4, FifoAssumption DEF fifo_queue, FifoAssumption, IInv, TypeOK, BatchInv, Commands, Garbage
  <2>3. Queue!Queue(c)
    BY <1>4, <2>1, <2>2, QueueStep DEF fifo_queue
  <2> QED BY <2>2, <2>3 DEF Queue!Next, Commands
<1>5. CASE graphics_write
  <2>1. issued + 1 \in Commands /\ batch < MaxBatch + OnCommands
    BY <1>5, FifoAssumption DEF graphics_write, FifoAssumption, IInv, TypeOK, BatchInv, Commands
  <2>2. Queue!Queue(issued + 1)
    BY <1>5, <2>1, QueueStep DEF graphics_write
  <2> QED BY <2>1, <2>2 DEF Queue!Next, Commands
<1>6. CASE kyouko3_release_off
  <2>1. /\ pc = "user" /\ pc' = "closed"
        /\ UNCHANGED <<ring, FifoTail, executed>>
    BY <1>6 DEF kyouko3_release_off
  <2>2. Pending' = <<>>
    BY <2>1, ClosedEmpty
  <2> QED BY <2>1, <2>2 DEF Queue!Next, Queue!Close
<1>7. CASE fifo_flush_head
  <2>1. pc = "head" /\ pc' = "poll" /\ UNCHANGED <<head, ring, FifoTail, executed>>
    BY <1>7 DEF fifo_flush_head
  <2>2. Backlog' = Backlog
    BY <2>1 DEF Backlog, Unread, Gap
  <2>3. Pending' = Pending
    BY <2>1, <2>2, PendingIsSlice
  <2> QED BY <2>1, <2>3 DEF Queue!Next, Queue!FlushBegin
<1>8. CASE fifo_flush_end
  <2>1. /\ pc = "poll" /\ pc' \in {"user", "closed"}
        /\ UNCHANGED <<head, ring, FifoTail, executed>>
    BY <1>8 DEF fifo_flush_end
  <2>2. Unread = 0 /\ ring \in Rings /\ FifoTail \in Entries
    <3>1. Gap(tail_cache, head) = 0
      BY <1>8, GapBounds DEF fifo_flush_end, Drained, IInv, TypeOK
    <3>2. Gap(FifoTail, head) <= Gap(tail_cache, head)
      BY <2>1 DEF IInv, FlushInv
    <3>3. Gap(FifoTail, head) \in Nat /\ ring \in Rings /\ FifoTail \in Entries
      BY BacklogFits, GapBounds
    <3> QED BY <3>1, <3>2, <3>3 DEF Unread
  <2>3. Backlog = 0 /\ Backlog' = 0
    BY <2>1, <2>2 DEF Backlog, Unread, Gap
  <2>4. Pending = <<>> /\ Pending' = <<>>
    BY <2>1, <2>2, <2>3, SliceEmpty, PendingIsSlice
  <2> QED BY <2>1, <2>4 DEF Queue!Next, Queue!FlushEnd
<1>9. CASE card_execute
  BY <1>9, ExecuteStep DEF Queue!Next
<1> QED
  BY <1>1, <1>2, <1>3, <1>4, <1>5, <1>6, <1>7, <1>8, <1>9 DEF Next, User, Kernel

\* The ring implements the command queue for every ring size and every client
\* that keeps a batch below a lap: no command is overwritten before the card
\* executes it, none is executed twice or out of order, and fifo_flush is a
\* barrier.
THEOREM QueueImplemented == Spec => Queue!Spec
BY RefinesInit, RefinesStep, Inductive, PTL DEF Spec, Queue!Spec
=============================================================================
