-------------------------- MODULE Kyouko3DmaProofs --------------------------
(***************************************************************************)
(* Proofs about Kyouko3Dma, for every number and size of buffers, every    *)
(* set of ints passed to START_DMA, any number of requests and signals at  *)
(* any time: the safety properties of the DMA ring hold until a signal has *)
(* ended a wait whose caller then goes on as if it had been successful.    *)
(***************************************************************************)
EXTENDS Kyouko3Dma, SequenceTheorems, TLAPS

-----------------------------------------------------------------------------
(* The inductive invariant. *)

\* queued_count buffers lie between drain and fill, fill = drain meaning both
\* empty and full; the direct path advances fill only after it has unlocked.
RingInv ==
  /\ fill = IF pc = "direct" THEN drain ELSE Slot(queued_count)
  /\ Submitting => queued_count = 1

\* Every queued buffer but the oldest, which the card has, was left with a
\* valid count for dma_intr to submit.
StoredInv ==
  /\ \A k \in 1 .. queued_count - 1 : stored_count[Slot(k)] \in 1 .. DMA_BUFF_SIZE
  /\ Submitting => count \in 1 .. DMA_BUFF_SIZE

\* What the buffers' life cycle looks like from each point of the driver.
LifeInv ==
  /\ pc \notin {"user", "closed"} => dma_mapped
  /\ pc = "closed" => ~dma_mapped
  /\ u_base # NoBuffer => dma_mapped
  /\ ~dma_mapped \/ pc \in {"free", "disable"} => queued_count = 0
  /\ allocated <=> dma_mapped /\ pc # "disable"
  /\ irq_on <=> dma_mapped

\* A process asleep has a reason to, and one that may go on to fill a buffer
\* owns the one at fill.
ProcessInv ==
  /\ pc = "not_full_asleep" => queued_count = DMA_NUM_BUFFS
  /\ pc = "empty_asleep" => queued_count # 0
  /\ pc \in {"empty", "empty_asleep", "free", "disable"} => u_base = NoBuffer
  /\ pc = "filled" => u_base # NoBuffer /\ u_base = fill /\ queued_count < DMA_NUM_BUFFS
  /\ pc = "return" /\ signal # "fatal" => queued_count < DMA_NUM_BUFFS
  /\ pc = "user" /\ signal # "fatal" /\ u_base # NoBuffer
       => u_base = fill /\ queued_count < DMA_NUM_BUFFS

IInv ==
  /\ Typed
  /\ RingInv
  /\ StoredInv
  /\ LifeInv
  /\ ProcessInv
  /\ CardMatches

-----------------------------------------------------------------------------
(* The arithmetic of the ring, the argument check and the command queue. *)

\* Advancing an index stays in the ring and wraps only at its end.
LEMMA SuccIs ==
  ASSUME NEW i \in Buffers
  PROVE  /\ Succ(i) = IF i = DMA_NUM_BUFFS - 1 THEN 0 ELSE i + 1
         /\ Succ(i) \in Buffers
BY DmaAssumption, SMT DEF DmaAssumption, Buffers, Succ

\* The k-th queued buffer, without the remainder.
LEMMA SlotIs ==
  ASSUME drain \in Buffers, NEW k \in 0 .. DMA_NUM_BUFFS
  PROVE  /\ Slot(k) = IF drain + k < DMA_NUM_BUFFS THEN drain + k
                      ELSE drain + k - DMA_NUM_BUFFS
         /\ Slot(k) \in Buffers
BY DmaAssumption, SMT DEF DmaAssumption, Buffers, Slot

\* Slot(0) is drain, and so is Slot(DMA_NUM_BUFFS): fill = drain stands for
\* both the empty and the full ring.
LEMMA SlotEnds ==
  ASSUME drain \in Buffers, NEW k \in 0 .. DMA_NUM_BUFFS
  PROVE  Slot(k) = drain <=> k = 0 \/ k = DMA_NUM_BUFFS
BY SlotIs, DmaAssumption DEF Buffers, DmaAssumption

\* No two of the buffers from drain up to fill are the same.
LEMMA SlotInjective ==
  ASSUME drain \in Buffers,
         NEW k \in 0 .. DMA_NUM_BUFFS - 1, NEW j \in 0 .. DMA_NUM_BUFFS - 1, Slot(k) = Slot(j)
  PROVE  k = j
BY DmaAssumption, SMT DEF DmaAssumption, Buffers, Slot

\* The buffer after the k-th one is the (k+1)-th one.
LEMMA SlotNext ==
  ASSUME drain \in Buffers, NEW k \in 0 .. DMA_NUM_BUFFS - 1
  PROVE  Succ(Slot(k)) = Slot(k + 1)
BY DmaAssumption, SMT DEF DmaAssumption, Buffers, Slot, Succ

\* Numbering from the next drain shifts the queued buffers by one.
LEMMA SlotShift ==
  ASSUME NEW d \in Buffers, NEW k \in 0 .. DMA_NUM_BUFFS - 1
  PROVE  (((d + 1) % DMA_NUM_BUFFS) + k) % DMA_NUM_BUFFS = (d + (k + 1)) % DMA_NUM_BUFFS
BY DmaAssumption, SMT DEF DmaAssumption, Buffers

\* The two checks of start_dma let through exactly the counts that fit a
\* buffer: a negative int is a huge unsigned value.
LEMMA AcceptedFits ==
  ASSUME NEW c \in Counts \cup {0}, Accepted(c)
  PROVE  c \in 1 .. DMA_BUFF_SIZE
<1>1. c \in Int /\ -Word <= c + c /\ c + c < Word
  BY DmaAssumption DEF DmaAssumption
<1>2. CASE c < 0
  BY <1>1, <1>2, DmaAssumption DEF DmaAssumption, Accepted, Unsigned
<1>3. CASE c >= 0
  BY <1>1, <1>3, DmaAssumption DEF DmaAssumption, Accepted, Unsigned
<1> QED BY <1>1, <1>2, <1>3

\* A command given to an idle card is the only one it has.
LEMMA FirstCommand ==
  ASSUME NEW T, NEW s \in Seq(T), Len(s) = 0, NEW c \in T
  PROVE  /\ Append(s, c) \in Seq(T)
         /\ Len(Append(s, c)) = 1
         /\ Append(s, c) # <<>>
         /\ Head(Append(s, c)) = c
<1>1. s = <<>>
  BY EmptySeq
<1>2. Append(s, c) = <<c>>
  BY <1>1
<1> QED BY <1>2

\* Finishing the only command leaves the card idle.
LEMMA LastCommand ==
  ASSUME NEW T, NEW s \in Seq(T), Len(s) = 1
  PROVE  /\ Head(s) \in T
         /\ Tail(s) \in Seq(T)
         /\ Len(Tail(s)) = 0
         /\ Tail(s) = <<>>
<1>1. s # <<>>
  BY EmptySeq
<1>2. Head(s) \in T /\ Tail(s) \in Seq(T) /\ Len(Tail(s)) = 0
  BY <1>1, HeadTailProperties
<1> QED BY <1>2, EmptySeq

-----------------------------------------------------------------------------
(* IInv is inductive. *)

LEMMA IInvInit == Init => IInv
<1> SUFFICES ASSUME Init PROVE IInv
  OBVIOUS
<1> USE DmaAssumption DEF DmaAssumption, Init
<1>1. Typed
  BY DEF Typed, Buffers, NoBuffer, Points
<1>2. RingInv /\ StoredInv
  BY SlotIs DEF RingInv, StoredInv, Submitting, Slot, Buffers
<1>3. LifeInv /\ ProcessInv /\ CardMatches
  BY DEF LifeInv, ProcessInv, CardMatches, NoBuffer, Submitting
<1> QED BY <1>1, <1>2, <1>3 DEF IInv

\* The actions that leave the ring and the card alone: the process moves
\* between points at which nothing is queued, or queued_count does not matter.
LEMMA LifeCycleStep ==
  ASSUME IInv,
         kyouko3_open \/ user_fill \/ kyouko3_release \/ bind_dma \/ on_time_unbind_dma
           \/ late_unbind_dma_free \/ late_unbind_dma_disable \/ handle_signal
  PROVE  IInv'
<1> USE DmaAssumption DEF DmaAssumption, IInv
<1>1. CASE kyouko3_open
  <2> USE <1>1 DEF kyouko3_open, card
  <2>1. Typed'
    BY DEF Typed, Points, Waiting, Asleep, Buffers, NoBuffer
  <2>2. RingInv'
    BY DEF Typed, RingInv, Submitting, Slot
  <2>3. StoredInv'
    BY DEF Typed, StoredInv, Submitting, Slot
  <2>4. LifeInv'
    BY DEF LifeInv, ProcessInv, Typed, NoBuffer
  <2>5. ProcessInv'
    BY DEF ProcessInv, LifeInv, Typed, NoBuffer
  <2>6. CardMatches'
    BY DEF CardMatches, LifeInv, Submitting
  <2> QED BY <2>1, <2>2, <2>3, <2>4, <2>5, <2>6
<1>2. CASE user_fill
  <2> USE <1>2 DEF user_fill, card, driver
  <2>1. Typed'
    <3>1. /\ data' \in [Buffers -> 0 .. MaxRequests]
          /\ requests' \in 0 .. MaxRequests
          /\ count' \in Counts \cup {0}
      BY DEF Typed
    <3> QED BY <3>1 DEF Typed, Points
  <2>2. RingInv'
    BY DEF Typed, RingInv, Submitting, Slot
  <2>3. StoredInv'
    BY DEF Typed, StoredInv, Submitting, Slot
  <2>4. LifeInv'
    BY DEF LifeInv, ProcessInv, Typed, NoBuffer
  <2>5. ProcessInv'
    BY DEF ProcessInv, LifeInv, Typed, NoBuffer
  <2>6. CardMatches'
    BY DEF CardMatches, LifeInv, Submitting
  <2> QED BY <2>1, <2>2, <2>3, <2>4, <2>5, <2>6
<1>3. CASE kyouko3_release
  <2> USE <1>3 DEF kyouko3_release, card, driver, MustDrain
  <2>1. Typed'
    BY DEF Typed, Points, Waiting, Asleep, Buffers, NoBuffer
  <2>2. RingInv'
    BY DEF Typed, RingInv, Submitting, Slot
  <2>3. StoredInv'
    BY DEF Typed, StoredInv, Submitting, Slot
  <2>4. LifeInv'
    BY DEF LifeInv, ProcessInv, Typed, NoBuffer
  <2>5. ProcessInv'
    BY DEF ProcessInv, LifeInv, Typed, NoBuffer
  <2>6. CardMatches'
    BY DEF CardMatches, LifeInv, Submitting
  <2> QED BY <2>1, <2>2, <2>3, <2>4, <2>5, <2>6
<1>4. CASE bind_dma
  <2> USE <1>4 DEF bind_dma, card
  <2>1. Typed'
    BY DEF Typed, Points, Waiting, Asleep, Buffers, NoBuffer
  <2>2. RingInv'
    BY SlotIs DEF RingInv, Submitting, Slot, Buffers
  <2>3. StoredInv'
    BY DEF Typed, StoredInv, Submitting, Slot
  <2>4. LifeInv'
    BY DEF LifeInv, ProcessInv, Typed, NoBuffer
  <2>5. ProcessInv'
    BY DEF ProcessInv, LifeInv, Typed, NoBuffer
  <2>6. CardMatches'
    BY DEF CardMatches, LifeInv, Submitting
  <2> QED BY <2>1, <2>2, <2>3, <2>4, <2>5, <2>6
<1>5. CASE on_time_unbind_dma
  <2> USE <1>5 DEF on_time_unbind_dma, card, driver, MustDrain
  <2>1. Typed'
    BY DEF Typed, Points, Waiting, Asleep, Buffers, NoBuffer
  <2>2. RingInv'
    BY DEF Typed, RingInv, Submitting, Slot
  <2>3. StoredInv'
    BY DEF Typed, StoredInv, Submitting, Slot
  <2>4. LifeInv'
    BY DEF LifeInv, ProcessInv, Typed, NoBuffer
  <2>5. ProcessInv'
    BY DEF ProcessInv, LifeInv, Typed, NoBuffer
  <2>6. CardMatches'
    BY DEF CardMatches, LifeInv, Submitting
  <2> QED BY <2>1, <2>2, <2>3, <2>4, <2>5, <2>6
<1>6. CASE late_unbind_dma_free
  <2> USE <1>6 DEF late_unbind_dma_free, card
  <2>1. Typed'
    BY DEF Typed, Points, Waiting, Asleep, Buffers, NoBuffer
  <2>2. RingInv'
    BY DEF Typed, RingInv, Submitting, Slot
  <2>3. StoredInv'
    BY DEF Typed, StoredInv, Submitting, Slot
  <2>4. LifeInv'
    BY DEF LifeInv, ProcessInv, Typed, NoBuffer
  <2>5. ProcessInv'
    BY DEF ProcessInv, LifeInv, Typed, NoBuffer
  <2>6. CardMatches'
    BY DEF CardMatches, LifeInv, Submitting
  <2> QED BY <2>1, <2>2, <2>3, <2>4, <2>5, <2>6
<1>7. CASE late_unbind_dma_disable
  <2> USE <1>7 DEF late_unbind_dma_disable, card
  <2>1. Typed'
    BY DEF Typed, Points, Waiting, Asleep, Buffers, NoBuffer
  <2>2. RingInv'
    BY DEF Typed, RingInv, Submitting, Slot
  <2>3. StoredInv'
    BY DEF Typed, StoredInv, Submitting, Slot
  <2>4. LifeInv'
    BY DEF LifeInv, ProcessInv, Typed, NoBuffer, CardMatches
  <2>5. ProcessInv'
    BY DEF ProcessInv, LifeInv, Typed, NoBuffer
  <2>6. CardMatches'
    BY DEF CardMatches, LifeInv, Submitting
  <2> QED BY <2>1, <2>2, <2>3, <2>4, <2>5, <2>6
<1>8. CASE handle_signal
  BY <1>8 DEF handle_signal, driver, card, Typed, RingInv, StoredInv, LifeInv, ProcessInv,
     CardMatches, Submitting, Slot
<1> QED BY <1>1, <1>2, <1>3, <1>4, <1>5, <1>6, <1>7, <1>8

\* The steps of START_DMA.
LEMMA StartDmaStep ==
  ASSUME IInv,
         start_dma_reject \/ start_dma_direct \/ start_dma_direct_fill
           \/ start_dma_direct_submit \/ start_dma_queue \/ start_dma_return
  PROVE  IInv'
<1> USE DmaAssumption DEF DmaAssumption, IInv
<1>1. CASE start_dma_reject
  BY <1>1 DEF start_dma_reject, driver, card, Typed, Points, RingInv, StoredInv, LifeInv,
     ProcessInv, CardMatches, Submitting, Slot
<1>2. CASE start_dma_direct
  <2> USE <1>2 DEF start_dma_direct, card
  <2>1. fill = drain /\ queued_count < DMA_NUM_BUFFS /\ drain \in Buffers
    BY DEF Typed, ProcessInv
  <2>2. queued_count = 0
    <3>1. queued_count \in 0 .. DMA_NUM_BUFFS - 1 /\ Slot(queued_count) = drain
      BY <2>1 DEF Typed, RingInv
    <3> QED BY <2>1, <3>1, SlotEnds
  <2>3. count \in 1 .. DMA_BUFF_SIZE
    BY AcceptedFits DEF Typed
  <2>4. Typed'
    BY <2>2 DEF Typed, Points
  <2>5. RingInv' /\ StoredInv'
    BY <2>1, <2>2, <2>3 DEF RingInv, StoredInv, Submitting
  <2>6. LifeInv' /\ ProcessInv' /\ CardMatches'
    BY <2>2 DEF LifeInv, ProcessInv, CardMatches, Submitting
  <2> QED BY <2>4, <2>5, <2>6
<1>3. CASE start_dma_direct_fill
  <2> USE <1>3 DEF start_dma_direct_fill, card
  <2>1. fill = drain /\ queued_count = 1 /\ drain \in Buffers
    BY DEF Typed, RingInv, Submitting
  <2>2. fill' = Slot(1) /\ fill' \in Buffers
    BY <2>1, SuccIs DEF Succ, Slot
  <2>3. Typed'
    BY <2>2 DEF Typed, Points
  <2>4. RingInv' /\ StoredInv'
    BY <2>1, <2>2 DEF RingInv, StoredInv, Submitting, Slot
  <2>5. LifeInv' /\ ProcessInv' /\ CardMatches'
    BY DEF LifeInv, ProcessInv, CardMatches, Submitting
  <2> QED BY <2>3, <2>4, <2>5
<1>4. CASE start_dma_direct_submit
  <2> USE <1>4 DEF start_dma_direct_submit, driver
  <2>1. queued_count = 1 /\ count \in 1 .. DMA_BUFF_SIZE
    BY DEF RingInv, StoredInv, Submitting
  <2>2. /\ bufferA \in Seq([buffer : Buffers, count : 1 .. DMA_BUFF_SIZE])
        /\ Len(bufferA) = 0 /\ ~status
    BY DEF Typed, CardMatches, Submitting
  <2>3. [buffer |-> drain, count |-> count] \in [buffer : Buffers, count : 1 .. DMA_BUFF_SIZE]
    BY <2>1 DEF Typed
  <2>4. /\ bufferA' \in Seq([buffer : Buffers, count : 1 .. DMA_BUFF_SIZE])
        /\ Len(bufferA') = 1
        /\ Head(bufferA').buffer = drain
    BY <2>2, <2>3, FirstCommand DEF submit
  <2>5. Typed'
    BY <2>4 DEF Typed, Points
  <2>6. RingInv' /\ StoredInv'
    BY <2>1 DEF RingInv, StoredInv, Submitting, Slot
  <2>7. LifeInv' /\ ProcessInv'
    BY <2>1 DEF LifeInv, ProcessInv
  <2>8. CardMatches'
    BY <2>1, <2>2, <2>4 DEF CardMatches, Submitting
  <2> QED BY <2>5, <2>6, <2>7, <2>8
<1>5. CASE start_dma_queue
  <2> USE <1>5 DEF start_dma_queue, card
  <2>1. /\ queued_count \in 0 .. DMA_NUM_BUFFS - 1
        /\ drain \in Buffers
        /\ fill = Slot(queued_count) /\ fill \in Buffers
    BY DEF Typed, ProcessInv, RingInv
  <2>2. queued_count # 0
    BY <2>1, SlotEnds
  <2>3. count \in 1 .. DMA_BUFF_SIZE
    BY AcceptedFits DEF Typed
  <2>4. fill' = Slot(queued_count') /\ fill' \in Buffers
    <3>1. fill' = Slot(queued_count + 1) /\ queued_count' = queued_count + 1
      BY <2>1, SlotNext
    <3>2. fill' \in Buffers
      BY <2>1, SuccIs
    <3> QED BY <3>1, <3>2, Zenon
  <2>5. fill' = drain <=> queued_count' = DMA_NUM_BUFFS
    <3>1. fill' = Slot(queued_count + 1)
      BY <2>1, SlotNext
    <3> QED BY <2>1, <3>1, SlotEnds
  <2>6. Typed'
    <3>1. stored_count' \in [Buffers -> 0 .. DMA_BUFF_SIZE]
      BY <2>1, <2>3 DEF Typed
    <3>2. queued_count' \in 0 .. DMA_NUM_BUFFS
      BY <2>1
    <3> QED BY <2>4, <3>1, <3>2 DEF Typed, Points, Waiting
  <2>7. RingInv'
    BY <2>4 DEF RingInv, Submitting, Slot
  <2>8. StoredInv'
    <3>1. \A k \in 1 .. queued_count - 1 : Slot(k) # fill
      BY <2>1, SlotInjective
    <3>2. \A k \in 1 .. queued_count : stored_count'[Slot(k)] \in 1 .. DMA_BUFF_SIZE
      <4> SUFFICES ASSUME NEW k \in 1 .. queued_count
                   PROVE  stored_count'[Slot(k)] \in 1 .. DMA_BUFF_SIZE
        OBVIOUS
      <4>1. CASE k = queued_count
        BY <2>1, <2>3, <4>1 DEF Typed
      <4>2. CASE k # queued_count
        <5>1. k \in 1 .. queued_count - 1
          BY <2>1, <4>2
        <5>2. Slot(k) \in Buffers
          BY <2>1, SlotIs
        <5> QED BY <3>1, <5>1, <5>2 DEF Typed, StoredInv
      <4> QED BY <4>1, <4>2
    <3> QED BY <2>1, <3>2 DEF StoredInv, Submitting, Slot
  <2>9. LifeInv' /\ ProcessInv'
    BY <2>1, <2>5 DEF LifeInv, ProcessInv, Suspends, Waiting
  <2>10. CardMatches'
    <3>1. queued_count' # 0 /\ ~Submitting /\ ~Submitting'
      BY <2>1 DEF Submitting
    <3> QED BY <2>2, <3>1 DEF CardMatches
  <2> QED BY <2>6, <2>7, <2>8, <2>9, <2>10
<1>6. CASE start_dma_return
  <2> USE <1>6 DEF start_dma_return, driver, card
  <2>1. Typed'
    BY DEF Typed, Points
  <2>2. RingInv' /\ StoredInv' /\ CardMatches'
    BY DEF RingInv, StoredInv, CardMatches, Submitting, Slot
  <2>3. LifeInv' /\ ProcessInv'
    BY DEF LifeInv, ProcessInv, Typed, Buffers
  <2> QED BY <2>1, <2>2, <2>3
<1> QED BY <1>1, <1>2, <1>3, <1>4, <1>5, <1>6

\* The steps of the two waits, of a signal, of the interrupt handler and of the
\* card.
LEMMA WaitAndCardStep ==
  ASSUME WaitsKept', IInv,
         wait_check \/ signal_arrives \/ dma_intr \/ card_draw
  PROVE  IInv'
<1> USE DmaAssumption DEF DmaAssumption, IInv
<1>1. CASE wait_check
  <2> USE <1>1 DEF wait_check, driver, card
  <2>1. \/ pc = "not_full" /\ queued_count # DMA_NUM_BUFFS /\ pc' = "return"
        \/ pc = "not_full" /\ signal = "fatal" /\ pc' = "return"
        \/ pc = "not_full" /\ queued_count = DMA_NUM_BUFFS /\ pc' = "not_full_asleep"
        \/ pc = "empty" /\ queued_count = 0 /\ pc' = "free"
        \/ pc = "empty" /\ queued_count # 0 /\ pc' = "empty_asleep"
    <3>1. CASE Condition(pc) /\ pc' = AfterWait(pc)
      BY <3>1 DEF Waiting, Condition, AfterWait
    <3>2. CASE ~Condition(pc) /\ pc' = Sleep(pc)
      BY <3>2 DEF Waiting, Condition, Sleep
    <3>3. CASE pc' = AfterWait(pc) /\ early' = early \cup {<<pc, signal>>}
      <4>1. <<pc, signal>> \in {<<"not_full", "fatal">>}
        BY <3>3 DEF WaitsKept
      <4> QED BY <3>3, <4>1 DEF AfterWait
    <3> QED BY <3>1, <3>2, <3>3
  <2>2. Typed'
    BY <2>1 DEF Typed, Points, Asleep
  <2>3. RingInv' /\ StoredInv' /\ CardMatches'
    BY <2>1 DEF RingInv, StoredInv, CardMatches, Submitting, Slot
  <2>4. LifeInv'
    BY <2>1 DEF LifeInv
  <2>5. ProcessInv'
    BY <2>1 DEF ProcessInv, Typed
  <2> QED BY <2>2, <2>3, <2>4, <2>5
<1>2. CASE signal_arrives
  <2> USE <1>2 DEF signal_arrives, driver, card
  <2>1. \/ pc' = pc /\ pc \notin Asleep
        \/ pc = "not_full_asleep" /\ pc' = "not_full"
        \/ pc = "empty_asleep" /\ pc' = "empty"
    <3>1. CASE pc = "not_full_asleep"
      BY <3>1 DEF Sleep, Waiting
    <3>2. CASE pc = "empty_asleep"
      BY <3>2 DEF Sleep, Waiting
    <3>3. CASE pc \notin Asleep
      BY <3>3 DEF Sleep, Waiting, Asleep
    <3> QED BY <3>1, <3>2, <3>3 DEF Asleep
  <2>a. /\ signal' \in {"handled", "fatal"}
        /\ signal # "fatal"
        /\ pc # "closed"
    BY DEF DmaAssumption
  <2>2. Typed'
    BY <2>1, <2>a DEF Typed, Points, Waiting
  <2>3. RingInv' /\ StoredInv' /\ CardMatches'
    BY <2>1 DEF RingInv, StoredInv, CardMatches, Submitting, Slot
  <2>4. LifeInv'
    BY <2>1 DEF LifeInv
  <2>5. ProcessInv'
    BY <2>1, <2>a DEF ProcessInv, Asleep
  <2> QED BY <2>2, <2>3, <2>4, <2>5
<1>3. CASE dma_intr
  <2> USE <1>3 DEF dma_intr
  <2>1. /\ queued_count \in 1 .. DMA_NUM_BUFFS /\ ~Submitting
        /\ drain \in Buffers
        /\ Len(bufferA) = 0
    BY DEF Typed, CardMatches
  <2>2. /\ drain' = Slot(1) /\ drain' \in Buffers
        /\ queued_count' = queued_count - 1
        /\ queued_count' \in 0 .. DMA_NUM_BUFFS - 1
    BY <2>1, SuccIs DEF Succ, Slot
  <2>3. \A k \in 0 .. queued_count' : Slot(k)' = Slot(k + 1)
    BY <2>1, <2>2, SlotShift DEF Succ, Slot
  <2>4. \/ pc' = pc /\ (pc = "not_full_asleep" => queued_count # DMA_NUM_BUFFS)
                    /\ (pc = "empty_asleep" => queued_count # 1)
        \/ pc = "not_full_asleep" /\ pc' = "not_full"
        \/ pc = "empty_asleep" /\ pc' = "empty"
    <3>1. CASE pc = "not_full_asleep"
      BY <2>1, <2>2, <3>1 DEF wake_up, Wakes, Sleep, Waiting
    <3>2. CASE pc = "empty_asleep"
      BY <2>1, <2>2, <3>2 DEF wake_up, Wakes, Sleep, Waiting
    <3>3. CASE pc \notin {"not_full_asleep", "empty_asleep"}
      BY <3>3 DEF wake_up, Sleep, Waiting
    <3> QED BY <3>1, <3>2, <3>3
  <2>5. IF queued_count' = 0
          THEN UNCHANGED bufferA
          ELSE /\ bufferA' \in Seq([buffer : Buffers, count : 1 .. DMA_BUFF_SIZE])
               /\ Len(bufferA') = 1
               /\ Head(bufferA').buffer = drain'
    <3>1. CASE queued_count' = 0
      BY <3>1 DEF Resubmits
    <3>2. CASE queued_count' # 0
      <4>1. stored_count[drain'] \in 1 .. DMA_BUFF_SIZE
        BY <2>1, <2>2, <3>2 DEF StoredInv
      <4>2. bufferA' = Append(bufferA, [buffer |-> drain', count |-> stored_count[drain']])
        BY <3>2 DEF Resubmits, submit
      <4>3. bufferA \in Seq([buffer : Buffers, count : 1 .. DMA_BUFF_SIZE])
        BY DEF Typed
      <4> HIDE <1>3
      <4> QED BY <2>1, <2>2, <3>2, <4>1, <4>2, <4>3, FirstCommand
    <3> QED BY <3>1, <3>2
  <2>6. Typed'
    <3>1. bufferA' \in Seq([buffer : Buffers, count : 1 .. DMA_BUFF_SIZE])
      BY <2>5 DEF Typed
    <3>2. pc' \in Points
      BY <2>4 DEF Typed, Points, Waiting
    <3>3. UNCHANGED <<fill, dma_mapped, stored_count, allocated, irq_on,
                      signal, closing, count, u_base, data, requests, drawn>>
      OBVIOUS
    <3>4. status' \in BOOLEAN
      OBVIOUS
    <3> HIDE DEF dma_intr
    <3> HIDE <1>3
    <3> QED BY <2>2, <3>1, <3>2, <3>3, <3>4 DEF Typed
  <2>7. RingInv'
    BY <2>1, <2>2, <2>3, <2>4 DEF RingInv, Submitting
  <2>8. StoredInv'
    <3>1. \A k \in 1 .. queued_count' - 1 : stored_count[Slot(k + 1)] \in 1 .. DMA_BUFF_SIZE
      BY <2>1, <2>2 DEF StoredInv
    <3> QED BY <2>1, <2>2, <2>3, <2>4, <3>1 DEF StoredInv, Submitting
  <2>9. LifeInv'
    BY <2>1, <2>2, <2>4 DEF LifeInv
  <2>10. ProcessInv'
    <3>1. /\ pc' = "filled" => u_base # NoBuffer /\ u_base = fill
          /\ pc' = "user" /\ signal # "fatal" /\ u_base # NoBuffer => u_base = fill
      BY <2>4 DEF ProcessInv
    <3> QED BY <2>1, <2>2, <2>4, <3>1 DEF ProcessInv
  <2>11. CardMatches'
    BY <2>1, <2>2, <2>4, <2>5 DEF CardMatches, Submitting
  <2> QED BY <2>6, <2>7, <2>8, <2>9, <2>10, <2>11
<1>4. CASE card_draw
  <2> USE <1>4 DEF card_draw, driver, process
  <2>1. /\ bufferA \in Seq([buffer : Buffers, count : 1 .. DMA_BUFF_SIZE])
        /\ Len(bufferA) = 1 /\ ~status
        /\ queued_count # 0 /\ ~Submitting
    <3>1. bufferA \in Seq([buffer : Buffers, count : 1 .. DMA_BUFF_SIZE])
      BY DEF Typed
    <3>2. Len(bufferA) \in Nat \ {0}
      BY <3>1, EmptySeq
    <3>3. CASE status
      BY <3>2, <3>3 DEF CardMatches
    <3>4. CASE ~status
      BY <3>1, <3>2, <3>4 DEF CardMatches
    <3> QED BY <3>3, <3>4 DEF Typed
  <2>2. /\ Head(bufferA) \in [buffer : Buffers, count : 1 .. DMA_BUFF_SIZE]
        /\ bufferA' \in Seq([buffer : Buffers, count : 1 .. DMA_BUFF_SIZE])
        /\ Len(bufferA') = 0 /\ bufferA' = <<>>
    BY <2>1, LastCommand
  <2>3. drawn' \in Seq([data : 0 .. MaxRequests, count : 1 .. DMA_BUFF_SIZE])
    <3>1. [data |-> data[Head(bufferA).buffer], count |-> Head(bufferA).count]
            \in [data : 0 .. MaxRequests, count : 1 .. DMA_BUFF_SIZE]
      BY <2>2 DEF Typed
    <3> QED BY <3>1 DEF Typed
  <2>4. Typed'
    BY <2>2, <2>3 DEF Typed
  <2>5. RingInv' /\ StoredInv' /\ LifeInv' /\ ProcessInv'
    BY DEF RingInv, StoredInv, LifeInv, ProcessInv, Submitting, Slot
  <2>6. CardMatches'
    BY <2>1, <2>2 DEF CardMatches, Submitting
  <2> QED BY <2>4, <2>5, <2>6
<1> QED BY <1>1, <1>2, <1>3, <1>4

LEMMA IInvStep ==
  ASSUME IInv, [Next]_vars, WaitsKept'
  PROVE  IInv'
<1>1. CASE User
  BY <1>1, LifeCycleStep DEF User
<1>2. CASE Kernel
  BY <1>2, LifeCycleStep, StartDmaStep, WaitAndCardStep DEF Kernel
<1>3. CASE signal_arrives \/ dma_intr \/ card_draw
  BY <1>3, WaitAndCardStep
<1>4. CASE UNCHANGED vars
  BY <1>4 DEF vars, driver, process, card, IInv, Typed, RingInv, StoredInv, LifeInv,
     ProcessInv, CardMatches, Submitting, Slot
<1> QED BY <1>1, <1>2, <1>3, <1>4 DEF Next

\* What signals have done is not undone.
LEMMA EarlyGrows ==
  ASSUME [Next]_vars
  PROVE  early \subseteq early'
<1>1. CASE User
  BY <1>1 DEF User, kyouko3_open, user_fill, kyouko3_release, bind_dma, on_time_unbind_dma,
     handle_signal
<1>2. CASE Kernel
  BY <1>2 DEF Kernel, start_dma_reject, start_dma_direct, start_dma_direct_fill,
     start_dma_direct_submit, start_dma_queue, start_dma_return, wait_check,
     late_unbind_dma_free, late_unbind_dma_disable
<1>3. CASE signal_arrives \/ dma_intr \/ card_draw \/ UNCHANGED vars
  BY <1>3 DEF signal_arrives, dma_intr, card_draw, process, vars
<1> QED BY <1>1, <1>2, <1>3 DEF Next

LEMMA BrokenStays ==
  ASSUME ~WaitsKept, [Next]_vars
  PROVE  ~WaitsKept'
BY EarlyGrows DEF WaitsKept

-----------------------------------------------------------------------------
(* The theorems. *)

LEMMA Inductive == Spec => [](WaitsKept => IInv)
<1>1. Init => IInv
  BY IInvInit
<1>2. (WaitsKept => IInv) /\ [Next]_vars => (WaitsKept => IInv)'
  BY IInvStep, BrokenStays
<1> QED BY <1>1, <1>2, PTL DEF Spec

\* Only waits end early, and only by a signal.
LEMMA EarlyType == Spec => [](early \subseteq Waiting \X {"handled", "fatal"}
                              /\ signal \in {"none", "handled", "fatal"})
<1> DEFINE I == /\ early \subseteq Waiting \X {"handled", "fatal"}
                /\ signal \in {"none", "handled", "fatal"}
<1>1. Init => I
  BY DEF Init
<1>2. ASSUME I, [Next]_vars
      PROVE  I'
  <2>1. CASE User
    BY <1>2, <2>1 DEF User, kyouko3_open, user_fill, kyouko3_release, bind_dma,
       on_time_unbind_dma, handle_signal
  <2>2. CASE Kernel /\ ~wait_check
    BY <1>2, <2>2 DEF Kernel, start_dma_reject, start_dma_direct, start_dma_direct_fill,
       start_dma_direct_submit, start_dma_queue, start_dma_return,
       late_unbind_dma_free, late_unbind_dma_disable
  <2>3. CASE wait_check
    BY <1>2, <2>3 DEF wait_check
  <2>4. CASE signal_arrives \/ dma_intr \/ card_draw \/ UNCHANGED vars
    BY <1>2, <2>4, DmaAssumption DEF signal_arrives, dma_intr, card_draw, process, vars,
       DmaAssumption
  <2> QED BY <1>2, <2>1, <2>2, <2>3, <2>4 DEF Next
<1>3. I /\ [Next]_vars => I'
  BY <1>2
<1> QED BY <1>1, <1>3, PTL DEF Spec

\* Every variable keeps its type until a wait is broken off: in particular
\* queued_count, an int the handler decrements without looking, never leaves
\* 0 .. DMA_NUM_BUFFS.
THEOREM TypeCorrect == Spec => []TypeOK
<1>1. /\ WaitsKept => IInv
      /\ early \subseteq Waiting \X {"handled", "fatal"}
      /\ signal \in {"none", "handled", "fatal"}
      => TypeOK
  BY DEF IInv, TypeOK
<1> QED BY <1>1, Inductive, EarlyType, PTL

\* The process never holds a buffer that is queued or that the card reads,
\* unless a wait has been broken off.
THEOREM OwnsFree == Spec => []UserOwnsFree
<1>1. (WaitsKept => IInv) => UserOwnsFree
  <2> SUFFICES ASSUME IInv, pc = "filled" \/ (pc = "user" /\ signal # "fatal"),
                      NEW k \in 0 .. queued_count - 1
               PROVE  u_base # Slot(k)
    BY DEF UserOwnsFree, Queued
  <2> USE DmaAssumption DEF DmaAssumption, IInv
  <2>1. queued_count \in 0 .. DMA_NUM_BUFFS /\ drain \in Buffers
    BY DEF Typed
  <2>2. Slot(k) \in Buffers
    BY <2>1, SlotIs DEF Slot
  <2>3. CASE u_base = NoBuffer
    BY <2>2, <2>3 DEF NoBuffer, Buffers
  <2>4. CASE u_base # NoBuffer
    <3>1. u_base = Slot(queued_count) /\ queued_count < DMA_NUM_BUFFS
      BY <2>4 DEF ProcessInv, RingInv
    <3> QED BY <2>1, <3>1, SlotInjective
  <2> QED BY <2>3, <2>4
<1> QED BY <1>1, Inductive, PTL

\* The card has exactly one command, or one interrupt outstanding, for as long
\* as anything is queued and no wait has been broken off.
THEOREM OneCommand == Spec => []CardMatchesQueue
<1>1. (WaitsKept => IInv) => CardMatchesQueue
  BY DEF IInv, CardMatchesQueue
<1> QED BY <1>1, Inductive, PTL

\* Whatever signals arrive, the buffers are freed under a working card only after
\* a signal has ended late_unbind_dma's wait, as that of a killed process does, or
\* start_dma's wait of a process that went on.
THEOREM FreedIdle == Spec => []NoUseAfterFree
<1>1. (WaitsKept => IInv) => NoUseAfterFree
  <2> SUFFICES ASSUME IInv, ~allocated PROVE bufferA = <<>> /\ ~status
    BY DEF NoUseAfterFree
  <2>1. queued_count = 0
    BY DEF IInv, LifeInv
  <2> QED BY <2>1, EmptySeq DEF IInv, Typed, CardMatches
<1> QED BY <1>1, Inductive, PTL

\* No count the card is given exceeds the size of a buffer, whatever int the
\* process passes to START_DMA, unless a wait has been broken off.
THEOREM CountsAlwaysFit == Spec => []CountsFit
<1>1. (WaitsKept => IInv) => CountsFit
  <2> SUFFICES ASSUME IInv, NEW i \in DOMAIN bufferA
               PROVE  bufferA[i].count \in 1 .. DMA_BUFF_SIZE
    BY DEF CountsFit
  <2>1. bufferA[i] \in [buffer : Buffers, count : 1 .. DMA_BUFF_SIZE]
    BY ElementOfSeq, LenProperties DEF IInv, Typed
  <2> QED BY <2>1
<1> QED BY <1>1, Inductive, PTL

\* What a process that sleeps may count on: what it waits for has not come about
\* unnoticed, and an interrupt is on its way that will look whether to wake it.
WakeUpComes ==
  \A w \in Waiting : pc = Sleep(w) =>
    /\ ~Condition(w)
    /\ irq_on /\ (bufferA # <<>> \/ status)

\* No wake-up of dma_intr is lost, although wait_event_interruptible reads its
\* condition and goes to sleep in two steps, and dma_intr wakes only on the step
\* from full to one less or to zero, and signals wake sleepers as well: the safety
\* that CallReturns rests on.
THEOREM NoWakeUpLost == Spec => [](WaitsKept => WakeUpComes)
<1>1. IInv => WakeUpComes
  <2> SUFFICES ASSUME IInv, NEW w \in Waiting, pc = Sleep(w)
               PROVE  ~Condition(w) /\ irq_on /\ (bufferA # <<>> \/ status)
    BY DEF WakeUpComes
  <2> USE DmaAssumption DEF DmaAssumption
  <2>1. /\ queued_count # 0 /\ ~Condition(w)
        /\ pc \notin {"user", "closed"} /\ ~Submitting
    <3>1. \/ w = "not_full" /\ pc = "not_full_asleep"
          \/ w = "empty" /\ pc = "empty_asleep"
      BY DEF Waiting, Sleep
    <3>2. CASE w = "not_full" /\ pc = "not_full_asleep"
      BY <3>2 DEF IInv, ProcessInv, Condition, Submitting
    <3>3. CASE w = "empty" /\ pc = "empty_asleep"
      BY <3>3 DEF IInv, ProcessInv, Condition, Submitting
    <3> QED BY <3>1, <3>2, <3>3
  <2>2. irq_on
    BY <2>1 DEF IInv, LifeInv
  <2>3. bufferA # <<>> \/ status
    <3> SUFFICES ASSUME bufferA = <<>>, ~status PROVE FALSE
      OBVIOUS
    <3> QED BY <2>1, EmptySeq DEF IInv, CardMatches
  <2> QED BY <2>1, <2>2, <2>3
<1> QED BY <1>1, Inductive, PTL

-----------------------------------------------------------------------------
(* The ring implements DmaQueue. *)

\* What is queued has been filled, and so has what the process passes on.
DataInv ==
  /\ \A k \in 0 .. queued_count - 1 : data[Slot(k)] \in 1 .. MaxRequests
  /\ pc = "filled" => data[u_base] \in 1 .. MaxRequests

RInv == IInv /\ DataInv

LEMMA DataInvInit == Init => DataInv
BY DEF Init, DataInv

\* A process that fills a buffer, or has filled one, does so where the ring ends.
LEMMA FillsAtEnd ==
  ASSUME IInv, pc = "filled" \/ (pc = "user" /\ signal # "fatal"), u_base # NoBuffer
  PROVE  /\ queued_count \in 0 .. DMA_NUM_BUFFS - 1 /\ u_base = fill
         /\ fill = Slot(queued_count) /\ fill \in Buffers /\ drain \in Buffers
         /\ \A k \in 0 .. queued_count - 1 : Slot(k) # fill /\ Slot(k) \in Buffers
<1> USE DmaAssumption DEF DmaAssumption, IInv
<1>1. /\ queued_count \in 0 .. DMA_NUM_BUFFS - 1 /\ u_base = fill
      /\ fill = Slot(queued_count) /\ fill \in Buffers /\ drain \in Buffers
  BY DEF Typed, ProcessInv, RingInv
<1>2. \A k \in 0 .. queued_count - 1 : k \in 0 .. DMA_NUM_BUFFS - 1 /\ k # queued_count
  BY <1>1
<1>3. \A k \in 0 .. queued_count - 1 : Slot(k) # fill
  BY <1>1, <1>2, SlotInjective
<1>4. \A k \in 0 .. queued_count - 1 : Slot(k) \in Buffers
  BY <1>1, <1>2, SlotIs
<1> QED BY <1>1, <1>3, <1>4

\* The ring after the handler has retired its oldest buffer.
LEMMA Retires ==
  ASSUME IInv, dma_intr
  PROVE  /\ queued_count \in 1 .. DMA_NUM_BUFFS /\ queued_count' = queued_count - 1
         /\ \A k \in 0 .. queued_count' : Slot(k)' = Slot(k + 1)
         /\ drain' = Slot(1)
         /\ status /\ ~status' /\ ~Submitting /\ ~Submitting' /\ bufferA = <<>>
         /\ pc' = "filled" => pc = "filled"
<1> USE DmaAssumption DEF DmaAssumption, IInv, dma_intr
<1>1. /\ queued_count \in 1 .. DMA_NUM_BUFFS /\ ~Submitting /\ drain \in Buffers
      /\ Len(bufferA) = 0 /\ status /\ ~status' /\ queued_count' = queued_count - 1
  BY DEF Typed, CardMatches
<1>2. bufferA = <<>>
  BY <1>1, EmptySeq DEF Typed
<1>3. drain' = Slot(1)
  BY DEF Succ, Slot
<1>4. \A k \in 0 .. queued_count' : Slot(k)' = Slot(k + 1)
  BY <1>1, SlotShift DEF Succ, Slot
<1>5. pc' = pc \/ pc' \in Waiting
  BY DEF wake_up, Sleep, Waiting
<1>6. (pc' = "filled" => pc = "filled") /\ ~Submitting'
  BY <1>1, <1>5 DEF Waiting, Submitting
<1> QED BY <1>1, <1>2, <1>3, <1>4, <1>6

LEMMA DataInvStep ==
  ASSUME IInv, DataInv, [Next]_vars
  PROVE  DataInv'
<1> USE DmaAssumption DEF DmaAssumption
<1>1. CASE user_fill
  <2>1. /\ pc = "user" /\ signal = "none" /\ u_base # NoBuffer /\ requests < MaxRequests
        /\ data' = [data EXCEPT ![u_base] = requests + 1]
        /\ UNCHANGED <<queued_count, drain, u_base>>
    BY <1>1 DEF user_fill, driver
  <2>2. requests + 1 \in 1 .. MaxRequests /\ data \in [Buffers -> 0 .. MaxRequests]
    BY <2>1 DEF IInv, Typed
  <2>3. /\ u_base = fill /\ fill \in Buffers
        /\ \A k \in 0 .. queued_count - 1 : Slot(k) # fill /\ Slot(k) \in Buffers
    BY <2>1, FillsAtEnd
  <2>4. \A k \in 0 .. queued_count - 1 : Slot(k)' = Slot(k)
    BY <2>1 DEF Slot
  <2> QED BY <2>1, <2>2, <2>3, <2>4 DEF DataInv
<1>2. CASE start_dma_direct
  <2>1. /\ pc = "filled" /\ pc' = "direct" /\ fill = drain /\ queued_count' = queued_count + 1
        /\ UNCHANGED <<drain, data>>
    BY <1>2 DEF start_dma_direct
  <2>2. /\ queued_count \in 0 .. DMA_NUM_BUFFS - 1 /\ u_base = fill
        /\ fill = Slot(queued_count) /\ drain \in Buffers
    BY <2>1, FillsAtEnd DEF IInv, ProcessInv
  <2>3. queued_count = 0 /\ Slot(0) = drain
    BY <2>1, <2>2, SlotEnds
  <2>4. Slot(0)' = Slot(0) /\ queued_count' = 1
    BY <2>1, <2>3 DEF Slot
  <2> QED BY <2>1, <2>2, <2>3, <2>4 DEF DataInv
<1>3. CASE start_dma_queue
  <2>1. /\ pc = "filled" /\ pc' # "filled" /\ queued_count' = queued_count + 1
        /\ UNCHANGED <<drain, data>>
    BY <1>3 DEF start_dma_queue
  <2>2. /\ queued_count \in 0 .. DMA_NUM_BUFFS - 1 /\ u_base = fill /\ fill = Slot(queued_count)
    BY <2>1, FillsAtEnd DEF IInv, ProcessInv
  <2>3. \A k \in 0 .. queued_count : Slot(k)' = Slot(k)
    BY <2>1 DEF Slot
  <2> QED BY <2>1, <2>2, <2>3 DEF DataInv
<1>4. CASE dma_intr
  <2>1. /\ queued_count \in 1 .. DMA_NUM_BUFFS /\ queued_count' = queued_count - 1
        /\ \A k \in 0 .. queued_count' : Slot(k)' = Slot(k + 1)
        /\ pc' = "filled" => pc = "filled"
    BY <1>4, Retires
  <2>2. UNCHANGED <<data, u_base>>
    BY <1>4 DEF dma_intr
  <2> QED BY <2>1, <2>2 DEF DataInv
<1>5. CASE bind_dma
  BY <1>5 DEF bind_dma, DataInv
<1>6. CASE wait_check \/ signal_arrives \/ handle_signal
  <2>1. UNCHANGED <<queued_count, drain, data, u_base>> /\ (pc' = "filled" => pc = "filled")
    BY <1>6 DEF wait_check, signal_arrives, handle_signal, Waiting, AfterWait, Sleep, driver
  <2> QED BY <2>1 DEF DataInv, Slot
<1>7. CASE \/ kyouko3_open \/ kyouko3_release \/ on_time_unbind_dma
           \/ late_unbind_dma_free \/ late_unbind_dma_disable \/ start_dma_reject
           \/ start_dma_direct_fill \/ start_dma_direct_submit \/ start_dma_return
  <2>1. UNCHANGED <<queued_count, drain, data>> /\ pc' # "filled"
    BY <1>7 DEF kyouko3_open, kyouko3_release, on_time_unbind_dma, late_unbind_dma_free,
       late_unbind_dma_disable, start_dma_reject, start_dma_direct_fill,
       start_dma_direct_submit, start_dma_return, driver
  <2> QED BY <2>1 DEF DataInv, Slot
<1>8. CASE card_draw \/ UNCHANGED vars
  <2>1. UNCHANGED <<queued_count, drain, data, pc, u_base>>
    BY <1>8 DEF card_draw, driver, process, vars
  <2> QED BY <2>1 DEF DataInv, Slot
<1> QED
  BY <1>1, <1>2, <1>3, <1>4, <1>5, <1>6, <1>7, <1>8 DEF Next, User, Kernel

-----------------------------------------------------------------------------
(* What is pending. *)

\* The k-th queued request, and the requests DmaQueue speaks of.
Entry(k) == [data |-> data[Slot(k)], count |-> CountOf(k)]
AllRequests == [data : 1 .. MaxRequests, count : 1 .. DMA_BUFF_SIZE]

LEMMA EntryIn ==
  ASSUME RInv, NEW k \in Retired .. queued_count - 1
  PROVE  Entry(k) \in AllRequests
<1> USE DmaAssumption DEF DmaAssumption
<1>1. /\ queued_count \in 0 .. DMA_NUM_BUFFS /\ status \in BOOLEAN
      /\ bufferA \in Seq([buffer : Buffers, count : 1 .. DMA_BUFF_SIZE])
  BY DEF RInv, IInv, Typed
<1>2. Retired \in 0 .. 1 /\ k \in 0 .. queued_count - 1
  BY <1>1 DEF Retired
<1>3. data[Slot(k)] \in 1 .. MaxRequests
  BY <1>2 DEF RInv, DataInv
<1>4. CountOf(k) \in 1 .. DMA_BUFF_SIZE
  <2>1. CASE k = 0 /\ bufferA # <<>>
    <3>1. Head(bufferA) \in [buffer : Buffers, count : 1 .. DMA_BUFF_SIZE]
      BY <1>1, <2>1, HeadTailProperties
    <3>2. Head(bufferA).count \in 1 .. DMA_BUFF_SIZE
      BY <3>1
    <3>3. ~Submitting
      <4>1. Len(bufferA) \in Nat \ {0}
        BY <1>1, <2>1, EmptySeq
      <4> QED BY <4>1 DEF RInv, IInv, CardMatches
    <3>4. CountOf(k) = Head(bufferA).count
      BY <2>1, <3>3 DEF CountOf
    <3> QED BY <3>2, <3>4
  <2>2. CASE k = 0 /\ bufferA = <<>>
    <3>1. Len(bufferA) = 0 /\ ~status /\ queued_count # 0
      BY <1>1, <1>2, <2>2 DEF Retired
    <3>2. Submitting
      BY <3>1 DEF RInv, IInv, CardMatches
    <3> QED BY <2>2, <3>2 DEF CountOf, RInv, IInv, StoredInv
  <2>3. CASE k # 0
    <3>1. k \in 1 .. queued_count - 1
      BY <1>2, <2>3
    <3> QED BY <2>3, <3>1 DEF CountOf, RInv, IInv, StoredInv
  <2> QED BY <2>1, <2>2, <2>3
<1> QED BY <1>3, <1>4 DEF Entry, AllRequests

\* Requests read off the ring are a sequence.
LEMMA PendingIs ==
  RInv => /\ Pending \in Seq(AllRequests)
          /\ Len(Pending) = queued_count - Retired
          /\ queued_count - Retired \in Nat
          /\ \A k \in Retired .. queued_count - 1 : Pending[k + 1 - Retired] = Entry(k)
<1> SUFFICES ASSUME RInv
             PROVE  /\ Pending \in Seq(AllRequests)
                    /\ Len(Pending) = queued_count - Retired
                    /\ queued_count - Retired \in Nat
                    /\ \A k \in Retired .. queued_count - 1 :
                         Pending[k + 1 - Retired] = Entry(k)
  OBVIOUS
<1> DEFINE n == queued_count - Retired
<1>1. n \in Nat /\ Retired \in 0 .. 1 /\ queued_count \in Nat
  <2>1. queued_count \in 0 .. DMA_NUM_BUFFS /\ status \in BOOLEAN
    BY DEF RInv, IInv, Typed
  <2>2. status => queued_count # 0
    <3>1. Len(bufferA) \in Nat
      BY LenProperties DEF RInv, IInv, Typed
    <3> QED BY <3>1 DEF RInv, IInv, CardMatches
  <2> QED BY <2>1, <2>2, DmaAssumption DEF Retired, DmaAssumption
<1>2. \A i \in 1 .. n : i - 1 + Retired \in Retired .. queued_count - 1
  BY <1>1
<1>3. Pending = [i \in 1 .. n |-> Entry(i - 1 + Retired)]
  BY DEF Pending, Entry
<1>4. \A i \in 1 .. n : Entry(i - 1 + Retired) \in AllRequests
  BY <1>2, EntryIn
<1>5. \A k \in Retired .. queued_count - 1 :
        k + 1 - Retired \in 1 .. n /\ (k + 1 - Retired) - 1 + Retired = k
  BY <1>1
<1> HIDE DEF n
<1>6. Pending \in [1 .. n -> AllRequests]
  BY <1>3, <1>4
<1>7. Pending \in Seq(AllRequests)
  BY <1>1, <1>6, SeqDef
<1>8. Len(Pending) = n
  BY <1>1, <1>6, <1>7, LenProperties
<1>9. \A k \in Retired .. queued_count - 1 : Pending[k + 1 - Retired] = Entry(k)
  BY <1>3, <1>5
<1> QED BY <1>1, <1>7, <1>8, <1>9 DEF n

LEMMA PendingIsNext ==
  ASSUME RInv'
  PROVE  /\ Pending' \in Seq(AllRequests)
         /\ Len(Pending') = queued_count' - Retired'
         /\ queued_count' - Retired' \in Nat
         /\ \A k \in Retired' .. queued_count' - 1 : Pending'[k + 1 - Retired'] = Entry(k)'
<1>1. (/\ Pending \in Seq(AllRequests)
       /\ Len(Pending) = queued_count - Retired
       /\ queued_count - Retired \in Nat
       /\ \A k \in Retired .. queued_count - 1 : Pending[k + 1 - Retired] = Entry(k))'
  BY PendingIs, PTL
<1> QED BY <1>1

\* A step that leaves every pending request leaves what is pending.
LEMMA SamePending ==
  ASSUME RInv, RInv', UNCHANGED <<queued_count, status>>,
         \A k \in Retired .. queued_count - 1 : Entry(k)' = Entry(k)
  PROVE  Pending' = Pending
<1>1. /\ Pending \in Seq(AllRequests) /\ Len(Pending) = queued_count - Retired
      /\ queued_count - Retired \in Nat
      /\ \A k \in Retired .. queued_count - 1 : Pending[k + 1 - Retired] = Entry(k)
  BY PendingIs
<1>2. Retired' = Retired /\ Retired \in 0 .. 1 /\ queued_count \in Nat
  BY DmaAssumption DEF Retired, DmaAssumption, RInv, IInv, Typed
<1>3. /\ Pending' \in Seq(AllRequests) /\ Len(Pending') = queued_count - Retired
      /\ \A k \in Retired .. queued_count - 1 : Pending'[k + 1 - Retired] = Entry(k)'
  BY <1>2, PendingIsNext
<1>4. \A i \in 1 .. Len(Pending) : Pending'[i] = Pending[i]
  <2> TAKE i \in 1 .. Len(Pending)
  <2>1. PICK k \in Retired .. queued_count - 1 : k + 1 - Retired = i
    <3>1. i - 1 + Retired \in Retired .. queued_count - 1 /\ (i - 1 + Retired) + 1 - Retired = i
      BY <1>1, <1>2
    <3> QED BY <3>1
  <2>2. Pending'[i] = Entry(k)' /\ Pending[i] = Entry(k)
    BY <1>1, <1>3, <2>1
  <2> QED BY <2>2
<1> QED BY <1>1, <1>3, <1>4, SeqEqual

\* A step that queues one more request, and leaves those queued, appends it.
LEMMA AppendsPending ==
  ASSUME RInv, RInv', status' = status, queued_count' = queued_count + 1,
         \A k \in Retired .. queued_count - 1 : Entry(k)' = Entry(k),
         NEW r \in AllRequests, \A k \in {queued_count} : Entry(k)' = r
  PROVE  Pending' = Append(Pending, r)
<1>1. /\ Pending \in Seq(AllRequests) /\ Len(Pending) = queued_count - Retired
      /\ queued_count - Retired \in Nat
      /\ \A k \in Retired .. queued_count - 1 : Pending[k + 1 - Retired] = Entry(k)
  BY PendingIs
<1>2. Retired' = Retired /\ Retired \in 0 .. 1 /\ queued_count \in Nat
  BY DmaAssumption DEF Retired, DmaAssumption, RInv, IInv, Typed
<1>3. /\ Pending' \in Seq(AllRequests) /\ Len(Pending') = queued_count + 1 - Retired
      /\ \A k \in Retired .. queued_count : Pending'[k + 1 - Retired] = Entry(k)'
  BY <1>2, PendingIsNext
<1>4. /\ Append(Pending, r) \in Seq(AllRequests) /\ Len(Append(Pending, r)) = Len(Pending) + 1
      /\ Append(Pending, r)[Len(Pending) + 1] = r
      /\ \A i \in 1 .. Len(Pending) : Append(Pending, r)[i] = Pending[i]
  BY <1>1
<1>5. \A i \in 1 .. Len(Pending) : Pending'[i] = Pending[i]
  <2> TAKE i \in 1 .. Len(Pending)
  <2>1. PICK k \in Retired .. queued_count - 1 : k + 1 - Retired = i
    <3>1. i - 1 + Retired \in Retired .. queued_count - 1 /\ (i - 1 + Retired) + 1 - Retired = i
      BY <1>1, <1>2
    <3> QED BY <3>1
  <2>2. k \in Retired .. queued_count
    BY <1>2, <2>1
  <2>3. Pending'[i] = Entry(k)'
    BY <1>3, <2>1, <2>2
  <2>4. Pending[i] = Entry(k)
    BY <1>1, <2>1
  <2> QED BY <2>1, <2>3, <2>4
<1>6. Pending'[Len(Pending) + 1] = r
  <2>1. PICK k : k = queued_count
    OBVIOUS
  <2>2. k \in Retired .. queued_count /\ k + 1 - Retired = Len(Pending) + 1
    BY <1>1, <1>2, <2>1
  <2>3. Entry(k)' = r
    BY <2>1
  <2> QED BY <1>3, <2>2, <2>3
<1>7. Len(Pending') = Len(Pending) + 1
  BY <1>1, <1>2, <1>3
<1>8. \A i \in 1 .. Len(Pending) + 1 : Pending'[i] = Append(Pending, r)[i]
  <2>1. \A i \in 1 .. Len(Pending) + 1 : i \in 1 .. Len(Pending) \/ i = Len(Pending) + 1
    BY <1>1
  <2> QED BY <1>4, <1>5, <1>6, <2>1, Zenon
<1> QED BY <1>3, <1>4, <1>7, <1>8, SeqEqual, Zenon

\* The handler retires a buffer whose request has been drawn, and renumbers.
LEMMA RenumbersPending ==
  ASSUME RInv, RInv', status, ~status', queued_count' = queued_count - 1,
         \A k \in 0 .. queued_count - 2 : Entry(k)' = Entry(k + 1)
  PROVE  Pending' = Pending
<1>1. /\ Pending \in Seq(AllRequests) /\ Len(Pending) = queued_count - Retired
      /\ queued_count - Retired \in Nat
      /\ \A k \in Retired .. queued_count - 1 : Pending[k + 1 - Retired] = Entry(k)
  BY PendingIs
<1>2. Retired = 1 /\ Retired' = 0 /\ queued_count \in Nat
  BY DmaAssumption DEF Retired, DmaAssumption, RInv, IInv, Typed
<1>3. /\ Pending' \in Seq(AllRequests) /\ Len(Pending') = queued_count - 1
      /\ \A k \in 0 .. queued_count - 2 : Pending'[k + 1] = Entry(k)'
  <2>1. /\ Pending' \in Seq(AllRequests) /\ Len(Pending') = queued_count' - Retired'
        /\ \A k \in Retired' .. queued_count' - 1 : Pending'[k + 1 - Retired'] = Entry(k)'
    BY PendingIsNext
  <2>2. queued_count' - Retired' = queued_count - 1
    BY <1>2
  <2>3. \A k \in 0 .. queued_count - 2 :
          k \in Retired' .. queued_count' - 1 /\ k + 1 - Retired' = k + 1
    BY <1>2
  <2> QED BY <2>1, <2>2, <2>3
<1>4. \A k \in 1 .. queued_count - 1 : Pending[k] = Entry(k)
  BY <1>1, <1>2
<1>5. \A i \in 1 .. queued_count - 1 : Pending'[i] = Pending[i]
  <2> TAKE i \in 1 .. queued_count - 1
  <2>1. PICK k \in 0 .. queued_count - 2 : k + 1 = i
    <3>1. i - 1 \in 0 .. queued_count - 2 /\ (i - 1) + 1 = i
      BY <1>2
    <3> QED BY <3>1
  <2>2. Pending'[i] = Entry(k)'
    BY <1>3, <2>1
  <2>3. Pending[i] = Entry(k + 1)
    BY <1>4, <2>1
  <2> QED BY <2>2, <2>3
<1> QED BY <1>1, <1>2, <1>3, <1>5, SeqEqual

\* The card draws the oldest of the requests pending.
LEMMA DrawsPending ==
  ASSUME RInv, RInv', ~status, status', queued_count' = queued_count, queued_count # 0,
         \A k \in 1 .. queued_count - 1 : Entry(k)' = Entry(k)
  PROVE  /\ Pending # <<>> /\ Pending' = Tail(Pending)
         /\ \A k \in {0} : Head(Pending) = Entry(k)
<1>1. /\ Pending \in Seq(AllRequests) /\ Len(Pending) = queued_count - Retired
      /\ queued_count - Retired \in Nat
      /\ \A k \in Retired .. queued_count - 1 : Pending[k + 1 - Retired] = Entry(k)
  BY PendingIs
<1>2. Retired = 0 /\ Retired' = 1 /\ queued_count \in Nat \ {0}
  BY DmaAssumption DEF Retired, DmaAssumption, RInv, IInv, Typed
<1>3. \A k \in 0 .. queued_count - 1 : Pending[k + 1] = Entry(k)
  BY <1>1, <1>2
<1>4. Pending # <<>> /\ Head(Pending) = Pending[1]
  BY <1>1, <1>2
<1>5. /\ Tail(Pending) \in Seq(AllRequests) /\ Len(Tail(Pending)) = queued_count - 1
      /\ \A i \in 1 .. queued_count - 1 : Tail(Pending)[i] = Pending[i + 1]
  BY <1>1, <1>2, <1>4
<1>6. /\ Pending' \in Seq(AllRequests) /\ Len(Pending') = queued_count - 1
      /\ \A k \in 1 .. queued_count - 1 : Pending'[k] = Entry(k)'
  <2>1. /\ Pending' \in Seq(AllRequests) /\ Len(Pending') = queued_count' - Retired'
        /\ \A k \in Retired' .. queued_count' - 1 : Pending'[k + 1 - Retired'] = Entry(k)'
    BY PendingIsNext
  <2>2. queued_count' - Retired' = queued_count - 1
    BY <1>2
  <2>3. \A k \in 1 .. queued_count - 1 :
          k \in Retired' .. queued_count' - 1 /\ k + 1 - Retired' = k
    BY <1>2
  <2> QED BY <2>1, <2>2, <2>3
<1>7. \A i \in 1 .. queued_count - 1 : Pending'[i] = Tail(Pending)[i]
  <2> TAKE i \in 1 .. queued_count - 1
  <2>1. Pending'[i] = Entry(i)
    BY <1>6
  <2>2. Pending[i + 1] = Entry(i)
    BY <1>2, <1>3
  <2> QED BY <1>5, <2>1, <2>2
<1>8. Pending' = Tail(Pending)
  BY <1>5, <1>6, <1>7, SeqEqual
<1>9. \A k \in {0} : Head(Pending) = Entry(k)
  BY <1>2, <1>3, <1>4
<1> QED BY <1>4, <1>8, <1>9

\* The count of a pending request, and who has it.
LEMMA CountIs ==
  RInv => \A k \in Retired .. queued_count - 1 :
            /\ k = 0 /\ bufferA # <<>> => CountOf(k) = Head(bufferA).count
            /\ k = 0 /\ bufferA = <<>> => Submitting /\ CountOf(k) = count
            /\ k # 0 => CountOf(k) = stored_count[Slot(k)]
            /\ bufferA # <<>> => ~Submitting
<1> SUFFICES ASSUME RInv, NEW k \in Retired .. queued_count - 1
             PROVE  /\ k = 0 /\ bufferA # <<>> => CountOf(k) = Head(bufferA).count
                    /\ k = 0 /\ bufferA = <<>> => Submitting /\ CountOf(k) = count
                    /\ k # 0 => CountOf(k) = stored_count[Slot(k)]
                    /\ bufferA # <<>> => ~Submitting
  BY Zenon
<1>1. /\ queued_count \in 0 .. DMA_NUM_BUFFS /\ status \in BOOLEAN
      /\ bufferA \in Seq([buffer : Buffers, count : 1 .. DMA_BUFF_SIZE])
  BY DEF RInv, IInv, Typed
<1>2. bufferA # <<>> => ~Submitting
  <2> SUFFICES ASSUME bufferA # <<>> PROVE ~Submitting
    OBVIOUS
  <2>1. Len(bufferA) \in Nat \ {0}
    BY <1>1, EmptySeq
  <2> QED BY <2>1 DEF RInv, IInv, CardMatches
<1>3. k = 0 /\ bufferA = <<>> => Submitting
  <2> SUFFICES ASSUME k = 0, bufferA = <<>> PROVE Submitting
    OBVIOUS
  <2>1. Len(bufferA) = 0 /\ ~status /\ queued_count # 0
    BY <1>1, DmaAssumption DEF Retired, DmaAssumption
  <2> QED BY <2>1 DEF RInv, IInv, CardMatches
<1> QED BY <1>2, <1>3 DEF CountOf

LEMMA CountIsNext ==
  ASSUME RInv'
  PROVE  \A k \in Retired' .. queued_count' - 1 :
           /\ k = 0 /\ bufferA' # <<>> => CountOf(k)' = Head(bufferA').count
           /\ k = 0 /\ bufferA' = <<>> => Submitting' /\ CountOf(k)' = count'
           /\ k # 0 => CountOf(k)' = stored_count'[Slot(k)']
           /\ bufferA' # <<>> => ~Submitting'
<1>1. (\A k \in Retired .. queued_count - 1 :
         /\ k = 0 /\ bufferA # <<>> => CountOf(k) = Head(bufferA).count
         /\ k = 0 /\ bufferA = <<>> => Submitting /\ CountOf(k) = count
         /\ k # 0 => CountOf(k) = stored_count[Slot(k)]
         /\ bufferA # <<>> => ~Submitting)'
  BY CountIs, PTL
<1> QED BY <1>1

-----------------------------------------------------------------------------
(* Each step is a step of the queue, or none. *)

\* A step that leaves the ring, the card and start_dma's place in it.
LEMMA AsideStep ==
  ASSUME RInv, RInv',
         UNCHANGED <<drain, queued_count, stored_count, count, data, bufferA, status, drawn>>,
         Submitting' = Submitting
  PROVE  UNCHANGED <<Pending, drawn>>
<1>1. \A k \in Retired .. queued_count - 1 : Entry(k)' = Entry(k)
  BY DEF Entry, CountOf, Slot
<1> QED BY <1>1, SamePending

LEMMA FillStep ==
  ASSUME RInv, RInv', user_fill
  PROVE  UNCHANGED <<Pending, drawn>>
<1>1. /\ pc = "user" /\ pc' = "filled" /\ signal = "none" /\ u_base # NoBuffer
      /\ data' = [data EXCEPT ![u_base] = requests + 1]
      /\ UNCHANGED <<drain, queued_count, stored_count, bufferA, status, drawn>>
  BY DEF user_fill, driver, card
<1>2. /\ u_base = fill
      /\ \A k \in 0 .. queued_count - 1 : Slot(k) # fill /\ Slot(k) \in Buffers
  BY <1>1, FillsAtEnd DEF RInv
<1>3. ASSUME NEW k \in Retired .. queued_count - 1
      PROVE  Entry(k)' = Entry(k)
  <2>1. k \in 0 .. queued_count - 1 /\ Retired' = Retired
    BY <1>1, DmaAssumption DEF Retired, DmaAssumption, RInv, IInv, Typed
  <2>2. Slot(k)' = Slot(k) /\ Slot(k) # fill /\ Slot(k) \in Buffers
    BY <1>1, <1>2, <2>1 DEF Slot
  <2>3. data'[Slot(k)] = data[Slot(k)]
    BY <1>1, <1>2, <2>2 DEF RInv, IInv, Typed
  <2>4. ~Submitting /\ ~Submitting'
    BY <1>1 DEF Submitting
  <2>5. CountOf(k)' = CountOf(k)
    BY <1>1, <2>2, <2>4 DEF CountOf
  <2> QED BY <2>2, <2>3, <2>5 DEF Entry
<1> QED BY <1>1, <1>3, SamePending

LEMMA BindStep ==
  ASSUME RInv, RInv', bind_dma
  PROVE  UNCHANGED <<Pending, drawn>>
<1>1. ~dma_mapped /\ queued_count' = 0 /\ UNCHANGED <<status, drawn>>
  BY DEF bind_dma, card
<1>2. queued_count = 0
  BY <1>1 DEF RInv, IInv, LifeInv
<1>3. \A k \in Retired .. queued_count - 1 : Entry(k)' = Entry(k)
  BY <1>2 DEF Retired
<1> QED BY <1>1, <1>2, <1>3, SamePending

LEMMA SubmitStep ==
  ASSUME RInv, RInv', start_dma_direct_submit
  PROVE  UNCHANGED <<Pending, drawn>>
<1>1. /\ pc = "direct_submit" /\ bufferA' = Append(bufferA, [buffer |-> drain, count |-> count])
      /\ UNCHANGED <<drain, queued_count, stored_count, data, status, drawn>>
  BY DEF start_dma_direct_submit, submit, driver
<1>2. queued_count = 1 /\ ~status
  BY <1>1 DEF RInv, IInv, RingInv, CardMatches, Submitting, Typed
<1>3. bufferA = <<>>
  <2>1. Len(bufferA) = 0
    BY <1>1, <1>2 DEF RInv, IInv, CardMatches, Submitting, Typed
  <2> QED BY <2>1, EmptySeq DEF RInv, IInv, Typed
<1>4. bufferA' # <<>> /\ Head(bufferA').count = count
  BY <1>1, <1>3
<1>5. Retired = 0 /\ Retired' = 0
  BY <1>1, <1>2 DEF Retired
<1>6. ASSUME NEW k \in Retired .. queued_count - 1
      PROVE  Entry(k)' = Entry(k)
  <2>1. k = 0 /\ k \in Retired' .. queued_count' - 1
    BY <1>1, <1>2, <1>5
  <2>2. CountOf(k) = count
    BY <1>3, <2>1, CountIs
  <2>3. CountOf(k)' = count
    BY <1>4, <2>1, CountIsNext
  <2>4. Slot(k)' = Slot(k)
    BY <1>1 DEF Slot
  <2> QED BY <1>1, <2>2, <2>3, <2>4 DEF Entry
<1> QED BY <1>1, <1>6, SamePending

LEMMA IntrStep ==
  ASSUME RInv, RInv', dma_intr
  PROVE  UNCHANGED <<Pending, drawn>>
<1>1. /\ queued_count \in 1 .. DMA_NUM_BUFFS /\ queued_count' = queued_count - 1
      /\ \A k \in 0 .. queued_count' : Slot(k)' = Slot(k + 1)
      /\ drain' = Slot(1)
      /\ status /\ ~status' /\ ~Submitting /\ ~Submitting' /\ bufferA = <<>>
  BY Retires DEF RInv
<1>2. UNCHANGED <<stored_count, data, drawn>>
  BY DEF dma_intr
<1>3. Retired = 1 /\ Retired' = 0
  BY <1>1 DEF Retired
<1>4. queued_count' # 0
        => bufferA' # <<>> /\ Head(bufferA').count = stored_count[Slot(1)]
  <2> SUFFICES ASSUME queued_count' # 0
               PROVE  bufferA' # <<>> /\ Head(bufferA').count = stored_count[Slot(1)]
    OBVIOUS
  <2>1. bufferA' = Append(bufferA, [buffer |-> drain', count |-> stored_count[drain']])
    BY DEF dma_intr, Resubmits, submit
  <2>2. bufferA' = <<[buffer |-> drain', count |-> stored_count[drain']]>>
    BY <1>1, <2>1
  <2>3. bufferA' # <<>> /\ Head(bufferA') = [buffer |-> drain', count |-> stored_count[drain']]
    BY <2>2
  <2> QED BY <1>1, <2>3
<1>5. ASSUME NEW k \in 0 .. queued_count - 2
      PROVE  Entry(k)' = Entry(k + 1)
  <2>1. /\ k \in Retired' .. queued_count' - 1 /\ k \in 0 .. queued_count'
        /\ k + 1 \in Retired .. queued_count - 1 /\ k + 1 # 0 /\ queued_count' # 0
    BY <1>1, <1>3, DmaAssumption DEF DmaAssumption
  <2>2. Slot(k)' = Slot(k + 1)
    BY <1>1, <2>1
  <2>3. CountOf(k + 1) = stored_count[Slot(k + 1)]
    BY <2>1, CountIs
  <2>4. CountOf(k)' = stored_count[Slot(k + 1)]
    <3>1. CASE k = 0
      <4>1. CountOf(k)' = Head(bufferA').count
        BY <1>4, <2>1, <3>1, CountIsNext
      <4> QED BY <1>4, <2>1, <3>1, <4>1
    <3>2. CASE k # 0
      <4>1. CountOf(k)' = stored_count'[Slot(k)']
        BY <2>1, <3>2, CountIsNext
      <4> QED BY <1>2, <2>2, <4>1
    <3> QED BY <3>1, <3>2
  <2> QED BY <1>2, <2>2, <2>3, <2>4 DEF Entry
<1> QED BY <1>1, <1>2, <1>5, RenumbersPending

\* START_DMA accepts a request.
LEMMA AcceptStep ==
  ASSUME RInv, RInv', WaitsKept, start_dma_direct \/ start_dma_queue
  PROVE  \E r \in AllRequests : Queue!Submit(r)
<1> USE DmaAssumption DEF DmaAssumption
<1> DEFINE r == [data |-> data[fill], count |-> count]
<1>1. /\ pc = "filled" /\ Accepted(count) /\ queued_count' = queued_count + 1
      /\ UNCHANGED <<drain, count, data, bufferA, status, drawn>>
  BY DEF start_dma_direct, start_dma_queue, card
<1>2. /\ queued_count \in 0 .. DMA_NUM_BUFFS - 1 /\ u_base = fill
      /\ fill = Slot(queued_count) /\ fill \in Buffers /\ drain \in Buffers
      /\ \A k \in 0 .. queued_count - 1 : Slot(k) # fill /\ Slot(k) \in Buffers
  BY <1>1, FillsAtEnd DEF RInv, IInv, ProcessInv
<1>3. r \in AllRequests
  <2>1. data[fill] \in 1 .. MaxRequests
    BY <1>1, <1>2 DEF RInv, DataInv
  <2>2. count \in 1 .. DMA_BUFF_SIZE
    BY <1>1, AcceptedFits DEF RInv, IInv, Typed
  <2> QED BY <2>1, <2>2 DEF AllRequests
<1>4. Retired' = Retired /\ Retired \in 0 .. 1 /\ ~Submitting
  BY <1>1 DEF Retired, Submitting
<1>5. \A k \in 0 .. queued_count : Slot(k)' = Slot(k)
  BY <1>1 DEF Slot
<1>6. /\ \A k \in Retired .. queued_count - 1 : Entry(k)' = Entry(k)
      /\ \A k \in {queued_count} : Entry(k)' = r
  <2>1. CASE start_dma_direct
    <3>1. fill = drain /\ pc' = "direct"
      BY <2>1 DEF start_dma_direct
    <3>2. queued_count = 0
      BY <1>2, <3>1, SlotEnds
    <3>3. ~status /\ bufferA = <<>>
      <4>1. Len(bufferA) = 0 /\ ~status
        <5>1. Len(bufferA) \in Nat
          BY LenProperties DEF RInv, IInv, Typed
        <5> QED BY <3>2, <5>1 DEF RInv, IInv, CardMatches
      <4> QED BY <4>1, EmptySeq DEF RInv, IInv, Typed
    <3>4. Retired = 0
      BY <3>3 DEF Retired
    <3>5. ASSUME NEW k \in {queued_count}
          PROVE  Entry(k)' = r
      <4>1. k = 0 /\ k \in Retired' .. queued_count' - 1 /\ Slot(k)' = fill
        BY <1>1, <1>2, <1>4, <1>5, <3>2, <3>4
      <4>2. CountOf(k)' = count
        BY <1>1, <3>3, <4>1, CountIsNext
      <4> QED BY <1>1, <4>1, <4>2 DEF Entry
    <3> QED BY <3>2, <3>4, <3>5
  <2>2. CASE start_dma_queue
    <3>1. fill # drain /\ stored_count' = [stored_count EXCEPT ![fill] = count]
      BY <2>2 DEF start_dma_queue
    <3>2. queued_count # 0
      BY <1>2, <3>1, SlotEnds
    <3>3. ~Submitting'
      BY <2>2 DEF start_dma_queue, Submitting
    <3>4. stored_count \in [Buffers -> 0 .. DMA_BUFF_SIZE]
      BY DEF RInv, IInv, Typed
    <3>5. ASSUME NEW k \in Retired .. queued_count - 1
          PROVE  Entry(k)' = Entry(k)
      <4>1. k \in 0 .. queued_count - 1 /\ k \in 0 .. queued_count
        BY <1>2, <1>4
      <4>2. Slot(k)' = Slot(k) /\ stored_count'[Slot(k)] = stored_count[Slot(k)]
        BY <1>2, <1>5, <3>1, <3>4, <4>1
      <4>3. CountOf(k)' = CountOf(k)
        BY <1>1, <1>4, <3>3, <4>2 DEF CountOf
      <4> QED BY <1>1, <4>2, <4>3 DEF Entry
    <3>6. ASSUME NEW k \in {queued_count}
          PROVE  Entry(k)' = r
      <4>1. k # 0 /\ k \in Retired' .. queued_count' - 1 /\ Slot(k)' = fill
        BY <1>1, <1>2, <1>4, <1>5, <3>2
      <4>2. CountOf(k)' = stored_count'[fill]
        BY <4>1, CountIsNext
      <4>3. stored_count'[fill] = count
        BY <1>2, <3>1, <3>4
      <4> QED BY <1>1, <4>1, <4>2, <4>3 DEF Entry
    <3> QED BY <3>5, <3>6
  <2> QED BY <2>1, <2>2
<1> HIDE DEF r
<1>7. Pending' = Append(Pending, r)
  BY <1>1, <1>3, <1>6, AppendsPending, Zenon
<1>8. Len(Pending) < DMA_NUM_BUFFS
  BY <1>2, <1>4, PendingIs
<1> QED BY <1>1, <1>3, <1>7, <1>8 DEF Queue!Submit

\* The card draws the oldest request.
LEMMA DrawStep ==
  ASSUME RInv, RInv', WaitsKept, card_draw
  PROVE  Queue!Draw
<1>1. /\ bufferA # <<>>
      /\ drawn' = Append(drawn, [data |-> data[Head(bufferA).buffer],
                                 count |-> Head(bufferA).count])
      /\ bufferA' = Tail(bufferA) /\ status'
      /\ UNCHANGED <<drain, queued_count, stored_count, data>>
  BY DEF card_draw, driver, process
<1>2. /\ ~status /\ queued_count # 0 /\ ~Submitting /\ queued_count \in Nat
  <2>1. Len(bufferA) \in Nat \ {0} /\ queued_count \in Nat
    BY <1>1, EmptySeq, DmaAssumption DEF RInv, IInv, Typed, DmaAssumption
  <2> QED BY <2>1 DEF RInv, IInv, CardMatches
<1>3. ~Submitting' /\ Retired = 0 /\ Retired' = 1
  BY <1>1, <1>2 DEF Submitting, Retired, card_draw, process
<1>4. ASSUME NEW k \in 1 .. queued_count - 1
      PROVE  Entry(k)' = Entry(k)
  <2>1. k # 0 /\ k \in Retired .. queued_count - 1 /\ k \in Retired' .. queued_count' - 1
    BY <1>1, <1>2, <1>3
  <2>2. Slot(k)' = Slot(k)
    BY <1>1 DEF Slot
  <2>3. CountOf(k) = stored_count[Slot(k)]
    BY <2>1, CountIs
  <2>4. CountOf(k)' = stored_count'[Slot(k)']
    BY <2>1, CountIsNext
  <2> QED BY <1>1, <2>2, <2>3, <2>4 DEF Entry
<1>5. /\ Pending # <<>> /\ Pending' = Tail(Pending) /\ Head(Pending) = Entry(0)
  <2>1. \A k \in {0} : Head(Pending) = Entry(k)
    BY <1>1, <1>2, <1>4, DrawsPending
  <2> QED BY <1>1, <1>2, <1>4, <2>1, DrawsPending
<1>6. Entry(0) = [data |-> data[Head(bufferA).buffer], count |-> Head(bufferA).count]
  <2>1. 0 \in Retired .. queued_count - 1
    BY <1>2, <1>3
  <2>2. CountOf(0) = Head(bufferA).count
    BY <1>1, <2>1, CountIs
  <2>3. Slot(0) = drain
    BY SlotEnds, DmaAssumption DEF RInv, IInv, Typed, DmaAssumption
  <2>4. Head(bufferA).buffer = drain
    BY <1>1 DEF RInv, IInv, CardMatches
  <2> QED BY <2>2, <2>3, <2>4 DEF Entry
<1> QED BY <1>1, <1>5, <1>6 DEF Queue!Draw

LEMMA QueueInit == Init => Queue!Init
BY DEF Init, Queue!Init, Pending, Retired, WaitsKept

LEMMA QueueStep ==
  ASSUME RInv, RInv', WaitsKept, [Next]_vars
  PROVE  Queue!Next \/ UNCHANGED <<Pending, drawn>>
<1>1. CASE user_fill \/ bind_dma \/ start_dma_direct_submit \/ dma_intr
  BY <1>1, FillStep, BindStep, SubmitStep, IntrStep
<1>2. CASE start_dma_direct \/ start_dma_queue
  BY <1>2, AcceptStep DEF Queue!Next, AllRequests
<1>3. CASE card_draw
  BY <1>3, DrawStep DEF Queue!Next
<1>4. CASE \/ kyouko3_open \/ kyouko3_release \/ on_time_unbind_dma
           \/ late_unbind_dma_free \/ late_unbind_dma_disable \/ start_dma_reject
           \/ start_dma_direct_fill \/ start_dma_return \/ wait_check \/ signal_arrives
           \/ handle_signal \/ UNCHANGED vars
  <2>1. UNCHANGED <<drain, queued_count, stored_count, count, data, bufferA, status, drawn>>
    BY <1>4 DEF kyouko3_open, kyouko3_release, on_time_unbind_dma, late_unbind_dma_free,
       late_unbind_dma_disable, start_dma_reject, start_dma_direct_fill, start_dma_return,
       wait_check, signal_arrives, handle_signal, vars, driver, process, card
  <2>2. Submitting' = Submitting
    BY <1>4 DEF kyouko3_open, kyouko3_release, on_time_unbind_dma, late_unbind_dma_free,
       late_unbind_dma_disable, start_dma_reject, start_dma_direct_fill, start_dma_return,
       wait_check, signal_arrives, handle_signal, vars, driver, process, Submitting, Waiting,
       AfterWait, Sleep
  <2> QED BY <2>1, <2>2, AsideStep
<1> QED BY <1>1, <1>2, <1>3, <1>4 DEF Next, User, Kernel

\* The ring implements DmaQueue, for every number of buffers, every int the
\* process passes and signals at any time: until a wait is broken off, a request
\* that START_DMA accepts is drawn once, in its turn, with the contents and the
\* count it was submitted with, although fill advances outside the critical
\* section and dma_intr renumbers the ring under the process.
THEOREM QueueImplemented == Spec => Queue!Spec
<1>1. Init => Queue!Init
  BY QueueInit
<1>2. Init => DataInv
  BY DataInvInit
<1>3. /\ WaitsKept => IInv
      /\ WaitsKept => DataInv
      /\ [Next]_vars
      => (WaitsKept => DataInv)'
  BY DataInvStep, BrokenStays
<1>4. ASSUME WaitsKept => IInv, WaitsKept => DataInv, (WaitsKept => IInv)',
             (WaitsKept => DataInv)', [Next]_vars
      PROVE  [Queue!Next]_<<Pending, drawn, ~WaitsKept>>
  <2>1. CASE ~WaitsKept'
    BY <2>1 DEF Queue!Next
  <2>2. CASE WaitsKept'
    <3>1. WaitsKept
      BY <1>4, <2>2, BrokenStays
    <3>2. RInv /\ RInv'
      BY <1>4, <2>2, <3>1 DEF RInv
    <3>3. Queue!Next \/ UNCHANGED <<Pending, drawn>>
      BY <1>4, <3>1, <3>2, QueueStep
    <3>4. (~WaitsKept)' = (~WaitsKept)
      BY <2>2, <3>1
    <3> QED BY <3>3, <3>4
  <2> QED BY <2>1, <2>2
<1>5. /\ WaitsKept => IInv
      /\ WaitsKept => DataInv
      /\ (WaitsKept => IInv)'
      /\ (WaitsKept => DataInv)'
      /\ [Next]_vars
      => [Queue!Next]_<<Pending, drawn, ~WaitsKept>>
  BY <1>4
<1> QED BY <1>1, <1>2, <1>3, <1>5, Inductive, PTL DEF Spec, Queue!Spec, Queue!vars
=============================================================================
