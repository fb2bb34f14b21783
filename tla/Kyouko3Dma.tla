----------------------------- MODULE Kyouko3Dma -----------------------------
(***************************************************************************)
(* The DMA ring of the Kyouko3 driver: bind_dma, start_dma,                *)
(* on_time_unbind_dma, late_unbind_dma and the interrupt handler dma_intr, *)
(* with the process that calls them and the card they drive.               *)
(*                                                                         *)
(* One process holds the device open and runs on one processor, so         *)
(* spin_lock_irqsave keeps dma_intr out of start_dma's critical section    *)
(* and dma_intr itself runs to completion.  Everywhere else the interrupt  *)
(* may arrive between two steps of the process: pc names the point the     *)
(* process has reached.  The two FIFO_WRITEs and the FifoHead write that   *)
(* hand a buffer to the card are one step here (submit).                   *)
(*                                                                         *)
(* Signals reach the process at any time and end either wait, whose        *)
(* callers do not look at the result and go on as if what they wait for    *)
(* had come about.  early records every such ending, and the properties of *)
(* a passing run say what holds as long as WaitsKept: until an ending that *)
(* the driver does not survive.                                            *)
(***************************************************************************)
EXTENDS Integers, Sequences

CONSTANTS
  DMA_NUM_BUFFS,  \* buffers in the ring
  DMA_BUFF_SIZE,  \* bytes in a buffer
  Word,           \* 2^32: the modulus of the conversion from int to unsigned
  Counts,         \* the byte counts the process passes to START_DMA
  MaxRequests,    \* bound: buffers the process fills in a behaviour
  Signals,        \* the signals the process may get: "handled", "fatal"
  AfterBroken     \* bound: whether behaviours go on once ~WaitsKept

\* What the code's own constants satisfy: at least two buffers (with one,
\* fill = drain would always hold), counts are ints, and a buffer size that
\* fits the positive half of an int.
DmaAssumption ==
  /\ DMA_NUM_BUFFS \in Nat /\ DMA_NUM_BUFFS >= 2
  /\ DMA_BUFF_SIZE \in Nat
  /\ Word \in Nat /\ DMA_BUFF_SIZE + DMA_BUFF_SIZE < Word
  /\ Counts \subseteq Int
  /\ \A c \in Counts : -Word <= c + c /\ c + c < Word
  /\ MaxRequests \in Nat
  /\ Signals \subseteq {"handled", "fatal"}
  /\ AfterBroken \in BOOLEAN

ASSUME DmaAssumption

VARIABLES
  \* struct kyouko3
  fill,           \* the buffer the process fills next
  drain,          \* the buffer the card is given next
  queued_count,   \* buffers queued and not yet retired by dma_intr
  dma_mapped,     \* whether the buffers are bound
  stored_count,   \* dma_buffers[i].stored_count
  allocated,      \* whether the buffers' memory is allocated
  irq_on,         \* handler installed and ConfigInterrupt set to 0x02
  \* the calling process
  pc,             \* where it is in the driver, or "user", or "closed"
  signal,         \* the signal pending, or "none"; a fatal one stays pending
                  \* through the exit of the process
  closing,        \* whether late_unbind_dma was called by kyouko3_release
  count,          \* start_dma's argument
  u_base,         \* the buffer the last ioctl returned, or NoBuffer
  data,           \* contents of each buffer: the number of a request
  requests,       \* requests prepared so far
  early,          \* history: the waits ended by a signal, each with the signal
  \* the card
  bufferA,        \* BufferA commands it has been given and not finished
  status,         \* bit 0x02 of InterruptStatus
  drawn           \* the requests it has executed

driver == <<fill, drain, queued_count, dma_mapped, stored_count, allocated, irq_on>>
process == <<pc, signal, early, closing, count, u_base, data, requests>>
card == <<bufferA, status, drawn>>
vars == <<driver, process, card>>

Buffers == 0 .. DMA_NUM_BUFFS - 1
NoBuffer == -1

\* On the wait queue dma_not_full or dma_empty: evaluating the condition, or
\* asleep until a wake-up.
Waiting == {"not_full", "empty"}
Asleep == {"not_full_asleep", "empty_asleep"}

Points == Waiting \cup Asleep \cup
  {"closed", "user", "filled", "direct", "direct_submit", "return", "free", "disable"}

-----------------------------------------------------------------------------
\* Faulty variants of the operators below, for the mutation runs.
NoWrap(i) == i + 1
SignedCompare(c) == c
StaleCount(b, c) == bufferA' = Append(bufferA, [buffer |-> b, count |-> stored_count[b]])
NeverSuspends(f) == FALSE
SkipsLast(q) == q > 1
NeverDrains == FALSE
WakesAtFull(w, q) == IF w = "not_full" THEN q = DMA_NUM_BUFFS ELSE q = 0

\* (fill + 1) % DMA_NUM_BUFFS
Succ(i) == (i + 1) % DMA_NUM_BUFFS

\* The value of an int compared with DMA_BUFF_SIZE, an unsigned constant.
Unsigned(c) == IF c < 0 THEN c + Word ELSE c

\* start_dma's two argument checks.
Accepted(c) == c # 0 /\ Unsigned(c) <= DMA_BUFF_SIZE

\* FIFO_WRITE(BufferAAddress, ...), FIFO_WRITE(BufferAConfig, ...) and the
\* FifoHead write that follows them.
submit(b, c) == bufferA' = Append(bufferA, [buffer |-> b, count |-> c])

\* start_dma filled the last free buffer: f is the advanced fill.
Suspends(f) == f = drain

\* dma_intr has another buffer to give to the card: q is what is still queued.
Resubmits(q) == q # 0

\* late_unbind_dma has queued buffers to wait for.
MustDrain == queued_count # 0

Init ==
  /\ fill = 0 /\ drain = 0 /\ queued_count = 0
  /\ dma_mapped = FALSE /\ allocated = FALSE /\ irq_on = FALSE
  /\ stored_count = [b \in Buffers |-> 0]
  /\ pc = "closed" /\ signal = "none" /\ early = {} /\ closing = FALSE
  /\ count = 0 /\ u_base = NoBuffer
  /\ data = [b \in Buffers |-> 0] /\ requests = 0
  /\ bufferA = <<>> /\ status = FALSE /\ drawn = <<>>

-----------------------------------------------------------------------------
\* The process in user mode.

kyouko3_open ==
  /\ pc = "closed"
  /\ pc' = "user"
  /\ signal' = "none"
  /\ dma_mapped' = FALSE
  /\ UNCHANGED <<fill, drain, queued_count, stored_count, allocated, irq_on,
                 early, closing, count, u_base, data, requests, card>>

\* The process writes its next request into the buffer it was given and
\* chooses the byte count it will pass.
user_fill ==
  /\ pc = "user" /\ signal = "none" /\ u_base # NoBuffer
  /\ requests < MaxRequests
  /\ requests' = requests + 1
  /\ data' = [data EXCEPT ![u_base] = requests + 1]
  /\ count' \in Counts
  /\ pc' = "filled"
  /\ UNCHANGED <<driver, signal, early, closing, u_base, card>>

\* close(fd), or the exit of the process, by which a fatal signal is taken:
\* kyouko3_release, up to the wait in late_unbind_dma.  (Its FIFO and graphics
\* half is in Kyouko3Fifo.)
kyouko3_release ==
  /\ pc \in {"user", "filled"} /\ signal # "handled"
  /\ u_base' = NoBuffer
  /\ IF dma_mapped
       THEN closing' = TRUE /\ pc' = IF MustDrain THEN "empty" ELSE "free"
       ELSE closing' = closing /\ pc' = "closed"
  /\ UNCHANGED <<driver, signal, early, count, data, requests, card>>

-----------------------------------------------------------------------------
\* BIND_DMA.  Interrupts stay disabled until the last assignment and the
\* process is alone, so that the whole call is one step.  A call that fails
\* (already bound, no MSI, no interrupt line) changes nothing.

bind_dma ==
  /\ pc = "user" /\ signal = "none"
  /\ ~dma_mapped
  /\ allocated' = TRUE
  /\ dma_mapped' = TRUE
  /\ fill' = 0 /\ drain' = 0 /\ queued_count' = 0
  /\ irq_on' = TRUE
  /\ u_base' = fill'
  /\ UNCHANGED <<stored_count, pc, signal, early, closing, count, data, requests, card>>

\* UNBIND_DMA: the user mappings go first, then late_unbind_dma begins.
on_time_unbind_dma ==
  /\ pc = "user" /\ signal = "none"
  /\ dma_mapped
  /\ u_base' = NoBuffer
  /\ pc' = IF MustDrain THEN "empty" ELSE "free"
  /\ UNCHANGED <<driver, signal, early, closing, count, data, requests, card>>

\* late_unbind_dma after its wait: the buffers are freed ...
late_unbind_dma_free ==
  /\ pc = "free"
  /\ allocated' = FALSE
  /\ pc' = "disable"
  /\ UNCHANGED <<fill, drain, queued_count, dma_mapped, stored_count, irq_on,
                 signal, early, closing, count, u_base, data, requests, card>>

\* ... and only then are the card's interrupts disabled.
late_unbind_dma_disable ==
  /\ pc = "disable"
  /\ irq_on' = FALSE
  /\ dma_mapped' = FALSE
  /\ pc' = IF closing THEN "closed" ELSE "user"
  /\ closing' = FALSE
  /\ UNCHANGED <<fill, drain, queued_count, stored_count, allocated,
                 signal, early, count, u_base, data, requests, card>>

-----------------------------------------------------------------------------
\* START_DMA.

start_dma_reject ==
  /\ pc = "filled"
  /\ ~Accepted(count)
  /\ pc' = "user"
  /\ UNCHANGED <<driver, signal, early, closing, count, u_base, data, requests, card>>

\* The critical section when the ring is empty.
start_dma_direct ==
  /\ pc = "filled" /\ Accepted(count)
  /\ fill = drain
  /\ queued_count' = queued_count + 1
  /\ pc' = "direct"
  /\ UNCHANGED <<fill, drain, dma_mapped, stored_count, allocated, irq_on,
                 signal, early, closing, count, u_base, data, requests, card>>

\* After the unlock: fill is advanced ...
start_dma_direct_fill ==
  /\ pc = "direct"
  /\ fill' = Succ(fill)
  /\ pc' = "direct_submit"
  /\ UNCHANGED <<drain, queued_count, dma_mapped, stored_count, allocated, irq_on,
                 signal, early, closing, count, u_base, data, requests, card>>

\* ... and the card is given the buffer.
start_dma_direct_submit ==
  /\ pc = "direct_submit"
  /\ submit(drain, count)
  /\ pc' = "return"
  /\ UNCHANGED <<driver, signal, early, closing, count, u_base, data, requests, status, drawn>>

\* The critical section when buffers are queued: the buffer is left for
\* dma_intr, and the process waits when it has just filled the last one.
start_dma_queue ==
  /\ pc = "filled" /\ Accepted(count)
  /\ fill # drain
  /\ queued_count' = queued_count + 1
  /\ stored_count' = [stored_count EXCEPT ![fill] = count]
  /\ fill' = Succ(fill)
  /\ pc' = IF Suspends(fill') THEN "not_full" ELSE "return"
  /\ UNCHANGED <<drain, dma_mapped, allocated, irq_on,
                 signal, early, closing, count, u_base, data, requests, card>>

\* return kyouko3.dma_buffers[kyouko3.fill].u_base
start_dma_return ==
  /\ pc = "return"
  /\ u_base' = fill
  /\ pc' = "user"
  /\ UNCHANGED <<driver, signal, early, closing, count, data, requests, card>>

-----------------------------------------------------------------------------
\* wait_event_interruptible: the condition is read before the process sleeps
\* and after each wake-up.  Neither caller looks at the result.

Condition(w) ==
  CASE w = "not_full" -> queued_count # DMA_NUM_BUFFS
    [] w = "empty"    -> queued_count = 0

AfterWait(w) == IF w = "not_full" THEN "return" ELSE "free"
Sleep(w) == IF w = "not_full" THEN "not_full_asleep" ELSE "empty_asleep"

\* A signal pending ends the wait unless its condition holds.
wait_check ==
  /\ pc \in Waiting
  /\ \/ Condition(pc) /\ pc' = AfterWait(pc) /\ UNCHANGED early
     \/ /\ ~Condition(pc) /\ signal # "none"
        /\ pc' = AfterWait(pc)
        /\ early' = early \cup {<<pc, signal>>}
     \/ ~Condition(pc) /\ signal = "none" /\ pc' = Sleep(pc) /\ UNCHANGED early
  /\ UNCHANGED <<driver, signal, closing, count, u_base, data, requests, card>>

-----------------------------------------------------------------------------
\* Signals.

\* A signal arrives, over a handled one only a fatal one, and wakes a sleeper.
signal_arrives ==
  /\ pc # "closed"
  /\ \E s \in Signals :
       /\ signal = "none" \/ (signal = "handled" /\ s = "fatal")
       /\ signal' = s
  /\ pc' = IF \E w \in Waiting : pc = Sleep(w)
             THEN CHOOSE w \in Waiting : pc = Sleep(w)
             ELSE pc
  /\ UNCHANGED <<driver, early, closing, count, u_base, data, requests, card>>

\* The process runs its handler on the way back to user mode.
handle_signal ==
  /\ pc \in {"user", "filled"} /\ signal = "handled"
  /\ signal' = "none"
  /\ UNCHANGED <<driver, pc, early, closing, count, u_base, data, requests, card>>

-----------------------------------------------------------------------------
\* The interrupt handler.

\* Whether dma_intr wakes the wait queue w once queued_count has become q.
Wakes(w, q) == IF w = "not_full" THEN q + 1 = DMA_NUM_BUFFS ELSE q = 0

wake_up(q) ==
  pc' = IF \E w \in Waiting : pc = Sleep(w) /\ Wakes(w, q)
          THEN CHOOSE w \in Waiting : pc = Sleep(w)
          ELSE pc

dma_intr ==
  /\ status /\ irq_on
  /\ status' = FALSE
  /\ queued_count' = queued_count - 1
  /\ drain' = Succ(drain)
  /\ wake_up(queued_count')
  /\ IF Resubmits(queued_count')
       THEN submit(drain', stored_count[drain'])
       ELSE UNCHANGED bufferA
  /\ UNCHANGED <<fill, dma_mapped, stored_count, allocated, irq_on,
                 signal, early, closing, count, u_base, data, requests, drawn>>

-----------------------------------------------------------------------------
\* The card executes BufferA commands in the order they were given; finishing
\* one sets the interrupt status bit.  (Requests are drawn once as long as
\* WaitsKept, and MaxRequests bounds the drawing after that.)

card_draw ==
  /\ bufferA # <<>> /\ Len(drawn) < MaxRequests
  /\ LET cmd == Head(bufferA)
     IN  drawn' = Append(drawn, [data |-> data[cmd.buffer], count |-> cmd.count])
  /\ bufferA' = Tail(bufferA)
  /\ status' = TRUE
  /\ UNCHANGED <<driver, process>>

User ==
  \/ kyouko3_open \/ user_fill \/ kyouko3_release
  \/ bind_dma \/ on_time_unbind_dma
  \/ handle_signal

Kernel ==
  \/ start_dma_reject
  \/ start_dma_direct \/ start_dma_direct_fill \/ start_dma_direct_submit
  \/ start_dma_queue \/ start_dma_return
  \/ wait_check
  \/ late_unbind_dma_free \/ late_unbind_dma_disable

\* No wait has been ended by a signal but start_dma's, by one that killed the
\* process: it then makes no more calls, and what START_DMA returned is not used.
WaitsKept == early \subseteq {<<"not_full", "fatal">>}

Followed == WaitsKept \/ AfterBroken

Next == Followed /\ (User \/ Kernel \/ signal_arrives \/ dma_intr \/ card_draw)

Spec == Init /\ [][Next]_vars

\* A process inside the driver is scheduled again, an enabled interrupt is
\* delivered, and the card executes what it is given.  Nothing obliges the
\* process to make another call.
FairSpec ==
  /\ Spec
  /\ WF_vars(Followed /\ Kernel)
  /\ WF_vars(Followed /\ dma_intr)
  /\ WF_vars(Followed /\ card_draw)

-----------------------------------------------------------------------------
(* Properties. *)

Typed ==
  /\ fill \in Buffers /\ drain \in Buffers
  /\ queued_count \in 0 .. DMA_NUM_BUFFS
  /\ dma_mapped \in BOOLEAN /\ allocated \in BOOLEAN /\ irq_on \in BOOLEAN
  /\ stored_count \in [Buffers -> 0 .. DMA_BUFF_SIZE]
  /\ pc \in Points /\ signal \in {"none", "handled", "fatal"} /\ closing \in BOOLEAN
  /\ count \in Counts \cup {0}
  /\ u_base \in Buffers \cup {NoBuffer}
  /\ data \in [Buffers -> 0 .. MaxRequests] /\ requests \in 0 .. MaxRequests
  /\ bufferA \in Seq([buffer : Buffers, count : 1 .. DMA_BUFF_SIZE])
  /\ status \in BOOLEAN
  /\ drawn \in Seq([data : 0 .. MaxRequests, count : 1 .. DMA_BUFF_SIZE])

\* Every variable keeps its type, queued_count included, which nothing in the
\* code checks, until a wait is broken off.
TypeOK == early \subseteq Waiting \X {"handled", "fatal"} /\ (WaitsKept => Typed)

\* The k-th queued buffer, counting from 0.
Slot(k) == (drain + k) % DMA_NUM_BUFFS
Queued == {Slot(k) : k \in 0 .. queued_count - 1}

\* Between the critical section and the submission of start_dma's direct path.
Submitting == pc \in {"direct", "direct_submit"}

\* A process in user mode never holds a buffer that is queued or being read by
\* the card: start_dma hands out a buffer only once dma_intr has retired it.  (One
\* with a fatal signal pending does not get to use it.)
UserOwnsFree ==
  WaitsKept /\ (pc = "filled" \/ (pc = "user" /\ signal # "fatal")) => u_base \notin Queued

\* While anything is queued, the card works on exactly the oldest buffer, or
\* its interrupt is still to be taken, or start_dma is about to submit it:
\* never two commands outstanding, and never a queue that nobody drains.
CardMatches ==
  /\ Len(bufferA) + (IF status THEN 1 ELSE 0)
       = IF queued_count = 0 \/ Submitting THEN 0 ELSE 1
  /\ bufferA # <<>> => Head(bufferA).buffer = drain

CardMatchesQueue == WaitsKept => CardMatches

\* late_unbind_dma frees the buffers when the card has no more use for them and
\* no interrupt is outstanding, although it disables interrupts only afterwards:
\* as long as no signal has ended its wait, or start_dma's without killing.
NoUseAfterFree == WaitsKept /\ ~allocated => bufferA = <<>> /\ ~status

\* No count that start_dma lets through, whatever int the process passes,
\* makes the card read beyond the end of a buffer.
CountsFit == WaitsKept => \A i \in DOMAIN bufferA : bufferA[i].count \in 1 .. DMA_BUFF_SIZE

\* Every call that enters the driver returns: no wake-up of dma_intr is lost.
AtRest == pc \in {"user", "filled", "closed"}
CallReturns == ~AtRest ~> (AtRest \/ ~WaitsKept)

\* The requests accepted and not yet drawn, read off the ring, the command in
\* the card and start_dma's argument.
Retired == IF status THEN 1 ELSE 0
CountOf(k) ==
  CASE k = 0 /\ bufferA # <<>> -> Head(bufferA).count
    [] k = 0 /\ Submitting     -> count
    [] OTHER                   -> stored_count[Slot(k)]
Pending ==
  [i \in 1 .. queued_count - Retired |->
     LET k == i - 1 + Retired IN [data |-> data[Slot(k)], count |-> CountOf(k)]]

Queue == INSTANCE DmaQueue WITH
           Capacity <- DMA_NUM_BUFFS,
           Requests <- [data : 1 .. MaxRequests, count : 1 .. DMA_BUFF_SIZE],
           pending <- Pending,
           drawn <- drawn,
           broken <- ~WaitsKept

\* The ring implements the bounded queue of DmaQueue: accepted requests are
\* drawn exactly once, in order, with their own contents and count, and all of
\* them are, as long as WaitsKept.
ImplementsQueue == Queue!FairSpec

\* "For waiting for non-full buffer queue", "For waiting for empty buffer queue":
\* START_DMA and late_unbind_dma leave their wait only when what they wait for
\* is true.
WaitsHold ==
  [][\A w \in Waiting : pc = w /\ pc' = AfterWait(w) => Condition(w)]_vars

=============================================================================
