----------------------------- MODULE Kyouko3Fifo -----------------------------
(***************************************************************************)
(* The command FIFO of the Kyouko3 driver: FIFO_WRITE, fifo_queue,         *)
(* fifo_flush and the calls made of them (graphics_on, graphics_off and    *)
(* the FIFO half of kyouko3_release), with the process that calls them and *)
(* the card that reads the ring.                                           *)
(*                                                                         *)
(* The driver keeps the index it writes next (head) and the last value it  *)
(* read of the card's FifoTail (tail_cache); it has no check for a full    *)
(* ring and relies on its client to flush before one lap of commands.      *)
(* Each FIFO_WRITE, each register write and each poll of FifoTail is a     *)
(* step; the card executes commands between them.  Kyouko3Irq looks inside *)
(* FIFO_WRITE, where dma_intr may arrive.                                  *)
(***************************************************************************)
EXTENDS Integers, Sequences

CONSTANTS
  FIFO_ENTRIES,  \* entries in the ring
  OnCommands,    \* commands graphics_on writes: six in the code
  MaxBatch,      \* commands the client queues between two flushes
  MaxCommands    \* bound: commands queued in a behaviour

\* Commands graphics_off writes.
OffCommands == 1

\* The client leaves room for graphics_on's commands, which go in behind what
\* it has queued; main.c queues at most 30 in a ring of 1024.
FifoAssumption ==
  /\ FIFO_ENTRIES \in Nat /\ MaxBatch \in Nat /\ MaxCommands \in Nat
  /\ OnCommands \in Nat /\ OnCommands >= OffCommands
  /\ MaxBatch + OnCommands < FIFO_ENTRIES

ASSUME FifoAssumption

VARIABLES
  head,         \* fifo.head: the entry written next
  tail_cache,   \* fifo.tail_cache: FifoTail as last read
  ring,         \* fifo.k_base: the command in each entry
  graphics_on,
  pc,           \* where the process is in the driver, or "user", or "closed"
  call,         \* the call it is in: "flush", "on", "off" or "release"
  todo,         \* commands the call has still to write
  issued,       \* commands queued so far, which numbers them
  batch,        \* commands written since the last flush ended
  FifoHead,     \* the card's register: the entry it must not read yet
  FifoTail,     \* the card's register: the entry it reads next
  executed      \* commands the card has executed

process == <<pc, call, todo, issued, batch>>
card == <<FifoTail, executed>>
vars == <<head, tail_cache, ring, graphics_on, process, FifoHead, card>>

Entries == 0 .. FIFO_ENTRIES - 1

\* What an entry holds that no FIFO_WRITE has set, and what fifo_queue writes
\* when copy_from_user fails and leaves its local variable uninitialised.
Garbage == 0

Points == {"closed", "user", "write", "head", "poll"}
Calls == {"none", "flush", "on", "off", "release"}

-----------------------------------------------------------------------------
\* Faulty variants of the operators below, for the mutation runs.
WrapsLate(i) == IF i + 1 > FIFO_ENTRIES THEN 0 ELSE i + 1
NeverWaits == TRUE
LeavesHead == tail_cache
ReadsHead == FifoHead

\* ++head, and the wrap at the end of the ring.
Advance(i) == IF i + 1 >= FIFO_ENTRIES THEN 0 ELSE i + 1

\* The condition that ends fifo_flush's loop.
Drained == tail_cache = head

\* What fifo_flush writes to FifoHead.
FlushHead == head

\* What fifo_flush reads as the card's tail.
CardTail == FifoTail

Init ==
  /\ head = 0 /\ tail_cache = 0
  /\ ring = [e \in Entries |-> Garbage]
  /\ graphics_on = FALSE
  /\ pc = "closed" /\ call = "none" /\ todo = 0
  /\ issued = 0 /\ batch = 0
  /\ FifoHead = 0 /\ FifoTail = 0 /\ executed = <<>>

\* A new ring; writing FifoStart and FifoEnd makes the card start at its first
\* entry.
kyouko3_open ==
  /\ pc = "closed"
  /\ ring' = [e \in Entries |-> Garbage]
  /\ head' = 0 /\ tail_cache' = 0
  /\ FifoHead' = 0 /\ FifoTail' = 0
  /\ graphics_on' = FALSE
  /\ pc' = "user"
  /\ batch' = 0
  /\ UNCHANGED <<call, todo, issued, executed>>

\* FIFO_WRITE of the command c.
FIFO_WRITE(c) ==
  /\ ring' = [ring EXCEPT ![head] = c]
  /\ head' = Advance(head)
  /\ batch' = batch + 1

\* FIFO_QUEUE.  A fault of copy_from_user queues whatever the stack holds.
fifo_queue ==
  /\ pc = "user"
  /\ batch < MaxBatch /\ issued < MaxCommands
  /\ issued' = issued + 1
  /\ \E c \in {issued', Garbage} : FIFO_WRITE(c)
  /\ UNCHANGED <<tail_cache, graphics_on, pc, call, todo, FifoHead, card>>

\* FIFO_FLUSH.
ioctl_flush ==
  /\ pc = "user"
  /\ call' = "flush"
  /\ pc' = "head"
  /\ UNCHANGED <<head, tail_cache, ring, graphics_on, todo, issued, batch, FifoHead, card>>

\* VMODE, and close(fd) when graphics is on: commands, then a flush.
Begin(c, n) ==
  /\ pc = "user" /\ issued + n <= MaxCommands
  /\ call' = c
  /\ todo' = n
  /\ pc' = "write"
  /\ UNCHANGED <<head, tail_cache, ring, graphics_on, issued, batch, FifoHead, card>>

graphics_on_begin == Begin("on", OnCommands)
graphics_off_begin == Begin("off", OffCommands)
kyouko3_release_on == graphics_on /\ Begin("release", OffCommands)

\* close(fd) when graphics is off: whatever was not flushed goes with the ring.
kyouko3_release_off ==
  /\ pc = "user" /\ ~graphics_on
  /\ pc' = "closed"
  /\ UNCHANGED <<head, tail_cache, ring, graphics_on, call, todo, issued, batch,
                 FifoHead, card>>

graphics_write ==
  /\ pc = "write"
  /\ issued' = issued + 1
  /\ FIFO_WRITE(issued')
  /\ todo' = todo - 1
  /\ pc' = IF todo' = 0 THEN "head" ELSE "write"
  /\ UNCHANGED <<tail_cache, graphics_on, call, FifoHead, card>>

\* fifo_flush: the FifoHead write ...
fifo_flush_head ==
  /\ pc = "head"
  /\ FifoHead' = FlushHead
  /\ pc' = "poll"
  /\ UNCHANGED <<head, tail_cache, ring, graphics_on, call, todo, issued, batch, card>>

\* ... a turn of the loop ...
fifo_flush_poll ==
  /\ pc = "poll" /\ ~Drained
  /\ tail_cache' = CardTail
  /\ UNCHANGED <<head, ring, graphics_on, process, FifoHead, card>>

\* ... and its end, with the rest of the call.
fifo_flush_end ==
  /\ pc = "poll" /\ Drained
  /\ graphics_on' = CASE call = "on" -> TRUE
                      [] call = "flush" -> graphics_on
                      [] OTHER -> FALSE
  /\ pc' = IF call = "release" THEN "closed" ELSE "user"
  /\ call' = "none"
  /\ batch' = 0
  /\ UNCHANGED <<head, tail_cache, ring, todo, issued, FifoHead, card>>

\* The card executes the entries up to FifoHead, in ring order.
card_execute ==
  /\ FifoTail # FifoHead
  /\ executed' = Append(executed, ring[FifoTail])
  /\ FifoTail' = IF FifoTail + 1 = FIFO_ENTRIES THEN 0 ELSE FifoTail + 1
  /\ UNCHANGED <<head, tail_cache, ring, graphics_on, process, FifoHead>>

User ==
  \/ kyouko3_open \/ fifo_queue \/ ioctl_flush
  \/ graphics_on_begin \/ graphics_off_begin
  \/ kyouko3_release_on \/ kyouko3_release_off

Kernel == graphics_write \/ fifo_flush_head \/ fifo_flush_poll \/ fifo_flush_end

Next == User \/ Kernel \/ card_execute

Spec == Init /\ [][Next]_vars

\* A process inside the driver is scheduled again and the card executes what
\* it is given.
FairSpec == Spec /\ WF_vars(Kernel) /\ WF_vars(card_execute)

-----------------------------------------------------------------------------
(* Properties. *)

TypeOK ==
  /\ head \in Entries /\ tail_cache \in Entries
  /\ ring \in [Entries -> 0 .. MaxCommands]
  /\ graphics_on \in BOOLEAN
  /\ pc \in Points /\ call \in Calls /\ todo \in 0 .. OnCommands
  /\ issued \in 0 .. MaxCommands
  /\ batch \in 0 .. FIFO_ENTRIES - 1
  /\ FifoHead \in Entries /\ FifoTail \in Entries
  /\ executed \in Seq(0 .. MaxCommands)

\* The number of entries from i up to j, in ring order.
Gap(i, j) == IF i <= j THEN j - i ELSE FIFO_ENTRIES + j - i

\* The entries that hold a command the card has still to execute.
Unread == Gap(FifoTail, head)

\* tail_cache never runs ahead of the card, however stale it is: the loop of
\* fifo_flush cannot end on a value FifoTail has not reached.
CacheBehind == Gap(FifoTail, head) <= Gap(tail_cache, head)

\* A call that flushes returns only when the card has executed every command,
\* and the card is never ahead of what was flushed.
FlushDrains ==
  /\ pc = "user" => FifoTail = FifoHead
  /\ pc = "user" /\ batch = 0 => Unread = 0

\* When the ring is freed the card is not reading it.
FreedIdle == pc = "closed" => FifoTail = FifoHead

\* The commands queued and not executed, read off the ring.
Pending ==
  [k \in 1 .. IF pc = "closed" THEN 0 ELSE Unread |->
     ring[(FifoTail + k - 1) % FIFO_ENTRIES]]

Queue == INSTANCE CommandQueue WITH
           Commands <- 0 .. MaxCommands,
           mode <- CASE pc = "closed" -> "closed"
                     [] pc = "poll"   -> "flushing"
                     [] OTHER         -> "open",
           pending <- Pending,
           executed <- executed

\* The ring implements the command queue: no command is overwritten before it
\* is executed, none is executed twice or out of order, and every flush is a
\* barrier that ends.
ImplementsQueue == Queue!FairSpec
=============================================================================
