------------------------------ MODULE Kyouko3Irq ------------------------------
(***************************************************************************)
(* The whole driver under the program that ships with it: main.c's         *)
(* dma_commands queues and flushes a RasterFlush through the FIFO before   *)
(* every START_DMA, while dma_intr writes to the same FIFO.                *)
(*                                                                         *)
(* FIFO_WRITE and the FifoHead write of fifo_flush are taken apart into    *)
(* the accesses to fifo.head they consist of, because the process makes    *)
(* them with interrupts enabled; and start_dma's critical section is, as   *)
(* its spin lock is a local variable that dma_intr never takes.  Windows   *)
(* is the set of such points at which dma_intr may arrive: those of        *)
(* OneProcessor, and inside the critical section too when the handler runs *)
(* on another processor.  Arriving there is harmless as a rule; mixed      *)
(* records that it was not, because the handler had commands of its own to *)
(* write, and the properties of a passing run say what holds until then.   *)
(* The handler itself is a step.  The ring of buffers is the one of        *)
(* Kyouko3Dma, whose waits are here awaited conditions.                    *)
(***************************************************************************)
EXTENDS Integers, Sequences

CONSTANTS
  FIFO_ENTRIES,    \* entries in the command ring
  DMA_NUM_BUFFS,   \* buffers in the DMA ring
  U_NUM_BUFFS,     \* requests main.c makes: 50
  U_NUM_TRIANGLES, \* triangles it writes to each buffer: 1000
  CountRange,      \* values of the header's count: 2^10
  Windows,         \* where dma_intr may come in between
  MaxDraws         \* bound: buffers drawn in a behaviour, some of them again
                   \* once commands have been mixed

OneProcessor == {"command", "value", "head", "wrap", "flush"}
AllWindows == OneProcessor \cup {"lock"}

\* tail_cache is refreshed only by a flush, and a whole lap between two of them
\* would go unseen: RasterFlush and the buffers' commands must stay below one.
IrqAssumption ==
  /\ DMA_NUM_BUFFS \in Nat /\ DMA_NUM_BUFFS >= 2
  /\ U_NUM_BUFFS \in Nat /\ U_NUM_TRIANGLES \in Nat /\ CountRange \in Nat \ {0}
  /\ FIFO_ENTRIES \in Nat /\ FIFO_ENTRIES > 2 * DMA_NUM_BUFFS
  /\ Windows \subseteq AllWindows
  /\ MaxDraws \in Nat /\ MaxDraws >= U_NUM_BUFFS

ASSUME IrqAssumption

VARIABLES
  \* struct fifo and its ring; entry FIFO_ENTRIES is the memory behind it
  head, tail_cache, ring,
  \* the DMA half of struct kyouko3
  fill, drain, queued_count, stored_count,
  \* the process
  pc,          \* where main.c or the driver is
  access,      \* the access of FIFO_WRITE it is about to make, or "none"
  loaded,      \* whether it has loaded fifo.head for it
  register,    \* the value loaded
  todo,        \* the FIFO_WRITEs the current call has still to make
  request,     \* main.c's i: the request being prepared
  u_base,      \* the buffer START_DMA returned
  dma_header,  \* its dma_header.count: the vertices that follow the header
  data,        \* the request each buffer holds, and the count in its header
  \* the card
  FifoHead, FifoTail,
  address,     \* BufferAAddress
  dma,         \* the buffer being drawn and its count, or NoDraw
  status,      \* bit 0x02 of InterruptStatus
  flushes,     \* RasterFlush commands executed
  drawn,       \* the requests drawn
  \* history
  mixed        \* dma_intr has written in between what the process was writing

fifo == <<head, tail_cache, ring>>
buffers == <<fill, drain, queued_count, stored_count>>
writing == <<access, loaded, register, todo>>
client == <<request, u_base, dma_header, data>>
card == <<FifoTail, address, dma, status, flushes, drawn>>
vars == <<fifo, buffers, pc, writing, client, FifoHead, card, mixed>>

Buffers == 0 .. DMA_NUM_BUFFS - 1
NoBuffer == -1
Entry(c, v) == [command |-> c, value |-> v]
Stale == Entry("stale", 0)
Contents(r, n) == [request |-> r, vertices |-> n]
NoDraw == [buffer |-> NoBuffer, count |-> 0]
NoContents == Contents(0, 0)

-----------------------------------------------------------------------------
\* Faulty variants of the operators below, for the mutation runs.
SubmitsFill(b) == <<Entry("BufferAAddress", b), Entry("BufferAConfig", stored_count[fill])>>
NeverWaits == TRUE
SkipsLast(q) == q > 1
NoWrap(i) == i + 1

Succ(i) == (i + 1) % DMA_NUM_BUFFS
Advance(i) == IF i + 1 >= FIFO_ENTRIES THEN 0 ELSE i + 1

\* The commands that give buffer b to the card.  A byte count stands for the
\* request it was passed for.
Submission(b) == <<Entry("BufferAAddress", b), Entry("BufferAConfig", stored_count[b])>>

\* What dma_intr writes to FifoHead: the head after its two FIFO_WRITEs.
Announced(h) == Advance(Advance(h))

\* The condition that ends fifo_flush's loop.
Drained == tail_cache = head

\* start_dma filled the last free buffer.
Suspends(f) == f = drain

\* What dma_header.count starts from for each buffer, and what it is after the
\* additions of three for every triangle.
FreshHeader == 0
Counted(n) == (n + 3 * U_NUM_TRIANGLES) % CountRange

\* dma_intr has another buffer to give to the card.
Resubmits(q) == q # 0

Init ==
  /\ head = 0 /\ tail_cache = 0
  /\ ring = [e \in 0 .. FIFO_ENTRIES |-> Stale]
  /\ fill = 0 /\ drain = 0 /\ queued_count = 0
  /\ stored_count = [b \in Buffers |-> 0]
  /\ pc = "fill"
  /\ access = "none" /\ loaded = FALSE /\ register = 0 /\ todo = <<>>
  /\ request = 1 /\ u_base = 0 /\ dma_header = 0
  /\ data = [b \in Buffers |-> NoContents]
  /\ FifoHead = 0 /\ FifoTail = 0
  /\ address = 0 /\ dma = NoDraw /\ status = FALSE
  /\ flushes = 0 /\ drawn = <<>>
  /\ mixed = FALSE

-----------------------------------------------------------------------------
\* FIFO_WRITE in process context, for the first entry of todo.

\* Each access loads fifo.head anew: the stores may alias it.
fifo_write_load ==
  /\ access \in {"command", "value", "head"} /\ ~loaded
  /\ register' = head
  /\ loaded' = TRUE
  /\ UNCHANGED <<fifo, buffers, pc, access, todo, client, FifoHead, card>>

fifo_write_command ==
  /\ access = "command" /\ loaded
  /\ ring' = [ring EXCEPT ![register].command = Head(todo).command]
  /\ access' = "value" /\ loaded' = FALSE
  /\ UNCHANGED <<head, tail_cache, buffers, pc, register, todo, client, FifoHead, card>>

fifo_write_value ==
  /\ access = "value" /\ loaded
  /\ ring' = [ring EXCEPT ![register].value = Head(todo).value]
  /\ access' = "head" /\ loaded' = FALSE
  /\ UNCHANGED <<head, tail_cache, buffers, pc, register, todo, client, FifoHead, card>>

fifo_write_head ==
  /\ access = "head" /\ loaded
  /\ head' = register + 1
  /\ access' = "wrap" /\ loaded' = FALSE
  /\ UNCHANGED <<tail_cache, ring, buffers, pc, register, todo, client, FifoHead, card>>

fifo_write_wrap ==
  /\ access = "wrap"
  /\ head' = IF head >= FIFO_ENTRIES THEN 0 ELSE head
  /\ todo' = Tail(todo)
  /\ access' = IF todo' = <<>> THEN "none" ELSE "command"
  /\ UNCHANGED <<tail_cache, ring, buffers, pc, loaded, register, client, FifoHead, card>>

FifoWrite ==
  \/ fifo_write_load \/ fifo_write_command \/ fifo_write_value
  \/ fifo_write_head \/ fifo_write_wrap

\* The process calls FIFO_WRITE for each of the entries s, and goes on at p.
Call(s, p) == todo' = s /\ access' = "command" /\ pc' = p

-----------------------------------------------------------------------------
\* dma_commands of main.c and the driver calls it makes.

\* The triangles of the next request and the header before them, or after the
\* last one a final flush.
user_fill ==
  /\ pc = "fill"
  /\ IF request <= U_NUM_BUFFS
       THEN /\ dma_header' = Counted(FreshHeader)
            /\ data' = [data EXCEPT ![u_base] = Contents(request, dma_header')]
       ELSE UNCHANGED <<dma_header, data>>
  /\ Call(<<Entry("RasterFlush", 0)>>, "flush")
  /\ UNCHANGED <<fifo, buffers, loaded, register, request, u_base, FifoHead, card>>

\* fifo_flush evaluates fifo.head ...
fifo_flush_load ==
  /\ pc = "flush" /\ access = "none"
  /\ register' = head
  /\ pc' = "flush_write"
  /\ UNCHANGED <<fifo, buffers, access, loaded, todo, client, FifoHead, card>>

\* ... K_WRITE_REGISTER delays, then writes the value ...
fifo_flush_head ==
  /\ pc = "flush_write"
  /\ FifoHead' = register
  /\ pc' = "poll"
  /\ UNCHANGED <<fifo, buffers, writing, client, card>>

\* ... and the loop polls the card.
fifo_flush_poll ==
  /\ pc = "poll" /\ ~Drained
  /\ tail_cache' = FifoTail
  /\ UNCHANGED <<head, ring, buffers, pc, writing, client, FifoHead, card>>

fifo_flush_end ==
  /\ pc = "poll" /\ Drained
  /\ pc' = IF request <= U_NUM_BUFFS THEN "start" ELSE "unbind"
  /\ UNCHANGED <<fifo, buffers, writing, client, FifoHead, card>>

\* The process goes on to its next request with the buffer b.
Returns(b) == u_base' = b /\ request' = request + 1 /\ pc' = "fill"

\* The critical section: the count, then the test of the indices.
start_dma ==
  /\ pc = "start"
  /\ queued_count' = queued_count + 1
  /\ pc' = "locked"
  /\ UNCHANGED <<fifo, fill, drain, stored_count, writing, client, FifoHead, card>>

start_dma_direct ==
  /\ pc = "locked" /\ fill = drain
  /\ fill' = Succ(fill)
  /\ Call(<<Entry("BufferAAddress", drain), Entry("BufferAConfig", request)>>, "submit")
  /\ UNCHANGED <<fifo, drain, queued_count, stored_count, loaded, register, client,
                 FifoHead, card>>

start_dma_submit ==
  /\ pc = "submit" /\ access = "none"
  /\ FifoHead' = head
  /\ Returns(fill)
  /\ UNCHANGED <<fifo, buffers, writing, dma_header, data, card>>

start_dma_queue ==
  /\ pc = "locked" /\ fill # drain
  /\ stored_count' = [stored_count EXCEPT ![fill] = request]
  /\ fill' = Succ(fill)
  /\ IF Suspends(fill')
       THEN pc' = "not_full" /\ UNCHANGED <<u_base, request>>
       ELSE Returns(fill')
  /\ UNCHANGED <<fifo, drain, queued_count, writing, dma_header, data, FifoHead, card>>

start_dma_waited ==
  /\ pc = "not_full" /\ queued_count # DMA_NUM_BUFFS
  /\ Returns(fill)
  /\ UNCHANGED <<fifo, buffers, writing, dma_header, data, FifoHead, card>>

late_unbind_dma ==
  /\ pc = "unbind" /\ queued_count = 0
  /\ pc' = "done"
  /\ UNCHANGED <<fifo, buffers, writing, client, FifoHead, card>>

-----------------------------------------------------------------------------
\* The access of the process that the handler would come in front of, if any.
Window ==
  CASE access # "none"    -> access
    [] pc = "flush_write" -> "flush"
    [] pc = "locked"      -> "lock"
    [] OTHER              -> "none"

\* What the handler writes mixes with what the process is writing: inside a
\* FIFO access of the process always, and inside the critical section when the
\* only buffer left is the one counted there and not stored yet.
Mixes ==
  /\ Resubmits(queued_count')
  /\ \/ Window \in OneProcessor
     \/ Window = "lock" /\ queued_count' = 1

\* The two FIFO_WRITEs of the handler write the ring from fifo.head on.
dma_intr ==
  /\ status
  /\ Window \in Windows \cup {"none"}
  /\ status' = FALSE
  /\ queued_count' = queued_count - 1
  /\ drain' = Succ(drain)
  /\ IF Resubmits(queued_count')
       THEN LET s == Submission(drain')
            IN  /\ ring' = [ring EXCEPT ![head] = s[1], ![Advance(head)] = s[2]]
                /\ head' = Advance(Advance(head))
                /\ FifoHead' = Announced(head)
       ELSE UNCHANGED <<ring, head, FifoHead>>
  /\ mixed' = (mixed \/ Mixes)
  /\ UNCHANGED <<tail_cache, fill, stored_count, pc, writing, client,
                 FifoTail, address, dma, flushes, drawn>>

\* The card executes the entries up to FifoHead in ring order.  BufferAConfig
\* starts a buffer, and waits for the one before it; whether other commands
\* may pass a buffer being drawn is left open.
card_execute ==
  /\ FifoTail # FifoHead
  /\ FifoTail' = (FifoTail + 1) % FIFO_ENTRIES
  /\ LET e == ring[FifoTail]
     IN  /\ e.command = "BufferAConfig" => dma = NoDraw
         /\ dma' = IF e.command = "BufferAConfig"
                     THEN [buffer |-> address, count |-> e.value] ELSE dma
         /\ address' = IF e.command = "BufferAAddress" THEN e.value ELSE address
         /\ flushes' = IF e.command = "RasterFlush" THEN flushes + 1 ELSE flushes
  /\ UNCHANGED <<fifo, buffers, pc, writing, client, FifoHead, status, drawn, mixed>>

\* An address from mixed commands may be that of no buffer.
Read(b) == IF b \in Buffers THEN data[b] ELSE NoContents

card_draw ==
  /\ dma # NoDraw /\ Len(drawn) < MaxDraws
  /\ drawn' = Append(drawn, [data |-> Read(dma.buffer), count |-> dma.count])
  /\ dma' = NoDraw
  /\ status' = TRUE
  /\ UNCHANGED <<fifo, buffers, pc, writing, client, FifoHead, FifoTail, address, flushes, mixed>>

Process ==
  /\ \/ FifoWrite
     \/ user_fill
     \/ fifo_flush_load \/ fifo_flush_head \/ fifo_flush_poll \/ fifo_flush_end
     \/ start_dma \/ start_dma_direct \/ start_dma_submit \/ start_dma_queue \/ start_dma_waited
     \/ late_unbind_dma
  /\ UNCHANGED mixed

Next == Process \/ dma_intr \/ card_execute \/ card_draw

Spec == Init /\ [][Next]_vars

FairSpec ==
  /\ Spec
  /\ WF_vars(Process) /\ WF_vars(dma_intr)
  /\ WF_vars(card_execute) /\ WF_vars(card_draw)

-----------------------------------------------------------------------------
(* Properties. *)

Commands == {"RasterFlush", "BufferAAddress", "BufferAConfig", "stale"}
Values == 0 .. U_NUM_BUFFS + DMA_NUM_BUFFS
Requests == 0 .. U_NUM_BUFFS
BufferContents == [request : Requests, vertices : 0 .. CountRange - 1]

Typed ==
  /\ head \in 0 .. FIFO_ENTRIES /\ (head = FIFO_ENTRIES => access = "wrap")
  /\ tail_cache \in 0 .. FIFO_ENTRIES - 1
  /\ ring \in [0 .. FIFO_ENTRIES -> [command : Commands, value : Values]]
  /\ fill \in Buffers /\ drain \in Buffers /\ queued_count \in 0 .. DMA_NUM_BUFFS
  /\ stored_count \in [Buffers -> Requests]
  /\ pc \in {"fill", "flush", "flush_write", "poll", "start", "locked", "submit", "not_full",
             "unbind", "done"}
  /\ access \in {"none", "command", "value", "head", "wrap"}
  /\ loaded \in BOOLEAN /\ register \in 0 .. FIFO_ENTRIES - 1
  /\ todo \in Seq([command : Commands, value : Values])
  /\ request \in 1 .. U_NUM_BUFFS + 1 /\ u_base \in Buffers
  /\ dma_header \in 0 .. CountRange - 1 /\ data \in [Buffers -> BufferContents]
  /\ FifoHead \in 0 .. FIFO_ENTRIES - 1 /\ FifoTail \in 0 .. FIFO_ENTRIES - 1
  /\ address \in Values
  /\ dma \in [buffer : Buffers, count : Requests] \cup {NoDraw}
  /\ status \in BOOLEAN
  /\ flushes \in 0 .. U_NUM_BUFFS + 1
  /\ drawn \in Seq([data : BufferContents, count : Requests])

\* The types hold until commands have been mixed; nothing restores them after.
TypeOK == mixed \in BOOLEAN /\ (~mixed => Typed)

\* The requests are drawn in the order main.c made them, each with its own
\* contents and its own count.
DrawnInOrder ==
  \A i \in DOMAIN drawn : drawn[i].data.request = i /\ drawn[i].count = i

\* "Each buffer holding the commands to draw 1,000 triangles": the header of
\* every buffer drawn counts all the vertices main.c wrote behind it.
DrawsAllTriangles ==
  \A i \in DOMAIN drawn : drawn[i].data.vertices = 3 * U_NUM_TRIANGLES

\* Wherever dma_intr arrives, in the middle of a FIFO_WRITE or of a flush or in
\* start_dma's critical section: as long as it has had nothing to write there,
\* what is drawn is in order.
InOrderUnlessMixed == ~mixed => DrawnInOrder

\* A flush is a barrier for the process's own commands although the handler
\* moves head under it: when main.c goes on, every RasterFlush it has queued
\* has been executed.
FlushBarrier == ~mixed /\ pc \in {"start", "unbind"} => flushes = request

\* The program ends, with every request drawn, unless commands are mixed.
Completes == <>(mixed \/ (pc = "done" /\ Len(drawn) = U_NUM_BUFFS))
=============================================================================
