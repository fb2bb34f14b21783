------------------------------ MODULE LabDriver ------------------------------
(***************************************************************************)
(* The earlier Kyouko3 drivers in mylab.  lab1 only opens and closes, lab2 *)
(* maps the card's registers into the process, and lab3, lab4 and 5lab     *)
(* share a command FIFO that differs from the one of Kyouko3Fifo in three  *)
(* ways:                                                                   *)
(*   - FIFO_WRITE wraps one entry late (head > FIFO_ENTRIES);              *)
(*   - graphics off queues no command, and in lab4 does not flush either;  *)
(*   - release turns graphics off whether or not it is on.                 *)
(* The ring therefore works only for a client that queues less than one    *)
(* lap of commands before it closes the device, as the labs' user.c does   *)
(* (37 of 1024): with one more, head reaches FIFO_ENTRIES, where FIFOTAIL  *)
(* never is, and a flush does not end.                                     *)
(*                                                                         *)
(* One process opens the device, after insmod has returned and the card    *)
(* has been probed; it does not open the device a failed insmod has left   *)
(* behind.  A mapping keeps the file open: release comes when the          *)
(* descriptor and every mapping are gone.  5lab's BIND_DMA is left out.    *)
(***************************************************************************)
EXTENDS Integers, Sequences

CONSTANTS
  FIFO_ENTRIES,  \* entries in the ring
  OnCommands,    \* commands on_GraphicsMode writes: six in the code
  Labs,          \* the drivers that may be loaded
  MaxPerOpen,    \* commands the client queues between open and release
  MaxCommands    \* bound: commands queued in a behaviour

LabAssumption ==
  /\ FIFO_ENTRIES \in Nat \ {0} /\ OnCommands \in Nat \ {0}
  /\ Labs \subseteq {"lab1", "lab2", "lab3", "lab4", "5lab"}
  /\ MaxPerOpen \in Nat /\ MaxPerOpen < FIFO_ENTRIES
  /\ MaxCommands \in Nat

ASSUME LabAssumption

VARIABLES
  lab,           \* the driver
  \* what it holds
  loaded,        \* the module is in the kernel
  registered,    \* its PCI driver is registered
  stale,         \* a character device is registered of a module that is gone
  enabled,       \* the card has been probed and enabled
  held,          \* what open acquired
  fd,            \* the process has the descriptor
  vmas,          \* the process's mappings of the card
  \* its FIFO
  head,          \* fifo.head: the entry written next
  tail,          \* fifo.tail: FIFOTAIL as last read
  ring,          \* fifo.k_base
  bGraphics_on,
  \* the process
  pc,            \* where it is in the driver, or "user", or "closed"
  call,          \* the call it is in: "flush", "on", "off" or "release"
  todo,          \* commands on_GraphicsMode has still to write
  issued,        \* commands queued so far, which numbers them
  used,          \* commands queued since the device was opened
  \* the card
  FIFOHEAD,      \* its register: the entry it must not read yet
  FIFOTAIL,      \* its register: the entry it reads next
  executed       \* commands it has executed

device == <<lab, loaded, registered, stale, enabled, held, fd, vmas>>
fifo == <<head, tail, ring, bGraphics_on>>
process == <<pc, call, todo, issued, used>>
card == <<FIFOTAIL, executed>>
vars == <<device, fifo, process, FIFOHEAD, card>>

Entries == 0 .. FIFO_ENTRIES - 1
Bars == {"control_base", "ram_card_base"}
HasFifo == lab \in {"lab3", "lab4", "5lab"}

\* An entry not written since the ring was allocated, or the uninitialised
\* local variable that fifo_queue writes when copy_from_user fails.
Garbage == 0

-----------------------------------------------------------------------------
\* Faulty variants of the operators below, for the mutation runs.
NeverWaits == TRUE
SkipsEntry(i) == i + 2
KeepsHead == tail
UnmapsRegisters == held \ {"control_base"}

\* lab1 touches no card.
HasCard == lab # "lab1"

\* head+=1, and the wrap.
Advance(i) == IF i + 1 > FIFO_ENTRIES THEN 0 ELSE i + 1

\* The condition that ends fifo_flush's loop.
Drained == tail = head

\* What fifo_flush writes to FIFOHEAD.
FlushHead == head

\* off_GraphicsMode flushes: lab4 has the call commented out.
OffFlushes == lab # "lab4"

\* What is still held when release goes into off_GraphicsMode.
HeldBeforeOff == held

\* lab2 and lab3 do not look at what pci_register_driver returns.
InitIgnoresError == lab \in {"lab2", "lab3"}

Init ==
  /\ lab \in Labs
  /\ loaded = FALSE /\ registered = FALSE /\ stale = FALSE
  /\ enabled = FALSE /\ held = {} /\ fd = FALSE /\ vmas = {}
  /\ head = 0 /\ tail = 0
  /\ ring = [e \in Entries |-> Garbage]
  /\ bGraphics_on = FALSE
  /\ pc = "closed" /\ call = "none" /\ todo = 0
  /\ issued = 0 /\ used = 0
  /\ FIFOHEAD = 0 /\ FIFOTAIL = 0 /\ executed = <<>>

-----------------------------------------------------------------------------
(* insmod and rmmod.  An open file pins the module. *)

\* A failing pci_register_driver makes insmod fail, with the character device
\* left registered.
my_init_function ==
  /\ ~loaded
  /\ \E ok \in IF HasCard THEN BOOLEAN ELSE {TRUE} :
       /\ registered' = ok
       /\ loaded' = (ok \/ InitIgnoresError)
       /\ stale' = (stale \/ ~loaded')
  /\ UNCHANGED <<lab, enabled, held, fd, vmas, fifo, process, FIFOHEAD, card>>

\* pci_register_driver finds the card.
kyouko3_probe ==
  /\ registered /\ HasCard /\ ~enabled
  /\ enabled' = TRUE
  /\ UNCHANGED <<lab, loaded, registered, stale, held, fd, vmas, fifo, process, FIFOHEAD, card>>

\* pci_unregister_driver calls kyouko3_remove.
my_exit_function ==
  /\ loaded /\ pc = "closed"
  /\ loaded' = FALSE /\ registered' = FALSE /\ enabled' = FALSE
  /\ UNCHANGED <<lab, stale, held, fd, vmas, fifo, process, FIFOHEAD, card>>

-----------------------------------------------------------------------------
(* open, mmap and release. *)

\* lab1 and lab2.
kyouko3_open ==
  /\ loaded /\ enabled = HasCard /\ ~HasFifo /\ pc = "closed"
  /\ held' = IF HasCard THEN Bars ELSE {}
  /\ fd' = TRUE /\ pc' = "user"
  /\ UNCHANGED <<lab, loaded, registered, stale, enabled, vmas, fifo, call, todo, issued, used, FIFOHEAD, card>>

\* A new ring too; writing FIFOSTART and FIFOEND makes the card start at its
\* first entry.
kyouko3fops_open ==
  /\ enabled /\ HasFifo /\ pc = "closed"
  /\ held' = Bars \cup {"fifo"}
  /\ ring' = [e \in Entries |-> Garbage]
  /\ head' = 0 /\ tail' = 0
  /\ FIFOHEAD' = 0 /\ FIFOTAIL' = 0
  /\ bGraphics_on' = FALSE
  /\ fd' = TRUE /\ pc' = "user" /\ used' = 0
  /\ UNCHANGED <<lab, loaded, registered, stale, enabled, vmas, call, todo, issued, executed>>

\* lab2 maps the registers whatever offset it is asked for, the others the
\* registers or the frame buffer; any other offset is refused.
kyuoko3_mmap == lab = "lab2" /\ vmas' = vmas \cup {"control_base"}
kyouko3fops_mmap == HasFifo /\ \E r \in Bars : vmas' = vmas \cup {r}

mmap ==
  /\ pc = "user" /\ fd
  /\ kyuoko3_mmap \/ kyouko3fops_mmap
  /\ UNCHANGED <<lab, loaded, registered, stale, enabled, held, fd, fifo, process, FIFOHEAD, card>>

\* The process unmaps, closes, or exits in user mode.
munmap ==
  /\ pc = "user" /\ \E r \in vmas : vmas' = vmas \ {r}
  /\ UNCHANGED <<lab, loaded, registered, stale, enabled, held, fd, fifo, process, FIFOHEAD, card>>

close ==
  /\ pc = "user" /\ fd
  /\ fd' = FALSE /\ vmas' \in {vmas, {}}
  /\ UNCHANGED <<lab, loaded, registered, stale, enabled, held, fifo, process, FIFOHEAD, card>>

-----------------------------------------------------------------------------
(* The FIFO. *)

\* FIFO_WRITE of the command c.
FIFO_WRITE(c) ==
  /\ ring' = [ring EXCEPT ![head] = c]
  /\ head' = Advance(head)
  /\ issued' = issued + 1
  /\ used' = used + 1

\* The client's own bound.
Room(n) == used + n <= MaxPerOpen /\ issued + n <= MaxCommands

\* The process is about to make an ioctl; lab1 and lab2 have none.
Calls == pc = "user" /\ fd /\ HasFifo

\* FIFO_QUEUE.
fifo_queue ==
  /\ Calls /\ Room(1)
  /\ \E c \in {issued + 1, Garbage} : FIFO_WRITE(c)
  /\ UNCHANGED <<device, tail, bGraphics_on, pc, call, todo, FIFOHEAD, card>>

\* FIFO_FLUSH.
ioctl_flush ==
  /\ Calls
  /\ call' = "flush" /\ pc' = "head"
  /\ UNCHANGED <<device, fifo, todo, issued, used, FIFOHEAD, card>>

\* VMODE with GRAPHICS_ON: six commands, then a flush.
on_GraphicsMode ==
  /\ Calls /\ Room(OnCommands)
  /\ call' = "on" /\ pc' = "write"
  /\ todo' = OnCommands
  /\ UNCHANGED <<device, fifo, issued, used, FIFOHEAD, card>>

on_GraphicsMode_write ==
  /\ pc = "write"
  /\ FIFO_WRITE(issued + 1)
  /\ todo' = todo - 1
  /\ pc' = IF todo' = 0 THEN "head" ELSE "write"
  /\ UNCHANGED <<device, tail, bGraphics_on, call, FIFOHEAD, card>>

\* Where the process is after the call c.
After(c) == IF c = "release" THEN "free" ELSE "user"

\* off_GraphicsMode, with the flush of lab3 and 5lab or without it as in lab4.
off_GraphicsMode(c) ==
  /\ IF OffFlushes
       THEN call' = c /\ pc' = "head" /\ UNCHANGED bGraphics_on
       ELSE bGraphics_on' = FALSE /\ pc' = After(c) /\ UNCHANGED call
  /\ UNCHANGED <<head, tail, ring, todo, issued, used, FIFOHEAD, card>>

\* VMODE with GRAPHICS_OFF.
fifo_vmode_off == Calls /\ off_GraphicsMode("off") /\ UNCHANGED device

\* The last reference is gone.  Graphics goes off, then everything is freed;
\* lab2 has the second step only.
kyouko3fops_release ==
  /\ pc = "user" /\ ~fd /\ vmas = {} /\ HasFifo
  /\ off_GraphicsMode("release")
  /\ held' = HeldBeforeOff
  /\ UNCHANGED <<lab, loaded, registered, stale, enabled, fd, vmas>>

kyouko3fops_release_free ==
  /\ pc = "free"
  /\ held' = {} /\ pc' = "closed"
  /\ UNCHANGED <<lab, loaded, registered, stale, enabled, fd, vmas, fifo, call, todo, issued, used, FIFOHEAD, card>>

kyouko3_release ==
  /\ pc = "user" /\ ~fd /\ vmas = {} /\ ~HasFifo
  /\ held' = {} /\ pc' = "closed"
  /\ UNCHANGED <<lab, loaded, registered, stale, enabled, fd, vmas, fifo, call, todo, issued, used, FIFOHEAD, card>>

\* fifo_flush: the FIFOHEAD write, the turns of the loop, and its end with the
\* rest of the call.
fifo_flush_head ==
  /\ pc = "head"
  /\ FIFOHEAD' = FlushHead
  /\ pc' = "poll"
  /\ UNCHANGED <<device, fifo, call, todo, issued, used, card>>

fifo_flush_poll ==
  /\ pc = "poll" /\ ~Drained
  /\ tail' = FIFOTAIL
  /\ UNCHANGED <<device, head, ring, bGraphics_on, process, FIFOHEAD, card>>

fifo_flush_end ==
  /\ pc = "poll" /\ Drained
  /\ bGraphics_on' = IF call = "flush" THEN bGraphics_on ELSE call = "on"
  /\ pc' = After(call)
  /\ call' = "none"
  /\ UNCHANGED <<device, head, tail, ring, todo, issued, used, FIFOHEAD, card>>

\* The card executes the entries up to FIFOHEAD, and goes back to FIFOSTART
\* when it reaches FIFOEND.
card_execute ==
  /\ FIFOTAIL # FIFOHEAD
  /\ executed' = Append(executed, ring[FIFOTAIL])
  /\ FIFOTAIL' = IF FIFOTAIL + 1 = FIFO_ENTRIES THEN 0 ELSE FIFOTAIL + 1
  /\ UNCHANGED <<device, fifo, process, FIFOHEAD>>

User ==
  \/ my_init_function \/ kyouko3_probe \/ my_exit_function
  \/ kyouko3_open \/ kyouko3fops_open \/ mmap \/ munmap \/ close
  \/ fifo_queue \/ ioctl_flush \/ on_GraphicsMode \/ fifo_vmode_off

Kernel ==
  \/ on_GraphicsMode_write \/ fifo_flush_head \/ fifo_flush_poll \/ fifo_flush_end
  \/ kyouko3fops_release \/ kyouko3fops_release_free \/ kyouko3_release

Next == User \/ Kernel \/ card_execute

Spec == Init /\ [][Next]_vars

FairSpec == Spec /\ WF_vars(Kernel) /\ WF_vars(card_execute)

-----------------------------------------------------------------------------
(* Properties. *)

TypeOK ==
  /\ lab \in Labs /\ loaded \in BOOLEAN /\ registered \in BOOLEAN /\ stale \in BOOLEAN
  /\ enabled \in BOOLEAN /\ fd \in BOOLEAN
  /\ held \subseteq Bars \cup {"fifo"} /\ vmas \subseteq Bars
  /\ head \in Entries /\ tail \in Entries
  /\ ring \in [Entries -> 0 .. MaxCommands]
  /\ bGraphics_on \in BOOLEAN
  /\ pc \in {"closed", "user", "write", "head", "poll", "free"}
  /\ call \in {"none", "flush", "on", "off", "release"}
  /\ todo \in 0 .. OnCommands
  /\ issued \in 0 .. MaxCommands /\ used \in 0 .. MaxPerOpen
  /\ FIFOHEAD \in Entries /\ FIFOTAIL \in Entries
  /\ executed \in Seq(0 .. MaxCommands)

\* Release takes nothing away that is still needed: the ring while the card is
\* reading it - although lab4's release does not flush and turns off nothing
\* that could stop the card - and the registers while the driver writes to them.
HeldWhileUsed ==
  FIFOTAIL # FIFOHEAD \/ pc \in {"write", "head", "poll"} => Bars \cup {"fifo"} \subseteq held

\* In lab3 and 5lab nothing queued is ever dropped: release flushes what the
\* client did not.
NothingDropped == pc = "closed" /\ lab # "lab4" => Len(executed) = issued

Closed == pc \in {"closed", "free"}
Pending ==
  [k \in 1 .. IF Closed THEN 0 ELSE head - FIFOTAIL |-> ring[FIFOTAIL + k - 1]]

Queue == INSTANCE CommandQueue WITH
           Commands <- 0 .. MaxCommands,
           mode <- CASE Closed      -> "closed"
                     [] pc = "poll" -> "flushing"
                     [] OTHER       -> "open",
           pending <- Pending,
           executed <- executed

\* Below one lap the labs' ring implements the same command queue as the final
\* driver's.
ImplementsQueue == Queue!FairSpec
=============================================================================
