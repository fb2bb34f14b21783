---------------------------- MODULE Kyouko3Device ----------------------------
(***************************************************************************)
(* What the Kyouko3 driver acquires and gives back: module init and exit,  *)
(* probe and remove, open and release, mmap, and the resources bind_dma    *)
(* and its two unbinds handle one by one.  What goes through the FIFO and  *)
(* the DMA ring meanwhile is in Kyouko3Fifo and Kyouko3Dma.                *)
(*                                                                         *)
(* One process has the device open at a time; the driver does not enforce  *)
(* it.  A mapping keeps its file open: the kernel calls kyouko3_release    *)
(* when the descriptor and every mapping are gone, and an exiting process  *)
(* loses its mappings before its descriptors.  The process maps whichever  *)
(* page of the device it likes, as far as there are buffers, but does not  *)
(* open the device of a module that failed to load.                        *)
(***************************************************************************)
EXTENDS Integers, FiniteSets

CONSTANTS
  DMA_NUM_BUFFS,  \* buffers in the ring
  MaxLive         \* bound: allocations counted per buffer

DeviceAssumption ==
  /\ DMA_NUM_BUFFS \in Nat \ {0}
  /\ MaxLive \in Nat /\ MaxLive >= 2

ASSUME DeviceAssumption

VARIABLES
  enabled,      \* the module is loaded, the card probed and enabled
  stale,        \* a character device is registered of a module that is gone
  fd,           \* the process has the descriptor open
  vmas,         \* mappings the process has made of the device, by page offset
  bound,        \* the buffers whose mapping by BIND_DMA is still there
  pc,           \* where it is in the driver, or "user", or "closed"
  closing,      \* late_unbind_dma was called by kyouko3_release
  graphics_on, dma_mapped,
  held,         \* what the driver holds: see Resources
  live,         \* allocations of each buffer not freed
  next          \* the loop variable of bind_dma

file == <<enabled, stale, fd, vmas, bound>>
flags == <<closing, graphics_on, dma_mapped>>
buffers == <<live, next>>
vars == <<file, pc, flags, held, buffers>>

\* What open acquires; and what bind_dma does besides the buffers: message
\* signalled interrupts, dma_intr as the handler, and ConfigInterrupt at 0x02.
OpenResources == {"control_base", "ram_card_base", "fifo"}
Resources == OpenResources \cup {"msi", "irq", "interrupts"}

Buffers == 0 .. DMA_NUM_BUFFS - 1

\* The page offsets that kyouko3_mmap tells apart: the control registers, the
\* frame buffer (0x80000000), and buffer i at i + 1.
Control == 0
Ram == DMA_NUM_BUFFS + 1
Regions == {Control, Ram} \cup {b + 1 : b \in Buffers}

-----------------------------------------------------------------------------
\* Faulty variants of the operators below, for the mutation runs.
KeepsMappings == bound
NeverUnbinds == FALSE
KeepsMsi == held
SkipsFirst(i) == i > 0
StaysMapped == dma_mapped

\* bind_dma's check.
MayBind == ~dma_mapped

\* The mappings by BIND_DMA that are left by on_time_unbind_dma's vm_munmap of
\* each u_base.
BoundAfterUnmap == {}

\* kyouko3_release has DMA to unbind.
MustUnbind == dma_mapped

\* What is held after request_irq has failed.
HeldAfterFailure == held \ {"msi"}

\* late_unbind_dma's loop frees buffer i.
Freed(i) == TRUE

\* dma_mapped at the end of late_unbind_dma.
MappedAfterUnbind == FALSE

Init ==
  /\ enabled = FALSE /\ stale = FALSE
  /\ fd = FALSE /\ vmas = {} /\ bound = {}
  /\ pc = "closed"
  /\ closing = FALSE /\ graphics_on = FALSE /\ dma_mapped = FALSE
  /\ held = {} /\ live = [b \in Buffers |-> 0] /\ next = 0

-----------------------------------------------------------------------------
\* kyouko3_init registers the driver and kyouko3_probe enables the card;
\* kyouko3_exit undoes both.  An open file pins the module.

\* A failing pci_register_driver makes insmod fail, with the character device
\* left registered.
kyouko3_init ==
  /\ ~enabled
  /\ \/ enabled' = TRUE /\ UNCHANGED stale
     \/ stale' = TRUE /\ UNCHANGED enabled
  /\ UNCHANGED <<fd, vmas, bound, pc, flags, held, buffers>>

kyouko3_exit ==
  /\ enabled /\ pc = "closed" /\ enabled' = FALSE
  /\ UNCHANGED <<stale, fd, vmas, bound, pc, flags, held, buffers>>

kyouko3_open ==
  /\ enabled /\ pc = "closed"
  /\ fd' = TRUE /\ pc' = "user"
  /\ held' = held \cup OpenResources
  /\ graphics_on' = FALSE /\ dma_mapped' = FALSE
  /\ UNCHANGED <<enabled, stale, vmas, bound, closing, buffers>>

\* kyouko3_mmap for the process.  One that is not root gets a mapping with
\* nothing behind it; a buffer's page maps wherever p_base says the buffer is,
\* or was.
mmap ==
  /\ pc = "user" /\ fd
  /\ \E r \in Regions \ vmas : vmas' = vmas \cup {r}
  /\ UNCHANGED <<enabled, stale, fd, bound, pc, flags, held, buffers>>

munmap ==
  /\ pc = "user"
  /\ \/ UNCHANGED bound /\ \E r \in vmas : vmas' = vmas \ {r}
     \/ UNCHANGED vmas /\ \E b \in bound : bound' = bound \ {b}
  /\ UNCHANGED <<enabled, stale, fd, pc, flags, held, buffers>>

\* VMODE.
vmode ==
  /\ pc = "user" /\ fd
  /\ graphics_on' \in BOOLEAN
  /\ UNCHANGED <<file, pc, closing, dma_mapped, held, buffers>>

-----------------------------------------------------------------------------
\* BIND_DMA, step by step: pci_enable_msi ...
bind_dma ==
  /\ pc = "user" /\ fd /\ MayBind
  /\ \/ held' = held \cup {"msi"} /\ pc' = "bind_irq"
     \/ UNCHANGED <<held, pc>>                    \* it fails
  /\ UNCHANGED <<file, flags, buffers>>

\* ... request_irq ...
bind_dma_irq ==
  /\ pc = "bind_irq"
  /\ \/ held' = held \cup {"irq"} /\ pc' = "bind_buffers"
     \/ held' = HeldAfterFailure /\ pc' = "user"  \* it fails
  /\ next' = 0
  /\ UNCHANGED <<file, flags, live>>

\* ... a turn of the loop: the allocation, and the vm_mmap that comes back to
\* kyouko3_mmap, or fails unnoticed ...
bind_dma_buffer ==
  /\ pc = "bind_buffers" /\ next < DMA_NUM_BUFFS
  /\ live[next] < MaxLive
  /\ live' = [live EXCEPT ![next] = @ + 1]
  /\ bound' \in {bound \cup {next}, bound}
  /\ next' = next + 1
  /\ UNCHANGED <<enabled, stale, fd, vmas, pc, flags, held>>

\* ... and the end.
bind_dma_enable ==
  /\ pc = "bind_buffers" /\ next = DMA_NUM_BUFFS
  /\ dma_mapped' = TRUE
  /\ held' = held \cup {"interrupts"}
  /\ pc' = "user"
  /\ UNCHANGED <<file, closing, graphics_on, buffers>>

\* UNBIND_DMA; what the process has mapped itself stays.  The wait of
\* late_unbind_dma is in Kyouko3Dma.
on_time_unbind_dma ==
  /\ pc = "user" /\ fd /\ dma_mapped
  /\ bound' = BoundAfterUnmap
  /\ pc' = "late_free"
  /\ UNCHANGED <<enabled, stale, fd, vmas, flags, held, buffers>>

late_unbind_dma_free ==
  /\ pc = "late_free"
  /\ live' = [b \in Buffers |-> IF Freed(b) THEN live[b] - 1 ELSE live[b]]
  /\ pc' = "late_disable"
  /\ UNCHANGED <<file, flags, held, next>>

late_unbind_dma_disable ==
  /\ pc = "late_disable"
  /\ held' = held \ {"interrupts"}
  /\ pc' = "late_irq"
  /\ UNCHANGED <<file, flags, buffers>>

late_unbind_dma_irq ==
  /\ pc = "late_irq"
  /\ held' = held \ {"irq", "msi"}
  /\ dma_mapped' = MappedAfterUnbind
  /\ pc' = IF closing THEN "graphics" ELSE "user"
  /\ UNCHANGED <<file, closing, graphics_on, buffers>>

-----------------------------------------------------------------------------
\* close(fd), and the exit of the process.

close ==
  /\ pc = "user" /\ fd
  /\ fd' = FALSE
  /\ UNCHANGED <<enabled, stale, vmas, bound, pc, flags, held, buffers>>

exit ==
  /\ pc = "user" /\ (fd \/ vmas # {} \/ bound # {})
  /\ fd' = FALSE /\ vmas' = {} /\ bound' = {}
  /\ UNCHANGED <<enabled, stale, pc, flags, held, buffers>>

\* The last reference is gone.
kyouko3_release ==
  /\ pc = "user" /\ ~fd /\ vmas = {} /\ bound = {}
  /\ closing' = TRUE
  /\ pc' = IF MustUnbind THEN "late_free" ELSE "graphics"
  /\ UNCHANGED <<file, graphics_on, dma_mapped, held, buffers>>

\* graphics_off if graphics is on, then the ring and the register mappings go.
kyouko3_release_graphics ==
  /\ pc = "graphics"
  /\ graphics_on' = FALSE
  /\ pc' = "ring"
  /\ UNCHANGED <<file, closing, dma_mapped, held, buffers>>

kyouko3_release_free ==
  /\ pc = "ring"
  /\ held' = held \ OpenResources
  /\ closing' = FALSE /\ pc' = "closed"
  /\ UNCHANGED <<file, graphics_on, dma_mapped, buffers>>

Kernel ==
  \/ bind_dma_irq \/ bind_dma_buffer \/ bind_dma_enable
  \/ late_unbind_dma_free \/ late_unbind_dma_disable \/ late_unbind_dma_irq
  \/ kyouko3_release \/ kyouko3_release_graphics \/ kyouko3_release_free

Next ==
  \/ kyouko3_init \/ kyouko3_exit \/ kyouko3_open
  \/ mmap \/ munmap \/ vmode \/ bind_dma \/ on_time_unbind_dma \/ close \/ exit
  \/ Kernel

Spec == Init /\ [][Next]_vars

-----------------------------------------------------------------------------
(* Properties. *)

TypeOK ==
  /\ {enabled, stale, fd, closing, graphics_on, dma_mapped} \subseteq BOOLEAN
  /\ vmas \subseteq Regions /\ bound \subseteq Buffers
  /\ pc \in {"closed", "user", "bind_irq", "bind_buffers", "late_free", "late_disable",
             "late_irq", "graphics", "ring"}
  /\ held \subseteq Resources
  /\ live \in [Buffers -> 0 .. MaxLive] /\ next \in 0 .. DMA_NUM_BUFFS

\* Whatever was bound, rebound, mapped or failed: once the device is closed
\* the driver holds nothing, and each buffer was freed as often as allocated.
Balanced == pc = "closed" => held = {} /\ \A b \in Buffers : live[b] = 0

\* A BIND_DMA that failed, and an UNBIND_DMA, leave nothing of it behind.
AllOrNothing ==
  pc = "user" =>
    /\ held = IF dma_mapped THEN Resources ELSE OpenResources
    /\ \A b \in Buffers : live[b] = IF dma_mapped THEN 1 ELSE 0

\* The card interrupts only while dma_intr is installed, and dma_intr is
\* installed only while the registers and the ring it writes to are there.
HandlerServed ==
  /\ "interrupts" \in held => "irq" \in held
  /\ "irq" \in held => {"control_base", "fifo"} \subseteq held /\ enabled

\* No mapping that BIND_DMA made outlives the buffer it maps.
MappingsAlive == \A b \in bound : live[b] > 0
=============================================================================
