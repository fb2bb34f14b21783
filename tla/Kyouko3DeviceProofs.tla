------------------------- MODULE Kyouko3DeviceProofs -------------------------
(***************************************************************************)
(* Proofs about Kyouko3Device, for every number of buffers: what the       *)
(* driver holds at each point of its calls, and from it that every path    *)
(* through bind_dma, the unbinds and release gives back what it took.      *)
(***************************************************************************)
EXTENDS Kyouko3Device, TLAPS

\* Every buffer below n is allocated once and the others are not, and BIND_DMA
\* has mapped none that is not allocated.
Allocated(n) == \A b \in Buffers : live[b] = IF b < n THEN 1 ELSE 0
MappedBelow(n) == \A b \in bound : b < n

\* What the driver holds, besides the buffers, at each point.
HeldInv ==
  held = CASE pc = "closed" -> {}
           [] pc = "user" -> IF dma_mapped THEN Resources ELSE OpenResources
           [] pc = "bind_irq" -> OpenResources \cup {"msi"}
           [] pc \in {"bind_buffers", "late_irq"} -> Resources \ {"interrupts"}
           [] pc \in {"late_free", "late_disable"} -> Resources
           [] pc \in {"graphics", "ring"} -> OpenResources

\* The buffers it holds, and the mappings of them.
BuffersInv ==
  /\ pc = "user" => IF dma_mapped THEN Allocated(DMA_NUM_BUFFS) ELSE Allocated(0) /\ MappedBelow(0)
  /\ pc = "bind_buffers" => Allocated(next) /\ MappedBelow(next)
  /\ pc = "late_free" => Allocated(DMA_NUM_BUFFS) /\ MappedBelow(0)
  /\ pc \notin {"user", "bind_buffers", "late_free"} => Allocated(0) /\ MappedBelow(0)

\* The flag that bind_dma and the unbinds test.
FlagInv ==
  /\ pc \in {"late_free", "late_disable", "late_irq"} => dma_mapped
  /\ pc \in {"closed", "bind_irq", "bind_buffers", "graphics", "ring"} => ~dma_mapped

\* A device in use is enabled, and release runs when nothing refers to it.
FileInv ==
  /\ pc # "closed" => enabled
  /\ closing \/ pc = "closed" => ~fd /\ vmas = {} /\ bound = {}
  /\ pc \in {"graphics", "ring"} => closing
  /\ pc \in {"closed", "user", "bind_irq", "bind_buffers"} => ~closing

IInv == TypeOK /\ HeldInv /\ BuffersInv /\ FlagInv /\ FileInv

-----------------------------------------------------------------------------
LEMMA BufferBounds ==
  ASSUME NEW b \in Buffers
  PROVE  b < DMA_NUM_BUFFS /\ ~(b < 0)
BY DeviceAssumption DEF DeviceAssumption, Buffers

LEMMA IInvInit == Init => IInv
<1> SUFFICES ASSUME Init PROVE IInv
  OBVIOUS
<1> USE DeviceAssumption DEF DeviceAssumption, Init
<1>1. TypeOK
  <2>1. live \in [Buffers -> 0 .. MaxLive] /\ next \in 0 .. DMA_NUM_BUFFS
    OBVIOUS
  <2> QED BY <2>1 DEF TypeOK
<1>2. BuffersInv
  BY DEF BuffersInv, Allocated, MappedBelow, Buffers
<1> QED BY <1>1, <1>2 DEF IInv, HeldInv, FlagInv, FileInv

-----------------------------------------------------------------------------
\* insmod and rmmod, open, and the process's own mappings and close.
LEMMA FileStep ==
  ASSUME IInv,
         \/ kyouko3_init \/ kyouko3_exit \/ kyouko3_open
         \/ mmap \/ munmap \/ vmode \/ close \/ exit
  PROVE  IInv'
<1> USE DeviceAssumption DEF DeviceAssumption, IInv, TypeOK, HeldInv, FlagInv, FileInv, flags, buffers, file
<1>1. CASE kyouko3_init
  BY <1>1 DEF kyouko3_init, BuffersInv, Allocated, MappedBelow
<1>2. CASE kyouko3_exit
  BY <1>2 DEF kyouko3_exit, BuffersInv, Allocated, MappedBelow
<1>3. CASE kyouko3_open
  <2> USE <1>3 DEF kyouko3_open
  <2>1. BuffersInv'
    BY DEF BuffersInv, Allocated, MappedBelow
  <2> QED BY <2>1 DEF Resources
<1>4. CASE mmap
  <2> USE <1>4 DEF mmap
  <2>1. PICK r \in Regions : vmas' = vmas \cup {r}
    OBVIOUS
  <2>2. BuffersInv'
    BY <2>1, BufferBounds DEF BuffersInv, Allocated, MappedBelow
  <2> QED BY <2>1, <2>2
<1>5. CASE munmap
  <2> USE <1>5 DEF munmap
  <2>1. BuffersInv'
    BY DEF BuffersInv, Allocated, MappedBelow
  <2> QED BY <2>1
<1>6. CASE vmode
  <2> USE <1>6 DEF vmode
  <2>1. BuffersInv'
    BY DEF BuffersInv, Allocated, MappedBelow
  <2> QED BY <2>1
<1>7. CASE close
  <2> USE <1>7 DEF close
  <2>1. BuffersInv'
    BY DEF BuffersInv, Allocated, MappedBelow
  <2> QED BY <2>1
<1>8. CASE exit
  <2> USE <1>8 DEF exit
  <2>1. BuffersInv'
    BY DEF BuffersInv, Allocated, MappedBelow
  <2> QED BY <2>1
<1> QED BY <1>1, <1>2, <1>3, <1>4, <1>5, <1>6, <1>7, <1>8

\* BIND_DMA, with what may fail in it.
LEMMA BindStep ==
  ASSUME IInv, bind_dma \/ bind_dma_irq \/ bind_dma_buffer \/ bind_dma_enable
  PROVE  IInv'
<1> USE DeviceAssumption DEF DeviceAssumption, IInv, TypeOK, HeldInv, FlagInv, FileInv, flags, buffers, file
<1>1. CASE bind_dma
  <2> USE <1>1 DEF bind_dma, MayBind
  <2>1. BuffersInv'
    BY DEF BuffersInv, Allocated, MappedBelow
  <2> QED BY <2>1 DEF Resources
<1>2. CASE bind_dma_irq
  <2> USE <1>2 DEF bind_dma_irq, HeldAfterFailure
  <2>1. BuffersInv'
    BY DEF BuffersInv, Allocated, MappedBelow
  <2> QED BY <2>1 DEF Resources, OpenResources
<1>3. CASE bind_dma_buffer
  <2> USE <1>3 DEF bind_dma_buffer
  <2>1. next \in Buffers /\ next' = next + 1
    BY DEF Buffers
  <2>2. live' \in [Buffers -> 0 .. MaxLive]
    BY <2>1
  <2>3. bound' \subseteq bound \cup {next} /\ bound' \subseteq Buffers
    BY <2>1
  <2>4. Allocated(next)'
    BY <2>1 DEF BuffersInv, Allocated, Buffers
  <2>5. MappedBelow(next)'
    BY <2>1, <2>3, BufferBounds DEF BuffersInv, MappedBelow, Buffers
  <2>6. BuffersInv'
    BY <2>4, <2>5 DEF BuffersInv
  <2> QED BY <2>1, <2>2, <2>3, <2>6
<1>4. CASE bind_dma_enable
  <2> USE <1>4 DEF bind_dma_enable
  <2>1. BuffersInv'
    BY DEF BuffersInv, Allocated, MappedBelow
  <2> QED BY <2>1 DEF Resources, OpenResources
<1> QED BY <1>1, <1>2, <1>3, <1>4

\* UNBIND_DMA, and what it shares with release.
LEMMA UnbindStep ==
  ASSUME IInv,
         on_time_unbind_dma \/ late_unbind_dma_free \/ late_unbind_dma_disable \/ late_unbind_dma_irq
  PROVE  IInv'
<1> USE DeviceAssumption DEF DeviceAssumption, IInv, TypeOK, HeldInv, FlagInv, FileInv, flags, buffers, file
<1>1. CASE on_time_unbind_dma
  <2> USE <1>1 DEF on_time_unbind_dma, BoundAfterUnmap
  <2>1. bound' = {}
    OBVIOUS
  <2>2. BuffersInv'
    BY <2>1 DEF BuffersInv, Allocated, MappedBelow
  <2> QED BY <2>2
<1>2. CASE late_unbind_dma_free
  <2> USE <1>2 DEF late_unbind_dma_free, Freed
  <2>1. \A b \in Buffers : live[b] = 1 /\ live'[b] = 0
    BY BufferBounds DEF BuffersInv, Allocated
  <2>2. live' \in [Buffers -> 0 .. MaxLive]
    BY <2>1
  <2>3. Allocated(0)'
    BY <2>1, BufferBounds DEF Allocated
  <2>4. BuffersInv'
    BY <2>3 DEF BuffersInv, MappedBelow
  <2> QED BY <2>2, <2>4
<1>3. CASE late_unbind_dma_disable
  <2> USE <1>3 DEF late_unbind_dma_disable
  <2>1. BuffersInv'
    BY DEF BuffersInv, Allocated, MappedBelow
  <2> QED BY <2>1
<1>4. CASE late_unbind_dma_irq
  <2> USE <1>4 DEF late_unbind_dma_irq, MappedAfterUnbind
  <2>1. BuffersInv'
    BY DEF BuffersInv, Allocated, MappedBelow
  <2> QED BY <2>1 DEF Resources, OpenResources
<1> QED BY <1>1, <1>2, <1>3, <1>4

\* The release of the device.
LEMMA ReleaseStep ==
  ASSUME IInv, kyouko3_release \/ kyouko3_release_graphics \/ kyouko3_release_free
  PROVE  IInv'
<1> USE DeviceAssumption DEF DeviceAssumption, IInv, TypeOK, HeldInv, FlagInv, FileInv, flags, buffers, file
<1>1. CASE kyouko3_release
  <2> USE <1>1 DEF kyouko3_release, MustUnbind
  <2>1. BuffersInv'
    BY DEF BuffersInv, Allocated, MappedBelow
  <2> QED BY <2>1
<1>2. CASE kyouko3_release_graphics
  <2> USE <1>2 DEF kyouko3_release_graphics
  <2>1. BuffersInv'
    BY DEF BuffersInv, Allocated, MappedBelow
  <2> QED BY <2>1
<1>3. CASE kyouko3_release_free
  <2> USE <1>3 DEF kyouko3_release_free
  <2>1. BuffersInv'
    BY DEF BuffersInv, Allocated, MappedBelow
  <2> QED BY <2>1
<1> QED BY <1>1, <1>2, <1>3

LEMMA IInvStep ==
  ASSUME IInv, [Next]_vars
  PROVE  IInv'
<1>1. CASE UNCHANGED vars
  BY <1>1 DEF vars, file, flags, buffers, IInv, TypeOK, HeldInv, BuffersInv, Allocated,
              MappedBelow, FlagInv, FileInv
<1> QED BY <1>1, FileStep, BindStep, UnbindStep, ReleaseStep DEF Next, Kernel

-----------------------------------------------------------------------------
(* The theorems. *)

LEMMA Inductive == Spec => []IInv
BY IInvInit, IInvStep, PTL DEF Spec

\* No buffer is freed more often than it was allocated, and bind_dma's loop
\* stays inside the ring.
THEOREM TypeCorrect == Spec => []TypeOK
<1>1. IInv => TypeOK
  BY DEF IInv
<1> QED BY <1>1, Inductive, PTL

\* Once the device is closed the driver holds nothing of what open, bind_dma
\* and their retries acquired.
THEOREM EverythingReturned == Spec => []Balanced
<1>1. IInv => Balanced
  BY BufferBounds DEF IInv, HeldInv, BuffersInv, Allocated, Balanced
<1> QED BY <1>1, Inductive, PTL

\* A BIND_DMA that failed half-way has undone what it did, and one that
\* succeeded has allocated each buffer once.
THEOREM BindAllOrNothing == Spec => []AllOrNothing
<1>1. IInv => AllOrNothing
  BY BufferBounds DEF IInv, HeldInv, BuffersInv, Allocated, AllOrNothing
<1> QED BY <1>1, Inductive, PTL

\* The card interrupts only while dma_intr and what it writes to are there.
THEOREM InterruptsServed == Spec => []HandlerServed
<1>1. IInv => HandlerServed
  BY DEF IInv, TypeOK, HeldInv, FileInv, HandlerServed, Resources, OpenResources
<1> QED BY <1>1, Inductive, PTL

\* No mapping that BIND_DMA made is there once its buffer is freed, whatever
\* the process maps and unmaps besides.
THEOREM NoStaleMapping == Spec => []MappingsAlive
<1>1. IInv => MappingsAlive
  BY BufferBounds DEF IInv, TypeOK, BuffersInv, Allocated, MappedBelow, MappingsAlive
<1> QED BY <1>1, Inductive, PTL
=============================================================================
