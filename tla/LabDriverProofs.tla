--------------------------- MODULE LabDriverProofs ---------------------------
(***************************************************************************)
(* Proofs about LabDriver, for each of the five drivers, every ring size   *)
(* and every client that queues less than a lap between open and release.  *)
(* Such a client never makes head wrap, so that head is the number of      *)
(* commands queued since the device was opened and the card's registers    *)
(* follow it in order.                                                     *)
(***************************************************************************)
EXTENDS LabDriver, SequenceTheorems, TLAPS

\* What open of the loaded driver acquires.
Acquired == IF HasFifo THEN Bars \cup {"fifo"} ELSE IF HasCard THEN Bars ELSE {}

\* The device: in use it holds everything, closed nothing, and it is released
\* only when nothing refers to it any more.
DeviceInv ==
  /\ pc # "closed" => loaded
  /\ enabled \/ registered => loaded
  /\ held = IF pc = "closed" THEN {} ELSE Acquired
  /\ Closed \/ call = "release" => ~fd /\ vmas = {}
  /\ pc \notin {"closed", "user"} => HasFifo

\* The calls: what on_GraphicsMode has still to write fits the client's bound.
CallInv ==
  /\ call = "release" => pc \in {"head", "poll"}
  /\ pc = "write" =>
       call = "on" /\ todo >= 1 /\ used + todo <= MaxPerOpen /\ issued + todo <= MaxCommands

\* The ring: the cached tail, the card and what was announced to it follow head
\* in this order, and the card moves only during a flush.
RingInv ==
  /\ head = used
  /\ tail <= FIFOTAIL /\ FIFOTAIL <= FIFOHEAD /\ FIFOHEAD <= head
  /\ pc = "poll" => FIFOHEAD = head
  /\ pc # "poll" => FIFOTAIL = FIFOHEAD
  /\ ~HasFifo => head = 0

\* Except in lab4, whatever was queued is executed or still in the ring, and
\* closing leaves nothing there.
CountInv ==
  lab # "lab4" =>
    /\ Len(executed) + (head - FIFOTAIL) = issued
    /\ Closed => head = FIFOTAIL

IInv == TypeOK /\ DeviceInv /\ CallInv /\ RingInv /\ CountInv

-----------------------------------------------------------------------------
\* Short of a lap an advance is an increment.
LEMMA AdvanceIncrements ==
  ASSUME NEW i \in Nat, i < MaxPerOpen
  PROVE  Advance(i) = i + 1 /\ i + 1 \in Entries
BY LabAssumption DEF LabAssumption, Advance, Entries

LEMMA IInvInit == Init => IInv
<1> SUFFICES ASSUME Init PROVE IInv
  OBVIOUS
<1> USE LabAssumption DEF LabAssumption, Init
<1>1. TypeOK
  <2>1. executed \in Seq(0 .. MaxCommands) /\ Len(executed) = 0
    BY EmptySeq
  <2>2. ring \in [Entries -> 0 .. MaxCommands] /\ 0 \in Entries
    BY DEF Entries, Garbage
  <2>3. tail \in Entries /\ head \in Entries /\ FIFOHEAD \in Entries /\ FIFOTAIL \in Entries
    BY <2>2
  <2>4. issued \in 0 .. MaxCommands /\ used \in 0 .. MaxPerOpen /\ todo \in 0 .. OnCommands
    OBVIOUS
  <2> QED BY ONLY Init, <2>1, <2>2, <2>3, <2>4 DEF Init, TypeOK
<1>2. Len(executed) = 0
  BY EmptySeq
<1> QED BY <1>1, <1>2 DEF IInv, DeviceInv, CallInv, RingInv, CountInv, Closed

-----------------------------------------------------------------------------
(* IInv is inductive. *)

\* insmod, rmmod and the process's mappings leave the FIFO alone; only an open
\* device is mapped.
LEMMA DeviceStutter ==
  ASSUME IInv,
         UNCHANGED <<lab, held, fifo, process, FIFOHEAD, card>>,
         {loaded', registered', stale', enabled', fd'} \subseteq BOOLEAN,
         enabled' \/ registered' => loaded',
         pc # "closed" => loaded',
         vmas' \subseteq Bars,
         UNCHANGED <<fd, vmas>> \/ pc = "user"
  PROVE  IInv'
<1> USE DEF IInv, fifo, process, card
<1>1. TypeOK'
  BY DEF TypeOK
<1>2. DeviceInv'
  BY DEF DeviceInv, CallInv, Closed, Acquired, HasFifo, HasCard
<1>3. CallInv' /\ RingInv' /\ CountInv'
  BY DEF CallInv, RingInv, CountInv, Closed, HasFifo
<1> QED BY <1>1, <1>2, <1>3

LEMMA DeviceStep ==
  ASSUME IInv,
         \/ my_init_function \/ kyouko3_probe \/ my_exit_function
         \/ mmap \/ munmap \/ close
  PROVE  IInv'
<1> USE DEF IInv
<1>1. CASE my_init_function
  <2>1. /\ UNCHANGED <<lab, held, fifo, process, FIFOHEAD, card>>
        /\ {loaded', registered', stale', enabled', fd'} \subseteq BOOLEAN
        /\ enabled' \/ registered' => loaded'
        /\ pc # "closed" => loaded'
        /\ vmas' \subseteq Bars
        /\ UNCHANGED <<fd, vmas>>
    BY <1>1 DEF my_init_function, TypeOK, DeviceInv
  <2> QED BY <2>1, DeviceStutter
<1>2. CASE kyouko3_probe
  <2>1. /\ UNCHANGED <<lab, held, fifo, process, FIFOHEAD, card>>
        /\ {loaded', registered', stale', enabled', fd'} \subseteq BOOLEAN
        /\ enabled' \/ registered' => loaded'
        /\ pc # "closed" => loaded'
        /\ vmas' \subseteq Bars
        /\ UNCHANGED <<fd, vmas>>
    BY <1>2 DEF kyouko3_probe, TypeOK, DeviceInv
  <2> QED BY <2>1, DeviceStutter
<1>3. CASE my_exit_function
  <2>1. /\ UNCHANGED <<lab, held, fifo, process, FIFOHEAD, card>>
        /\ {loaded', registered', stale', enabled', fd'} \subseteq BOOLEAN
        /\ enabled' \/ registered' => loaded'
        /\ pc # "closed" => loaded'
        /\ vmas' \subseteq Bars
        /\ UNCHANGED <<fd, vmas>>
    BY <1>3 DEF my_exit_function, TypeOK, DeviceInv
  <2> QED BY <2>1, DeviceStutter
<1>4. CASE mmap
  <2>1. /\ UNCHANGED <<lab, held, fifo, process, FIFOHEAD, card>>
        /\ {loaded', registered', stale', enabled', fd'} \subseteq BOOLEAN
        /\ enabled' \/ registered' => loaded'
        /\ pc # "closed" => loaded'
        /\ vmas' \subseteq Bars
        /\ pc = "user"
    BY <1>4 DEF mmap, kyuoko3_mmap, kyouko3fops_mmap, Bars, TypeOK, DeviceInv
  <2> QED BY <2>1, DeviceStutter
<1>5. CASE munmap
  <2>1. /\ UNCHANGED <<lab, held, fifo, process, FIFOHEAD, card>>
        /\ {loaded', registered', stale', enabled', fd'} \subseteq BOOLEAN
        /\ enabled' \/ registered' => loaded'
        /\ pc # "closed" => loaded'
        /\ vmas' \subseteq Bars
        /\ pc = "user"
    BY <1>5 DEF munmap, TypeOK, DeviceInv
  <2> QED BY <2>1, DeviceStutter
<1>6. CASE close
  <2>1. /\ UNCHANGED <<lab, held, fifo, process, FIFOHEAD, card>>
        /\ {loaded', registered', stale', enabled', fd'} \subseteq BOOLEAN
        /\ enabled' \/ registered' => loaded'
        /\ pc # "closed" => loaded'
        /\ vmas' \subseteq Bars
        /\ pc = "user"
    BY <1>6 DEF close, TypeOK, DeviceInv
  <2> QED BY <2>1, DeviceStutter
<1> QED BY <1>1, <1>2, <1>3, <1>4, <1>5, <1>6

\* The two opens.
LEMMA OpenStep ==
  ASSUME IInv, kyouko3_open \/ kyouko3fops_open
  PROVE  IInv'
<1> USE LabAssumption DEF LabAssumption, IInv, fifo, card
<1>1. CASE kyouko3_open
  BY <1>1 DEF kyouko3_open, TypeOK, DeviceInv, CallInv, RingInv, CountInv, Closed, Acquired, HasFifo, HasCard
<1>2. CASE kyouko3fops_open
  <2> USE <1>2 DEF kyouko3fops_open
  <2>1. ring' \in [Entries -> 0 .. MaxCommands] /\ 0 \in Entries
    BY DEF Entries, Garbage
  <2>2. TypeOK'
    <3>1. UNCHANGED <<lab, loaded, registered, stale, enabled, vmas, call, todo, issued, executed>>
          /\ head' = 0 /\ tail' = 0 /\ FIFOHEAD' = 0 /\ FIFOTAIL' = 0
          /\ bGraphics_on' = FALSE /\ fd' = TRUE /\ pc' = "user" /\ used' = 0
          /\ held' = Bars \cup {"fifo"}
      OBVIOUS
    <3>2. 0 \in 0 .. MaxPerOpen
      OBVIOUS
    <3> QED BY ONLY IInv, <2>1, <3>1, <3>2 DEF IInv, TypeOK
  <2>3. /\ pc = "closed" /\ pc' = "user" /\ HasFifo /\ enabled
        /\ held' = Bars \cup {"fifo"} /\ UNCHANGED <<lab, loaded, call>>
    OBVIOUS
  <2>4. DeviceInv' /\ CallInv'
    <3>1. loaded
      BY <2>3 DEF DeviceInv
    <3> QED BY ONLY <2>3, <3>1, DeviceInv, CallInv DEF DeviceInv, CallInv, Closed, Acquired, HasFifo
  <2>5. RingInv' /\ CountInv'
    BY DEF TypeOK, RingInv, CountInv, Closed, HasFifo
  <2> QED BY <2>2, <2>4, <2>5
<1> QED BY <1>1, <1>2

\* What every FIFO_WRITE does while the client has room.
LEMMA WriteStep ==
  ASSUME TypeOK, RingInv, NEW c \in 0 .. MaxCommands, FIFO_WRITE(c),
         used < MaxPerOpen, issued < MaxCommands
  PROVE  /\ ring' \in [Entries -> 0 .. MaxCommands]
         /\ head' = head + 1 /\ head' \in Entries
         /\ used' = used + 1 /\ used' \in 0 .. MaxPerOpen
         /\ issued' = issued + 1 /\ issued' \in 0 .. MaxCommands
<1>1. /\ head \in Nat /\ head \in Entries /\ head = used /\ used \in Nat /\ issued \in Nat
      /\ MaxPerOpen \in Nat /\ MaxCommands \in Nat
      /\ ring \in [Entries -> 0 .. MaxCommands]
  BY LabAssumption DEF LabAssumption, TypeOK, RingInv, Entries
<1>2. Advance(head) = head + 1 /\ head + 1 \in Entries
  BY <1>1, AdvanceIncrements
<1>3. ring' \in [Entries -> 0 .. MaxCommands]
  BY <1>1 DEF FIFO_WRITE
<1>4. head' = head + 1 /\ used' = used + 1 /\ issued' = issued + 1
  BY <1>2 DEF FIFO_WRITE
<1>5. used + 1 \in 0 .. MaxPerOpen /\ issued + 1 \in 0 .. MaxCommands
  BY <1>1
<1> QED BY <1>2, <1>3, <1>4, <1>5

\* The ioctls.
LEMMA IoctlStep ==
  ASSUME IInv, fifo_queue \/ ioctl_flush \/ on_GraphicsMode \/ fifo_vmode_off
  PROVE  IInv'
<1> USE LabAssumption DEF LabAssumption, IInv, device, fifo, card, Calls, Room
<1>1. CASE fifo_queue
  <2> USE <1>1 DEF fifo_queue
  <2>1. PICK c \in {issued + 1, Garbage} : FIFO_WRITE(c)
    OBVIOUS
  <2>2. used < MaxPerOpen /\ issued < MaxCommands /\ c \in 0 .. MaxCommands
    BY DEF TypeOK, Garbage
  <2>3. /\ ring' \in [Entries -> 0 .. MaxCommands]
        /\ head' = head + 1 /\ head' \in Entries
        /\ used' = used + 1 /\ used' \in 0 .. MaxPerOpen
        /\ issued' = issued + 1 /\ issued' \in 0 .. MaxCommands
    BY <2>1, <2>2, WriteStep
  <2>4. TypeOK'
    BY <2>3 DEF TypeOK
  <2>5. DeviceInv' /\ CallInv'
    BY DEF DeviceInv, CallInv, Closed, Acquired, HasFifo, HasCard
  <2>6. RingInv' /\ CountInv'
    BY <2>3 DEF TypeOK, RingInv, CountInv, Closed, HasFifo, Entries
  <2> QED BY <2>4, <2>5, <2>6
<1>2. CASE ioctl_flush
  BY <1>2 DEF ioctl_flush, TypeOK, DeviceInv, CallInv, RingInv, CountInv, Closed, Acquired, HasFifo, HasCard
<1>3. CASE on_GraphicsMode
  BY <1>3 DEF on_GraphicsMode, TypeOK, DeviceInv, CallInv, RingInv, CountInv, Closed, Acquired, HasFifo, HasCard
<1>4. CASE fifo_vmode_off
  BY <1>4 DEF fifo_vmode_off, off_GraphicsMode, OffFlushes, After, TypeOK, DeviceInv, CallInv, RingInv, CountInv, Closed, Acquired, HasFifo, HasCard
<1> QED BY <1>1, <1>2, <1>3, <1>4

\* The rest of on_GraphicsMode, and fifo_flush.
LEMMA FlushStep ==
  ASSUME IInv,
         on_GraphicsMode_write \/ fifo_flush_head \/ fifo_flush_poll \/ fifo_flush_end
  PROVE  IInv'
<1> USE LabAssumption DEF LabAssumption, IInv, device, fifo, card
<1>1. CASE on_GraphicsMode_write
  <2> USE <1>1 DEF on_GraphicsMode_write
  <2>1. used < MaxPerOpen /\ issued < MaxCommands /\ issued + 1 \in 0 .. MaxCommands
    BY DEF TypeOK, CallInv
  <2>2. FIFO_WRITE(issued + 1)
    OBVIOUS
  <2>3. /\ ring' \in [Entries -> 0 .. MaxCommands]
        /\ head' = head + 1 /\ head' \in Entries
        /\ used' = used + 1 /\ used' \in 0 .. MaxPerOpen
        /\ issued' = issued + 1 /\ issued' \in 0 .. MaxCommands
    BY <2>1, <2>2, WriteStep
  <2>4. TypeOK'
    <3>1. todo' \in 0 .. OnCommands /\ pc' \in {"head", "write"}
      BY DEF TypeOK, CallInv
    <3>2. UNCHANGED <<lab, loaded, registered, stale, enabled, fd, held, vmas, tail, bGraphics_on, call,
                      FIFOHEAD, FIFOTAIL, executed>>
      OBVIOUS
    <3> QED BY ONLY TypeOK, <2>3, <3>1, <3>2 DEF TypeOK
  <2>5. DeviceInv'
    BY DEF DeviceInv, CallInv, Closed, Acquired, HasFifo, HasCard
  <2>6. CallInv'
    BY <2>3 DEF CallInv, TypeOK
  <2>7. RingInv' /\ CountInv'
    <3>1. Len(executed) \in Nat
      BY LenProperties DEF TypeOK
    <3>2. UNCHANGED <<lab, tail, FIFOHEAD, FIFOTAIL, executed>> /\ pc = "write"
          /\ pc' \in {"head", "write"}
      OBVIOUS
    <3> QED BY ONLY IInv, <2>3, <3>1, <3>2 DEF IInv, TypeOK, DeviceInv, RingInv, CountInv, Closed, HasFifo, Entries
  <2> QED BY <2>4, <2>5, <2>6, <2>7
<1>2. CASE fifo_flush_head
  <2> USE <1>2 DEF fifo_flush_head, FlushHead
  <2>1. TypeOK'
    BY DEF TypeOK
  <2>2. DeviceInv' /\ CallInv'
    BY DEF DeviceInv, CallInv, Closed, Acquired, HasFifo, HasCard
  <2>3. RingInv' /\ CountInv'
    BY DEF TypeOK, RingInv, CountInv, Closed, HasFifo, Entries
  <2> QED BY <2>1, <2>2, <2>3
<1>3. CASE fifo_flush_poll
  <2> USE <1>3 DEF fifo_flush_poll, process
  <2>1. TypeOK'
    BY DEF TypeOK
  <2>2. DeviceInv' /\ CallInv'
    BY DEF DeviceInv, CallInv, Closed, Acquired, HasFifo, HasCard
  <2>3. RingInv' /\ CountInv'
    BY DEF TypeOK, RingInv, CountInv, Closed, HasFifo, Entries
  <2> QED BY <2>1, <2>2, <2>3
<1>4. CASE fifo_flush_end
  <2> USE <1>4 DEF fifo_flush_end, Drained, After
  <2>1. bGraphics_on' \in BOOLEAN
    BY DEF TypeOK
  <2>2. TypeOK'
    BY <2>1 DEF TypeOK
  <2>3. DeviceInv' /\ CallInv'
    BY DEF DeviceInv, CallInv, Closed, Acquired, HasFifo, HasCard
  <2>4. FIFOTAIL = head /\ FIFOHEAD = head
    BY DEF TypeOK, RingInv, Entries
  <2>5. RingInv' /\ CountInv'
    BY <2>4 DEF TypeOK, RingInv, CountInv, Closed, HasFifo, Entries
  <2> QED BY <2>2, <2>3, <2>5
<1> QED BY <1>1, <1>2, <1>3, <1>4

\* The releases: in lab4 what is in the ring is given up, in lab3 and 5lab it
\* is flushed first.
LEMMA ReleaseStep ==
  ASSUME IInv, kyouko3fops_release \/ kyouko3fops_release_free \/ kyouko3_release
  PROVE  IInv'
<1> USE LabAssumption DEF LabAssumption, IInv, fifo, card
<1>1. CASE kyouko3fops_release
  BY <1>1 DEF kyouko3fops_release, off_GraphicsMode, OffFlushes, After, HeldBeforeOff, TypeOK,
              DeviceInv, CallInv, RingInv, CountInv, Closed, Acquired, HasFifo, HasCard
<1>2. CASE kyouko3fops_release_free
  BY <1>2 DEF kyouko3fops_release_free, TypeOK,
              DeviceInv, CallInv, RingInv, CountInv, Closed, Acquired, HasFifo, HasCard
<1>3. CASE kyouko3_release
  BY <1>3 DEF kyouko3_release, TypeOK, Entries,
              DeviceInv, CallInv, RingInv, CountInv, Closed, Acquired, HasFifo, HasCard
<1> QED BY <1>1, <1>2, <1>3

\* The card.
LEMMA CardStep ==
  ASSUME IInv, card_execute
  PROVE  IInv'
<1> USE LabAssumption DEF LabAssumption, IInv, device, fifo, process, card_execute
<1>1. pc = "poll" /\ FIFOTAIL < head
  BY DEF TypeOK, RingInv, Entries
<1>2. FIFOTAIL' = FIFOTAIL + 1 /\ FIFOTAIL' \in Entries
  BY <1>1 DEF TypeOK, Entries
<1>3. executed' \in Seq(0 .. MaxCommands) /\ Len(executed') = Len(executed) + 1
      /\ Len(executed) \in Nat
  BY AppendProperties, LenProperties DEF TypeOK
<1>4. TypeOK'
  BY <1>2, <1>3 DEF TypeOK
<1>5. DeviceInv' /\ CallInv'
  BY DEF DeviceInv, CallInv, Closed, Acquired, HasFifo, HasCard
<1>6. RingInv' /\ CountInv'
  <2>1. head \in Nat /\ FIFOTAIL \in Nat /\ issued \in Nat /\ tail \in Nat
    BY DEF TypeOK, Entries
  <2>2. RingInv'
    BY <1>1, <1>2, <2>1 DEF RingInv, HasFifo
  <2>3. UNCHANGED <<lab, head, issued, pc>>
    OBVIOUS
  <2>4. CountInv'
    BY ONLY CountInv, <1>1, <1>2, <1>3, <2>1, <2>3 DEF CountInv, Closed
  <2> QED BY <2>2, <2>4
<1> QED BY <1>4, <1>5, <1>6

LEMMA IInvStep ==
  ASSUME IInv, [Next]_vars
  PROVE  IInv'
<1>1. CASE UNCHANGED vars
  BY <1>1 DEF vars, device, fifo, process, card, IInv, TypeOK, DeviceInv, CallInv, RingInv, CountInv,
              Closed, Acquired, HasFifo, HasCard
<1> QED BY <1>1, DeviceStep, OpenStep, IoctlStep, FlushStep, ReleaseStep, CardStep DEF Next, User, Kernel

-----------------------------------------------------------------------------
(* The theorems. *)

LEMMA Inductive == Spec => []IInv
BY IInvInit, IInvStep, PTL DEF Spec

\* A client that stays below a lap never takes head to FIFO_ENTRIES.
THEOREM TypeCorrect == Spec => []TypeOK
<1>1. IInv => TypeOK
  BY DEF IInv
<1> QED BY <1>1, Inductive, PTL

\* The ring is there while the card reads it, and the registers while the
\* driver writes to them.
THEOREM NothingFreedInUse == Spec => []HeldWhileUsed
<1>1. IInv => HeldWhileUsed
  BY DEF IInv, TypeOK, DeviceInv, RingInv, HeldWhileUsed, Acquired
<1> QED BY <1>1, Inductive, PTL

\* In lab3 and 5lab every command queued has been executed at close.
THEOREM NothingLost == Spec => []NothingDropped
<1>1. IInv => NothingDropped
  BY LenProperties DEF IInv, TypeOK, CountInv, Closed, Entries, NothingDropped
<1> QED BY <1>1, Inductive, PTL

-----------------------------------------------------------------------------
(* The ring implements the command queue.  What is pending is a slice of the *)
(* ring: a write extends it behind, the card shortens it in front.           *)

Slice(r, t, n) == [k \in 1 .. n |-> r[t + k - 1]]

Commands == 0 .. MaxCommands
Rings == [Entries -> Commands]

\* The sequence s is what the n entries of r from t on hold.
Reads(s, r, t, n) ==
  /\ s \in Seq(Commands) /\ Len(s) = n
  /\ \A k \in 1 .. n : s[k] = r[t + k - 1]

\* A slice is such a sequence, and the only one.
LEMMA SliceReads ==
  ASSUME NEW r \in Rings, NEW t \in Nat, NEW n \in Nat, t + n <= FIFO_ENTRIES
  PROVE  Reads(Slice(r, t, n), r, t, n)
<1>1. \A k \in 1 .. n : t + k - 1 \in Entries
  BY LabAssumption DEF LabAssumption, Entries
<1>2. Slice(r, t, n) \in [1 .. n -> Commands]
  BY <1>1 DEF Slice, Rings
<1>3. Slice(r, t, n) \in Seq(Commands)
  BY <1>2, SeqDef
<1>4. Len(Slice(r, t, n)) = n
  BY <1>2, <1>3, LenProperties
<1> QED BY <1>3, <1>4 DEF Slice, Reads

LEMMA ReadsUnique ==
  ASSUME NEW r, NEW t, NEW n, NEW s, NEW q, Reads(s, r, t, n), Reads(q, r, t, n)
  PROVE  s = q
<1>1. Len(s) = Len(q) /\ \A k \in 1 .. Len(s) : s[k] = q[k]
  BY DEF Reads
<1> QED BY <1>1, SeqEqual DEF Reads

LEMMA SliceEmpty ==
  ASSUME NEW r \in Rings, NEW t \in Entries
  PROVE  Slice(r, t, 0) = <<>>
<1>1. t \in Nat /\ 0 \in Nat /\ t + 0 <= FIFO_ENTRIES
  BY LabAssumption DEF LabAssumption, Entries
<1>2. Reads(Slice(r, t, 0), r, t, 0)
  BY <1>1, SliceReads, Zenon
<1> QED BY <1>2, EmptySeq DEF Reads

\* Writing behind a slice appends to it.
LEMMA SliceGrows ==
  ASSUME NEW r \in Rings, NEW t \in Nat, NEW n \in Nat, t + n < FIFO_ENTRIES,
         NEW c \in Commands
  PROVE  Slice([r EXCEPT ![t + n] = c], t, n + 1) = Append(Slice(r, t, n), c)
<1>0. PICK new : new = [r EXCEPT ![t + n] = c]
  OBVIOUS
<1>1. /\ t + n \in Entries /\ new \in Rings /\ n + 1 \in Nat
      /\ t + (n + 1) <= FIFO_ENTRIES /\ t + n <= FIFO_ENTRIES
  BY <1>0, LabAssumption DEF LabAssumption, Entries, Rings
<1>2. Reads(Slice(new, t, n + 1), new, t, n + 1)
  BY <1>1, SliceReads, Zenon
<1>3. PICK s : s = Slice(r, t, n) /\ Reads(s, r, t, n)
  BY <1>1, SliceReads, Zenon
<1>4. Append(s, c) \in Seq(Commands) /\ Len(Append(s, c)) = n + 1
  BY <1>3, AppendProperties DEF Reads
<1>5. \A k \in 1 .. n + 1 : Append(s, c)[k] = new[t + k - 1]
  <2> TAKE k \in 1 .. n + 1
  <2>1. CASE k = n + 1
    <3>1. t + k - 1 = t + n
      BY <2>1
    <3>2. new[t + n] = c
      BY <1>0, <1>1 DEF Rings
    <3>3. Append(s, c)[n + 1] = c
      BY <1>3, AppendProperties DEF Reads
    <3> QED BY <2>1, <3>1, <3>2, <3>3
  <2>2. CASE k # n + 1
    <3>1. k \in 1 .. n
      BY <2>2
    <3>2. t + k - 1 \in Entries /\ t + k - 1 # t + n
      BY <3>1, LabAssumption DEF LabAssumption, Entries
    <3>3. Append(s, c)[k] = s[k] /\ s[k] = r[t + k - 1]
      BY <1>3, <3>1, AppendProperties DEF Reads
    <3>4. new[t + k - 1] = r[t + k - 1]
      BY <1>0, <3>2 DEF Rings
    <3> QED BY <3>3, <3>4
  <2> QED BY <2>1, <2>2
<1>6. Reads(Append(s, c), new, t, n + 1)
  BY <1>4, <1>5 DEF Reads
<1> QED BY <1>0, <1>2, <1>3, <1>6, ReadsUnique

\* Without its first entry a slice is its own tail.
LEMMA SliceShrinks ==
  ASSUME NEW r \in Rings, NEW t \in Nat, NEW n \in Nat, n > 0, t + n <= FIFO_ENTRIES
  PROVE  /\ Slice(r, t, n) # <<>>
         /\ Head(Slice(r, t, n)) = r[t]
         /\ Tail(Slice(r, t, n)) = Slice(r, t + 1, n - 1)
<1>1. t + 1 \in Nat /\ n - 1 \in Nat /\ (t + 1) + (n - 1) <= FIFO_ENTRIES
  BY LabAssumption DEF LabAssumption
<1>2. PICK s : s = Slice(r, t, n) /\ Reads(s, r, t, n)
  BY SliceReads, Zenon
<1>3. Reads(Slice(r, t + 1, n - 1), r, t + 1, n - 1)
  BY <1>1, SliceReads, Zenon
<1>4. s # <<>> /\ Head(s) = r[t]
  BY <1>2, EmptySeq DEF Reads
<1>5. /\ Tail(s) \in Seq(Commands) /\ Len(Tail(s)) = n - 1
      /\ \A k \in 1 .. n - 1 : Tail(s)[k] = s[k + 1]
  BY <1>2, <1>4, HeadTailProperties DEF Reads
<1>6. \A k \in 1 .. n - 1 : Tail(s)[k] = r[(t + 1) + k - 1]
  <2> TAKE k \in 1 .. n - 1
  <2>1. k + 1 \in 1 .. n /\ t + (k + 1) - 1 = (t + 1) + k - 1
    OBVIOUS
  <2> QED BY <1>2, <1>5, <2>1 DEF Reads
<1>7. Reads(Tail(s), r, t + 1, n - 1)
  BY <1>5, <1>6 DEF Reads
<1> QED BY <1>2, <1>3, <1>4, <1>7, ReadsUnique

-----------------------------------------------------------------------------
(* Each step of the driver, the process or the card is a step of the queue,  *)
(* or none.                                                                  *)

Backlog == IF Closed THEN 0 ELSE head - FIFOTAIL

\* What is pending is the slice from the card's tail up to head.
LEMMA PendingIsSlice ==
  /\ Pending = Slice(ring, FIFOTAIL, Backlog)
  /\ Pending' = Slice(ring', FIFOTAIL', Backlog')
BY DEF Pending, Slice, Backlog

\* The slice lies in the ring, and there is none while the device is closed.
LEMMA BacklogFits ==
  ASSUME IInv
  PROVE  /\ ring \in Rings /\ FIFOTAIL \in Entries /\ FIFOTAIL \in Nat
         /\ head \in Nat /\ Backlog \in Nat
         /\ FIFOTAIL + Backlog <= FIFO_ENTRIES
         /\ ~Closed => FIFOTAIL + Backlog = head /\ head < FIFO_ENTRIES
         /\ Closed => Pending = <<>>
<1>1. /\ ring \in Rings /\ FIFOTAIL \in Entries /\ FIFOTAIL \in Nat
      /\ head \in Nat /\ Backlog \in Nat
      /\ FIFOTAIL + Backlog <= FIFO_ENTRIES
      /\ ~Closed => FIFOTAIL + Backlog = head /\ head < FIFO_ENTRIES
  BY LabAssumption DEF LabAssumption, IInv, TypeOK, RingInv, Entries, Backlog, Rings, Commands
<1>2. Closed => Slice(ring, FIFOTAIL, Backlog) = <<>>
  BY <1>1, SliceEmpty DEF Backlog
<1> QED BY <1>1, <1>2, PendingIsSlice

\* Nothing is pending after the device is closed.
LEMMA ClosedEmpty ==
  ASSUME IInv, Closed', UNCHANGED ring, UNCHANGED FIFOTAIL
  PROVE  Pending' = <<>>
<1>1. ring \in Rings /\ FIFOTAIL \in Entries
  BY BacklogFits
<1>2. Slice(ring, FIFOTAIL, 0) = <<>>
  BY <1>1, SliceEmpty
<1> QED BY <1>2, PendingIsSlice DEF Backlog

LEMMA RefinesInit == Init => Queue!Init
<1> SUFFICES ASSUME Init PROVE Queue!Init
  OBVIOUS
<1>1. Pending = <<>>
  BY IInvInit, BacklogFits DEF Init, Closed
<1> QED BY <1>1 DEF Queue!Init, Init, Closed

\* The steps that the queue does not see: they leave the ring, the card and the
\* queue's mode as they are.
LEMMA Stutter ==
  ASSUME UNCHANGED <<head, ring, FIFOTAIL, executed>>,
         Closed' = Closed, (pc' = "poll") = (pc = "poll")
  PROVE  UNCHANGED Queue!vars
<1>1. Backlog' = Backlog
  BY DEF Backlog
<1>2. Pending' = Pending
  BY <1>1, PendingIsSlice
<1> QED BY <1>2 DEF Queue!vars

\* FIFO_WRITE queues its command.
LEMMA QueueStep ==
  ASSUME IInv, NEW c \in Commands, FIFO_WRITE(c), used < MaxPerOpen,
         UNCHANGED <<FIFOTAIL, executed>>,
         pc \notin {"closed", "free", "poll"}, pc' \notin {"closed", "free", "poll"}
  PROVE  Queue!Queue(c)
<1>1. /\ ring \in Rings /\ FIFOTAIL \in Nat /\ Backlog \in Nat
      /\ FIFOTAIL + Backlog = head /\ head < FIFO_ENTRIES
      /\ FIFOTAIL + Backlog < FIFO_ENTRIES
  BY BacklogFits DEF Closed
<1>2. ring' = [ring EXCEPT ![FIFOTAIL + Backlog] = c]
  BY <1>1 DEF FIFO_WRITE
<1>3. head' = head + 1 /\ Backlog' = Backlog + 1
  BY <1>1, AdvanceIncrements DEF FIFO_WRITE, Backlog, Closed, IInv, RingInv
<1>4. Slice([ring EXCEPT ![FIFOTAIL + Backlog] = c], FIFOTAIL, Backlog + 1)
        = Append(Slice(ring, FIFOTAIL, Backlog), c)
  BY <1>1, SliceGrows, Zenon
<1>5. Pending' = Append(Pending, c)
  BY <1>2, <1>3, <1>4, PendingIsSlice
<1> QED BY <1>5 DEF Queue!Queue, Closed

\* The card executes the oldest command.
LEMMA ExecuteStep ==
  ASSUME IInv, card_execute
  PROVE  Queue!Execute
<1>1. pc = "poll" /\ ~Closed /\ FIFOTAIL < head
  BY DEF IInv, TypeOK, RingInv, Entries, card_execute, Closed
<1>2. /\ ring \in Rings /\ FIFOTAIL \in Nat /\ Backlog \in Nat /\ head \in Nat
      /\ FIFOTAIL + Backlog = head /\ head < FIFO_ENTRIES
  BY <1>1, BacklogFits
<1>3. FIFOTAIL' = FIFOTAIL + 1 /\ Backlog' = Backlog - 1 /\ Backlog > 0
      /\ UNCHANGED <<pc, ring, head>>
  BY <1>1, <1>2 DEF card_execute, Backlog, Closed, fifo, process
<1>4. /\ Slice(ring, FIFOTAIL, Backlog) # <<>>
      /\ Head(Slice(ring, FIFOTAIL, Backlog)) = ring[FIFOTAIL]
      /\ Tail(Slice(ring, FIFOTAIL, Backlog)) = Slice(ring, FIFOTAIL + 1, Backlog - 1)
  <2>1. FIFOTAIL + Backlog <= FIFO_ENTRIES
    BY <1>2, LabAssumption DEF LabAssumption
  <2> QED BY <1>2, <1>3, <2>1, SliceShrinks, Zenon
<1>5. Pending' = Slice(ring, FIFOTAIL + 1, Backlog - 1)
  BY <1>3, PendingIsSlice
<1> QED BY <1>1, <1>3, <1>4, <1>5, PendingIsSlice DEF Queue!Execute, card_execute, Closed

LEMMA RefinesStep ==
  ASSUME IInv, IInv', [Next]_vars
  PROVE  [Queue!Next]_Queue!vars
<1> USE DEF Closed, device, fifo, process, card
<1>1. CASE UNCHANGED vars
  BY <1>1, Stutter DEF vars
<1>2. CASE my_init_function \/ kyouko3_probe \/ my_exit_function \/ mmap \/ munmap \/ close
  BY <1>2, Stutter DEF my_init_function, kyouko3_probe, my_exit_function, mmap, munmap, close
<1>3. CASE ioctl_flush \/ on_GraphicsMode \/ fifo_flush_poll \/ kyouko3fops_release_free
  BY <1>3, Stutter DEF ioctl_flush, on_GraphicsMode, fifo_flush_poll, kyouko3fops_release_free, Calls
<1>4. CASE kyouko3_open \/ kyouko3fops_open
  <2>1. pc = "closed" /\ pc' = "user" /\ executed' = executed /\ Pending = <<>>
    BY <1>4, BacklogFits DEF kyouko3_open, kyouko3fops_open
  <2>2. head' = 0 /\ FIFOTAIL' = 0 /\ ring' \in Rings /\ 0 \in Entries
    BY <1>4 DEF kyouko3_open, kyouko3fops_open, IInv, TypeOK, RingInv, Entries, Rings, Commands
  <2>3. Backlog' = 0
    BY <2>1, <2>2 DEF Backlog
  <2>4. Slice(ring', 0, 0) = <<>>
    BY <2>2, SliceEmpty
  <2>5. Pending' = <<>>
    BY <2>2, <2>3, <2>4, PendingIsSlice
  <2> QED BY <2>1, <2>5 DEF Queue!Next, Queue!Open
<1>5. CASE fifo_queue
  <2>1. PICK c \in {issued + 1, Garbage} : FIFO_WRITE(c)
    BY <1>5 DEF fifo_queue
  <2>2. c \in Commands /\ used < MaxPerOpen
    <3>1. /\ used \in Nat /\ issued \in Nat /\ MaxPerOpen \in Nat /\ MaxCommands \in Nat
          /\ used + 1 <= MaxPerOpen /\ issued + 1 <= MaxCommands
      BY <1>5, LabAssumption DEF fifo_queue, Room, LabAssumption, IInv, TypeOK
    <3>2. c = issued + 1 \/ c = 0
      BY <2>1 DEF Garbage
    <3> QED BY ONLY <3>1, <3>2 DEF Commands
  <2>3. Queue!Queue(c)
    BY <1>5, <2>1, <2>2, QueueStep DEF fifo_queue, Calls
  <2> QED BY <2>2, <2>3 DEF Queue!Next, Commands
<1>6. CASE on_GraphicsMode_write
  <2>1. issued + 1 \in Commands /\ used < MaxPerOpen
    BY <1>6, LabAssumption DEF on_GraphicsMode_write, LabAssumption, IInv, TypeOK, CallInv, Commands
  <2>2. Queue!Queue(issued + 1)
    BY <1>6, <2>1, QueueStep DEF on_GraphicsMode_write
  <2> QED BY <2>1, <2>2 DEF Queue!Next, Commands
<1>7. CASE fifo_vmode_off \/ kyouko3fops_release \/ kyouko3_release
  <2> USE <1>7 DEF fifo_vmode_off, kyouko3fops_release, kyouko3_release, off_GraphicsMode, After, Calls
  <2>1. pc = "user" /\ UNCHANGED <<head, ring, FIFOTAIL, executed>>
        /\ pc' \in {"user", "head", "free", "closed"}
    OBVIOUS
  <2>2. CASE Closed'
    <3>1. Pending' = <<>>
      BY <2>1, <2>2, ClosedEmpty
    <3> QED BY <2>1, <2>2, <3>1 DEF Queue!Next, Queue!Close
  <2>3. CASE ~Closed'
    BY <2>1, <2>3, Stutter
  <2> QED BY <2>2, <2>3
<1>8. CASE fifo_flush_head
  <2>1. pc = "head" /\ pc' = "poll" /\ UNCHANGED <<head, ring, FIFOTAIL, executed>>
    BY <1>8 DEF fifo_flush_head
  <2>2. Backlog' = Backlog
    BY <2>1 DEF Backlog
  <2>3. Pending' = Pending
    BY <2>1, <2>2, PendingIsSlice
  <2> QED BY <2>1, <2>3 DEF Queue!Next, Queue!FlushBegin
<1>9. CASE fifo_flush_end
  <2>1. pc = "poll" /\ pc' \in {"user", "free"} /\ UNCHANGED <<head, ring, FIFOTAIL, executed>>
    BY <1>9 DEF fifo_flush_end, After
  <2>2. FIFOTAIL = head /\ ring \in Rings /\ FIFOTAIL \in Entries
    BY <1>9, BacklogFits DEF fifo_flush_end, Drained, IInv, TypeOK, RingInv, Entries
  <2>3. Backlog = 0 /\ Backlog' = 0
    BY <2>1, <2>2 DEF Backlog, Entries
  <2>4. Pending = <<>> /\ Pending' = <<>>
    BY <2>1, <2>2, <2>3, SliceEmpty, PendingIsSlice
  <2> QED BY <2>1, <2>4 DEF Queue!Next, Queue!FlushEnd
<1>10. CASE card_execute
  BY <1>10, ExecuteStep DEF Queue!Next
<1> QED
  BY <1>1, <1>2, <1>3, <1>4, <1>5, <1>6, <1>7, <1>8, <1>9, <1>10 DEF Next, User, Kernel

\* Below a lap the labs' FIFO is the command queue of the final driver: nothing
\* is overwritten or executed out of order, and every flush is a barrier.
THEOREM QueueImplemented == Spec => Queue!Spec
BY RefinesInit, RefinesStep, Inductive, PTL DEF Spec, Queue!Spec
=============================================================================
