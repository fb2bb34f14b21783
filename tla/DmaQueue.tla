------------------------------ MODULE DmaQueue ------------------------------
(***************************************************************************)
(* What the DMA half of the Kyouko3 driver promises its one client: a      *)
(* bounded first-in first-out queue of draw requests.  A request accepted  *)
(* by START_DMA is drawn exactly once, with the contents and the byte      *)
(* count it was submitted with, in submission order.  Buffers, ring        *)
(* indices, interrupts and wait queues are all absent at this level;       *)
(* Kyouko3Dma is shown to implement it.  The promise may be broken, once   *)
(* and for all: nothing is then said of what is drawn.                     *)
(***************************************************************************)
EXTENDS Naturals, Sequences

CONSTANTS Capacity,  \* the number of requests accepted and not yet drawn
          Requests   \* the values a request may have

VARIABLES pending,   \* accepted requests, oldest first
          drawn,     \* requests the card has executed, oldest first
          broken     \* whether the promise has been broken

vars == <<pending, drawn, broken>>

Init == pending = <<>> /\ drawn = <<>> /\ ~broken

\* START_DMA accepts a request.
Submit(r) ==
  /\ ~broken
  /\ Len(pending) < Capacity
  /\ pending' = Append(pending, r)
  /\ UNCHANGED drawn

\* The card executes the oldest accepted request.
Draw ==
  /\ ~broken
  /\ pending # <<>>
  /\ drawn' = Append(drawn, Head(pending))
  /\ pending' = Tail(pending)

\* A step may break the promise, whatever it does besides.
Next == Draw \/ (\E r \in Requests : Submit(r)) \/ broken'

Spec == Init /\ [][Next]_vars

\* Nothing accepted is left undrawn, unless the promise is broken.
FairSpec == Spec /\ WF_<<pending, drawn>>(Draw)
=============================================================================
