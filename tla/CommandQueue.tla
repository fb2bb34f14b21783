---------------------------- MODULE CommandQueue ----------------------------
(***************************************************************************)
(* What the FIFO half of the Kyouko3 driver promises its client: commands  *)
(* queued while the device is open are executed by the card once each, in  *)
(* the order they were queued, and a flush is a barrier - it ends only     *)
(* when everything queued before it has been executed.  Commands that no   *)
(* flush follows are dropped when the device is closed.  The ring, its     *)
(* indices and the card's registers are absent at this level; Kyouko3Fifo  *)
(* is shown to implement it.                                               *)
(***************************************************************************)
EXTENDS Sequences

CONSTANT Commands

VARIABLES mode,      \* "closed", "open" or "flushing"
          pending,   \* commands queued and not yet executed, oldest first
          executed   \* commands the card has executed, oldest first

vars == <<mode, pending, executed>>

Init == mode = "closed" /\ pending = <<>> /\ executed = <<>>

Open == mode = "closed" /\ mode' = "open" /\ UNCHANGED <<pending, executed>>

Queue(c) ==
  /\ mode = "open"
  /\ pending' = Append(pending, c)
  /\ UNCHANGED <<mode, executed>>

FlushBegin == mode = "open" /\ mode' = "flushing" /\ UNCHANGED <<pending, executed>>

Execute ==
  /\ mode = "flushing" /\ pending # <<>>
  /\ executed' = Append(executed, Head(pending))
  /\ pending' = Tail(pending)
  /\ UNCHANGED mode

\* The barrier.  The flush that closes the device ends here too.
FlushEnd ==
  /\ mode = "flushing" /\ pending = <<>>
  /\ mode' \in {"open", "closed"}
  /\ UNCHANGED <<pending, executed>>

Close == mode = "open" /\ mode' = "closed" /\ pending' = <<>> /\ UNCHANGED executed

Next ==
  \/ Open \/ FlushBegin \/ Execute \/ FlushEnd \/ Close
  \/ \E c \in Commands : Queue(c)

Spec == Init /\ [][Next]_vars

\* Every flush ends, and so everything queued before it is executed.
FairSpec == Spec /\ WF_vars(Execute) /\ WF_vars(FlushEnd)
=============================================================================
