-------------------------- MODULE ShortestSeekFirst --------------------------
(***************************************************************************)
(* Shortest seek time first: what the greedy I/O scheduler promises, and   *)
(* how far.  A set of requests waits, and while they are arranged around   *)
(* the disk head the one dispatched is one whose first sector is nearest   *)
(* to it.  Only a request that overlaps another one, or that has grown     *)
(* downwards past the head or past another one, can disarrange them, and   *)
(* they are arranged again at the latest when none is left.  Arranged or   *)
(* not, nothing waiting is lost, and nothing is dispatched twice.          *)
(* GreedyScheduler is shown to implement it.                               *)
(***************************************************************************)
EXTENDS Integers

CONSTANTS
  Sectors,  \* 0 .. n: positions on the disk
  Ids       \* names of requests

VARIABLES waiting,  \* the requests not yet dispatched: [pos, end) in sectors
          head,     \* the position of the disk head
          arranged  \* the next one dispatched is a nearest one

vars == <<waiting, head, arranged>>

Request == {r \in [id : Ids, pos : Sectors, end : Sectors] : r.pos < r.end}

Distance(r) == IF r.pos < head THEN head - r.pos ELSE r.pos - head

Init == waiting = {} /\ head = 0 /\ arranged = TRUE

Add(r) ==
  /\ \A t \in waiting : t.id # r.id
  /\ waiting' = waiting \cup {r}
  /\ arranged => arranged'
  /\ UNCHANGED head

\* r now starts at s.pos: it has moved down past the sector x.
Passes(r, s, x) == s.pos < x /\ x <= r.pos

\* r grows to s, and may swallow others which it then covers.
Merge(r, s) ==
  /\ r \in waiting /\ s.id = r.id
  /\ s.pos <= r.pos /\ r.end <= s.end
  /\ \E swallowed \in SUBSET {t \in waiting : s.pos <= t.pos /\ t.end <= s.end} :
       waiting' = (waiting \ ({r} \cup swallowed)) \cup {s}
  /\ (/\ arranged
      /\ \A x \in {head} \cup {t.pos : t \in waiting \ {r}} : ~Passes(r, s, x)) => arranged'
  /\ UNCHANGED head

\* t starts within r: the head passes t's start when it moves behind r.
StartsWithin(t, r) == r.pos <= t.pos /\ t.pos < r.end

Dispatch(r) ==
  /\ r \in waiting
  /\ arranged => \A t \in waiting : Distance(r) <= Distance(t)
  /\ waiting' = waiting \ {r}
  /\ head' = r.end
  /\ (arranged /\ \A t \in waiting \ {r} : ~StartsWithin(t, r)) => arranged'
  /\ waiting' = {} => arranged'

\* The scheduler is replaced on an idle queue and starts again.
Restart == waiting = {} /\ waiting' = {} /\ head' = 0 /\ arranged'

Next ==
  \/ \E r \in Request : Add(r)
  \/ \E r \in waiting : Dispatch(r) \/ \E s \in Request : Merge(r, s)
  \/ Restart

Spec == Init /\ [][Next]_vars
=============================================================================
