--------------------------- MODULE GreedyScheduler ---------------------------
(***************************************************************************)
(* greedy-iosched.c: an elevator of the Linux block layer that dispatches  *)
(* the request nearest to the disk head.  It keeps the waiting requests in *)
(* two lists sorted by position, one below the head and one from the head  *)
(* upwards, so that the nearest is the last of the one or the first of the *)
(* other.                                                                  *)
(*                                                                         *)
(* The block layer calls it with the queue lock held: each call is a step. *)
(* It also changes the requests that wait here: a bio that continues a     *)
(* request, or precedes it, is merged into it, and two requests that touch *)
(* are joined, of which elevator_merge_req_fn takes the second off its     *)
(* list.  Nothing keeps requests that wait at the same time from           *)
(* overlapping: two processes may read the same sectors past the page      *)
(* cache.                                                                  *)
(***************************************************************************)
EXTENDS Integers, Sequences

CONSTANTS
  MaxSector,  \* positions are 0 .. MaxSector
  Word,       \* 2^64: the modulus of unsigned long
  Ids         \* the request structures of the queue

GreedyAssumption == MaxSector \in Nat /\ Word \in Nat /\ MaxSector < Word

ASSUME GreedyAssumption

VARIABLES
  lower_queue, upper_queue,  \* gd->lower_queue and gd->upper_queue
  disk_head,                 \* gd->disk_head
  mode                       \* "running", "draining" or "exited"

vars == <<lower_queue, upper_queue, disk_head, mode>>

Sectors == 0 .. MaxSector

\* A request covers the sectors pos .. end - 1.
Request == {r \in [id : Ids, pos : Sectors, end : Sectors] : r.pos < r.end}

Elements(q) == {q[i] : i \in DOMAIN q}
Waiting == Elements(lower_queue) \cup Elements(upper_queue)

-----------------------------------------------------------------------------
\* Faulty variants of the operators below, for the mutation runs.
ByEnd(r) == r.end <= disk_head
Farther(l, u) == l > u
KeepsLast(q) == q
JoinsSwapped(r, s) == [r EXCEPT !.pos = s.pos]

\* attempt_merge: r is joined to s, which it touches.
Join(r, s) == [r EXCEPT !.end = s.end]

\* list_del_init of the last request.
WithoutLast(q) == SubSeq(q, 1, Len(q) - 1)

\* Which list a new request goes to.
IsLower(r) == r.pos < disk_head

\* The place in q behind the last request at a smaller position than p.
PlaceAfter(q, p) ==
  CHOOSE i \in 0 .. Len(q) :
    /\ i > 0 => q[i].pos < p
    /\ \A j \in i + 1 .. Len(q) : q[j].pos >= p

Insert(q, r) ==
  LET i == PlaceAfter(q, r.pos)
  IN  SubSeq(q, 1, i) \o <<r>> \o SubSeq(q, i + 1, Len(q))

\* The request r has grown where it stands in q, if it is there.
Grow(q, r) == [i \in DOMAIN q |-> IF q[i].id = r.id THEN r ELSE q[i]]

\* list_del_init of the i-th request, and of r if it is in q.
Unlink(q, i) == SubSeq(q, 1, i - 1) \o SubSeq(q, i + 1, Len(q))
Without(q, r) ==
  IF r \in Elements(q) THEN Unlink(q, CHOOSE i \in DOMAIN q : q[i] = r) ELSE q

\* greedy_dispatch has nothing to dispatch from the lists l and u.
Nothing(l, u) == l = <<>> /\ u = <<>>

\* Which of two unsigned distances wins: a tie goes to the upper list.
Nearer(l, u) == l < u

Init ==
  /\ lower_queue = <<>> /\ upper_queue = <<>>
  /\ disk_head = 0
  /\ mode = "running"

greedy_add_request(r) ==
  /\ mode = "running"
  /\ \A s \in Waiting : s.id # r.id
  /\ IF IsLower(r)
       THEN lower_queue' = Insert(lower_queue, r) /\ UNCHANGED upper_queue
       ELSE upper_queue' = Insert(upper_queue, r) /\ UNCHANGED lower_queue
  /\ UNCHANGED <<disk_head, mode>>

\* The block layer merges a bio into the waiting request r: behind it, which
\* moves its end to x, or in front of it, which moves its start there.
merge_bio(r, x) ==
  /\ mode = "running"
  /\ \E s \in {[r EXCEPT !.end = x], [r EXCEPT !.pos = x]} :
       /\ s \in Request /\ s.pos <= r.pos /\ r.end <= s.end
       /\ lower_queue' = Grow(lower_queue, s) /\ upper_queue' = Grow(upper_queue, s)
  /\ UNCHANGED <<disk_head, mode>>

\* The block layer joins r to the request next that begins where r ends, and
\* calls greedy_merged_requests.  They are neighbours that
\* greedy_former_request or greedy_latter_request named, or the block layer
\* found them by their sectors, in whichever lists they are.
greedy_merged_requests(r, next) ==
  /\ mode = "running"
  /\ r.end = next.pos
  /\ lower_queue' = Without(Grow(lower_queue, Join(r, next)), next)
  /\ upper_queue' = Without(Grow(upper_queue, Join(r, next)), next)
  /\ UNCHANGED <<disk_head, mode>>

\* The two halves of greedy_dispatch, with a target in the one list or the
\* other.
Last(q) == q[Len(q)]
LowerDistance == (disk_head - Last(lower_queue).pos) % Word
UpperDistance == (Head(upper_queue).pos - disk_head) % Word

dispatch_lower ==
  /\ mode # "exited" /\ ~Nothing(lower_queue, upper_queue)
  /\ lower_queue # <<>>
  /\ upper_queue # <<>> => Nearer(LowerDistance, UpperDistance)
  /\ disk_head' = Last(lower_queue).end
  /\ lower_queue' = WithoutLast(lower_queue)
  /\ UNCHANGED <<upper_queue, mode>>

dispatch_upper ==
  /\ mode # "exited" /\ ~Nothing(lower_queue, upper_queue)
  /\ upper_queue # <<>>
  /\ lower_queue # <<>> => ~Nearer(LowerDistance, UpperDistance)
  /\ disk_head' = Head(upper_queue).end
  /\ upper_queue' = Tail(upper_queue)
  /\ UNCHANGED <<lower_queue, mode>>

\* The block layer replaces the elevator: it stops adding requests, calls
\* greedy_dispatch until that returns 0, and calls greedy_exit_queue.
drain_begin ==
  /\ mode = "running"
  /\ mode' = "draining"
  /\ UNCHANGED <<lower_queue, upper_queue, disk_head>>

greedy_exit_queue ==
  /\ mode = "draining" /\ Nothing(lower_queue, upper_queue)
  /\ mode' = "exited"
  /\ UNCHANGED <<lower_queue, upper_queue, disk_head>>

greedy_init_queue ==
  /\ mode = "exited"
  /\ lower_queue' = <<>> /\ upper_queue' = <<>>
  /\ disk_head' = 0
  /\ mode' = "running"

Next ==
  \/ \E r \in Request : greedy_add_request(r)
  \/ \E r \in Waiting : \E x \in Sectors : merge_bio(r, x)
  \/ \E r, next \in Waiting : greedy_merged_requests(r, next)
  \/ dispatch_lower \/ dispatch_upper
  \/ drain_begin \/ greedy_exit_queue \/ greedy_init_queue

Spec == Init /\ [][Next]_vars

\* The block layer goes on draining once it has begun.
FairSpec ==
  /\ Spec
  /\ WF_vars(mode = "draining" /\ (dispatch_lower \/ dispatch_upper))
  /\ WF_vars(greedy_exit_queue)

-----------------------------------------------------------------------------
(* Properties. *)

TypeOK ==
  /\ lower_queue \in Seq(Request) /\ upper_queue \in Seq(Request)
  /\ disk_head \in Sectors
  /\ mode \in {"running", "draining", "exited"}

\* Each list is in order, the head is above the starts of the lower one and
\* not above those of the upper one: neither distance is negative.
InOrder(q) == \A i, j \in DOMAIN q : i < j => q[i].pos <= q[j].pos
Arranged ==
  /\ InOrder(lower_queue) /\ InOrder(upper_queue)
  /\ \A i \in DOMAIN lower_queue : lower_queue[i].pos < disk_head
  /\ \A i \in DOMAIN upper_queue : upper_queue[i].pos >= disk_head

\* Draining ends.
DrainEnds == mode = "draining" ~> mode = "exited"

\* The requests of W cover different sectors.
Disjoint(W) == \A r, s \in W : r # s => r.end <= s.pos \/ s.end <= r.pos

\* A request that waits at or above the head has grown down to below it.
CrossesHead ==
  \E r \in Waiting, s \in Waiting' :
    r.id = s.id /\ s.pos < disk_head /\ disk_head <= r.pos

\* As long as the requests that wait cover different sectors, the lists stay
\* arranged, through the moves of the head, the insertions and the joins; a
\* bio merged in front of the first request above the head is the exception.
StaysArranged ==
  [][Arranged /\ Disjoint(Waiting) /\ Disjoint(Waiting') => Arranged' \/ CrossesHead]_vars

\* The two lists and the choice between their ends implement shortest seek
\* first over the set of waiting requests, for as long as they are arranged.
Abstract == INSTANCE ShortestSeekFirst
              WITH waiting <- Waiting, head <- disk_head, arranged <- Arranged
ImplementsSSTF == Abstract!Spec
=============================================================================
