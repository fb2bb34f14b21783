------------------------ MODULE GreedySchedulerProofs ------------------------
(***************************************************************************)
(* Proofs about GreedyScheduler, for every disk size, every number of      *)
(* requests and whatever the block layer merges and adds, overlapping      *)
(* requests included.  The lists are followed as sequences, in which no    *)
(* request appears twice; how they lie around the head and what they hold  *)
(* as a set is then all that the choice of a nearest request depends on.   *)
(***************************************************************************)
EXTENDS GreedyScheduler, SequenceTheorems, WellFoundedInduction, TLAPS

Lists == Seq(Request)

\* No request appears twice in a list.
Distinct(q) == \A i, j \in DOMAIN q : i < j => q[i].id # q[j].id

-----------------------------------------------------------------------------
(* Lists of requests. *)

LEMMA RequestType ==
  ASSUME NEW r \in Request
  PROVE  r.pos \in Nat /\ r.end \in Nat /\ r.pos < r.end /\ r.end \in Sectors /\ r.pos \in Sectors
BY GreedyAssumption DEF GreedyAssumption, Request, Sectors

LEMMA ListType ==
  ASSUME NEW q \in Lists
  PROVE  /\ Len(q) \in Nat /\ DOMAIN q = 1 .. Len(q)
         /\ \A k \in 1 .. Len(q) : q[k] \in Request
         /\ Elements(q) \subseteq Request
<1>1. Len(q) \in Nat /\ DOMAIN q = 1 .. Len(q) /\ \A k \in 1 .. Len(q) : q[k] \in Request
  BY LenProperties, ElementOfSeq DEF Lists
<1> QED BY <1>1 DEF Elements

\* A set of naturals has a least element.
LEMMA LeastNat ==
  ASSUME NEW T \in SUBSET Nat, T # {}
  PROVE  \E n \in T : \A m \in T : n <= m
<1> DEFINE R == OpToRel(<, Nat)
<1>1. IsWellFoundedOn(R, Nat)
  BY NatLessThanWellFounded
<1>2. PICK n \in T : \A m \in T : <<m, n>> \notin R
  <2> HIDE DEF R
  <2> QED BY <1>1, WFMin
<1>3. \A m \in T : ~(m < n)
  BY <1>2 DEF OpToRel
<1> QED BY <1>3

\* greedy_add_request's loop finds a place in any list.
LEMMA PlaceFound ==
  ASSUME NEW q \in Lists, NEW p \in Nat
  PROVE  /\ PlaceAfter(q, p) \in 0 .. Len(q)
         /\ PlaceAfter(q, p) > 0 => q[PlaceAfter(q, p)].pos < p
         /\ \A j \in PlaceAfter(q, p) + 1 .. Len(q) : q[j].pos >= p
<1> DEFINE T == {i \in 0 .. Len(q) : \A j \in i + 1 .. Len(q) : q[j].pos >= p}
<1>1. Len(q) \in T
  BY ListType
<1>2. T \in SUBSET Nat /\ T # {}
  BY <1>1
<1>3. PICK i \in T : \A m \in T : i <= m
  <2> HIDE DEF T
  <2> QED BY <1>2, LeastNat
<1>4. i \in 0 .. Len(q) /\ \A j \in i + 1 .. Len(q) : q[j].pos >= p
  BY <1>3
<1>5. i > 0 => q[i].pos < p
  <2> SUFFICES ASSUME i > 0, ~(q[i].pos < p) PROVE FALSE
    OBVIOUS
  <2>1. i \in 1 .. Len(q) /\ i - 1 \in 0 .. Len(q) /\ Len(q) \in Nat
    BY <1>4, ListType
  <2>2. q[i].pos \in Nat
    BY <2>1, ListType, RequestType
  <2>3. \A j \in i .. Len(q) : q[j].pos >= p
    BY <1>4, <2>1, <2>2
  <2>4. i - 1 \in T
    BY <2>1, <2>3
  <2> HIDE DEF T
  <2>5. i <= i - 1
    BY <1>3, <2>4
  <2> QED BY <2>1, <2>5
<1> HIDE DEF T
<1> QED BY <1>4, <1>5 DEF PlaceAfter

\* What a list with r put in behind its i-th request holds.
LEMMA PutIn ==
  ASSUME NEW q \in Lists, NEW r \in Request, NEW i \in 0 .. Len(q)
  PROVE  LET s == SubSeq(q, 1, i) \o <<r>> \o SubSeq(q, i + 1, Len(q))
         IN  /\ s \in Lists /\ Len(s) = Len(q) + 1
             /\ \A k \in 1 .. i : s[k] = q[k]
             /\ s[i + 1] = r
             /\ \A k \in i + 1 .. Len(q) : s[k + 1] = q[k]
<1> DEFINE a == SubSeq(q, 1, i)
           b == SubSeq(q, i + 1, Len(q))
           c == a \o <<r>>
           s == c \o b
<1>1. Len(q) \in Nat /\ i \in Nat /\ i <= Len(q) /\ \A k \in 1 .. Len(q) : q[k] \in Request
  BY ListType
<1>2. /\ a \in Seq(Request) /\ Len(a) = i
      /\ \A k \in 1 .. i : a[k] = q[k]
  BY <1>1, SubSeqProperties
<1>3. /\ b \in Seq(Request) /\ Len(b) = Len(q) - i
      /\ \A k \in 1 .. Len(q) - i : b[k] = q[i + k]
  BY <1>1, SubSeqProperties
<1>4. <<r>> \in Seq(Request) /\ Len(<<r>>) = 1 /\ <<r>>[1] = r
  OBVIOUS
<1> HIDE DEF a, b
<1>5. /\ c \in Seq(Request) /\ Len(c) = i + 1
      /\ \A k \in 1 .. i : c[k] = a[k]
      /\ c[i + 1] = r
  BY <1>1, <1>2, <1>4, ConcatProperties
<1> HIDE DEF c
<1>6. /\ s \in Seq(Request) /\ Len(s) = Len(q) + 1
      /\ \A k \in 1 .. i + 1 : s[k] = c[k]
      /\ \A k \in i + 2 .. Len(q) + 1 : s[k] = b[k - (i + 1)]
  BY <1>1, <1>3, <1>5, ConcatProperties
<1> HIDE DEF s
<1>7. \A k \in i + 1 .. Len(q) : s[k + 1] = q[k]
  <2> TAKE k \in i + 1 .. Len(q)
  <2>1. k + 1 \in i + 2 .. Len(q) + 1 /\ (k + 1) - (i + 1) = k - i
        /\ k - i \in 1 .. Len(q) - i /\ i + (k - i) = k
    BY <1>1
  <2> QED BY <1>3, <1>6, <2>1
<1>8. \A k \in 1 .. i : s[k] = q[k]
  BY <1>1, <1>2, <1>5, <1>6
<1>9. s[i + 1] = r
  BY <1>1, <1>5, <1>6
<1>10. s \in Lists /\ Len(s) = Len(q) + 1
  BY <1>6 DEF Lists
<1> QED BY <1>7, <1>8, <1>9, <1>10, Zenon DEF s, c, a, b

\* What a list without its i-th request holds.
LEMMA TakenOut ==
  ASSUME NEW q \in Lists, NEW i \in 1 .. Len(q)
  PROVE  LET s == Unlink(q, i)
         IN  /\ s \in Lists /\ Len(s) = Len(q) - 1
             /\ \A k \in 1 .. i - 1 : s[k] = q[k]
             /\ \A k \in i .. Len(q) - 1 : s[k] = q[k + 1]
<1> DEFINE a == SubSeq(q, 1, i - 1)
           b == SubSeq(q, i + 1, Len(q))
           s == a \o b
<1>1. Len(q) \in Nat /\ i \in Nat /\ 1 <= i /\ i <= Len(q) /\ \A k \in 1 .. Len(q) : q[k] \in Request
  BY ListType
<1>2. /\ a \in Seq(Request) /\ Len(a) = i - 1
      /\ \A k \in 1 .. i - 1 : a[k] = q[k]
  BY <1>1, SubSeqProperties
<1>3. /\ b \in Seq(Request) /\ Len(b) = Len(q) - i
      /\ \A k \in 1 .. Len(q) - i : b[k] = q[i + k]
  BY <1>1, SubSeqProperties
<1> HIDE DEF a, b
<1>4. /\ s \in Seq(Request) /\ Len(s) = Len(q) - 1
      /\ \A k \in 1 .. i - 1 : s[k] = a[k]
      /\ \A k \in i .. Len(q) - 1 : s[k] = b[k - (i - 1)]
  <2>1. /\ s \in Seq(Request) /\ Len(s) = Len(a) + Len(b)
        /\ \A k \in 1 .. Len(a) + Len(b) : s[k] = IF k <= Len(a) THEN a[k] ELSE b[k - Len(a)]
    BY <1>2, <1>3, ConcatProperties
  <2> HIDE DEF s
  <2>2. Len(s) = Len(q) - 1
    BY <1>1, <1>2, <1>3, <2>1
  <2>3. ASSUME NEW k \in 1 .. i - 1 PROVE s[k] = a[k]
    <3>1. k \in 1 .. Len(a) + Len(b) /\ k <= Len(a)
      BY <1>1, <1>2, <1>3
    <3> QED BY <2>1, <3>1
  <2>4. ASSUME NEW k \in i .. Len(q) - 1 PROVE s[k] = b[k - (i - 1)]
    <3>1. k \in 1 .. Len(a) + Len(b) /\ ~(k <= Len(a)) /\ k - Len(a) = k - (i - 1)
      BY <1>1, <1>2, <1>3
    <3> QED BY <2>1, <3>1
  <2> QED BY <2>1, <2>2, <2>3, <2>4
<1> HIDE DEF s
<1>5. \A k \in i .. Len(q) - 1 : s[k] = q[k + 1]
  <2> TAKE k \in i .. Len(q) - 1
  <2>1. k - (i - 1) \in 1 .. Len(q) - i /\ i + (k - (i - 1)) = k + 1
    BY <1>1
  <2> QED BY <1>3, <1>4, <2>1
<1>6. s \in Lists /\ Len(s) = Len(q) - 1 /\ \A k \in 1 .. i - 1 : s[k] = q[k]
  BY <1>1, <1>2, <1>4 DEF Lists
<1> QED BY <1>5, <1>6, Zenon DEF Unlink, s, a, b


\* greedy_add_request adds the request, and only it, behind the last one that
\* starts before it.
LEMMA InsertAdds ==
  ASSUME NEW q \in Lists, NEW r \in Request
  PROVE  /\ Insert(q, r) \in Lists
         /\ Elements(Insert(q, r)) = Elements(q) \cup {r}
         /\ Distinct(q) /\ (\A e \in Elements(q) : e.id # r.id) => Distinct(Insert(q, r))
         /\ InOrder(q) => InOrder(Insert(q, r))
<1>1. PICK i \in 0 .. Len(q) :
        /\ i = PlaceAfter(q, r.pos)
        /\ i > 0 => q[i].pos < r.pos
        /\ \A j \in i + 1 .. Len(q) : q[j].pos >= r.pos
  BY PlaceFound, RequestType
<1>2. PICK s : /\ s = Insert(q, r)
               /\ s \in Lists /\ Len(s) = Len(q) + 1
               /\ \A k \in 1 .. i : s[k] = q[k]
               /\ s[i + 1] = r
               /\ \A k \in i + 1 .. Len(q) : s[k + 1] = q[k]
  <2>1. Insert(q, r) = SubSeq(q, 1, i) \o <<r>> \o SubSeq(q, i + 1, Len(q))
    BY <1>1 DEF Insert
  <2> DEFINE s == SubSeq(q, 1, i) \o <<r>> \o SubSeq(q, i + 1, Len(q))
  <2>2. /\ s \in Lists /\ Len(s) = Len(q) + 1
        /\ \A k \in 1 .. i : s[k] = q[k]
        /\ s[i + 1] = r
        /\ \A k \in i + 1 .. Len(q) : s[k + 1] = q[k]
    BY PutIn
  <2> HIDE DEF s
  <2> QED BY <2>1, <2>2 DEF s
<1>3. /\ Len(q) \in Nat /\ DOMAIN q = 1 .. Len(q) /\ DOMAIN s = 1 .. Len(q) + 1
      /\ r.pos \in Nat
      /\ \A k \in 1 .. Len(q) : q[k].pos \in Nat /\ q[k] \in Elements(q)
  BY <1>2, ListType, RequestType DEF Elements
\* Of two requests in the new list, either both were in the old one in the same
\* order, or one of them is r.
<1>4. ASSUME NEW k \in 1 .. Len(q) + 1, NEW l \in 1 .. Len(q) + 1, k < l
      PROVE  \/ \E m, n \in 1 .. Len(q) : m < n /\ s[k] = q[m] /\ s[l] = q[n]
             \/ \E m \in 1 .. i : s[k] = q[m] /\ s[l] = r
             \/ \E n \in i + 1 .. Len(q) : s[k] = r /\ s[l] = q[n]
  <2>1. CASE l <= i
    <3>1. k \in 1 .. i /\ l \in 1 .. i /\ k \in 1 .. Len(q) /\ l \in 1 .. Len(q)
      BY <1>3, <1>4, <2>1
    <3> QED BY <1>2, <1>4, <3>1
  <2>2. CASE l = i + 1
    <3>1. k \in 1 .. i
      BY <1>4, <2>2
    <3> QED BY <1>2, <2>2, <3>1
  <2>3. CASE l > i + 1
    <3>1. l - 1 \in i + 1 .. Len(q) /\ (l - 1) + 1 = l /\ l - 1 \in 1 .. Len(q)
      BY <1>1, <1>3, <2>3
    <3>2. s[l] = q[l - 1]
      BY <1>2, <3>1
    <3>3. CASE k <= i
      <4>1. k \in 1 .. i /\ k \in 1 .. Len(q) /\ k < l - 1
        BY <1>3, <2>3, <3>3
      <4> QED BY <1>2, <3>1, <3>2, <4>1
    <3>4. CASE k = i + 1
      BY <1>2, <3>1, <3>2, <3>4
    <3>5. CASE k > i + 1
      <4>1. k - 1 \in i + 1 .. Len(q) /\ (k - 1) + 1 = k /\ k - 1 \in 1 .. Len(q) /\ k - 1 < l - 1
        BY <1>1, <1>3, <1>4, <3>1, <3>5
      <4> QED BY <1>2, <3>1, <3>2, <4>1
    <3> QED BY <3>3, <3>4, <3>5
  <2> QED BY <2>1, <2>2, <2>3
<1>5. ASSUME Distinct(q), \A e \in Elements(q) : e.id # r.id PROVE Distinct(s)
  <2> SUFFICES ASSUME NEW k \in 1 .. Len(q) + 1, NEW l \in 1 .. Len(q) + 1, k < l
               PROVE  s[k].id # s[l].id
    BY <1>3 DEF Distinct
  <2>1. CASE \E m, n \in 1 .. Len(q) : m < n /\ s[k] = q[m] /\ s[l] = q[n]
    BY <1>3, <1>5, <2>1 DEF Distinct
  <2>2. CASE \E m \in 1 .. i : s[k] = q[m] /\ s[l] = r
    BY <1>1, <1>3, <1>5, <2>2
  <2>3. CASE \E n \in i + 1 .. Len(q) : s[k] = r /\ s[l] = q[n]
    BY <1>1, <1>3, <1>5, <2>3
  <2> QED BY <1>4, <2>1, <2>2, <2>3
<1>6. ASSUME InOrder(q) PROVE InOrder(s)
  <2> SUFFICES ASSUME NEW k \in 1 .. Len(q) + 1, NEW l \in 1 .. Len(q) + 1, k < l
               PROVE  s[k].pos <= s[l].pos
    BY <1>3 DEF InOrder
  <2>1. CASE \E m, n \in 1 .. Len(q) : m < n /\ s[k] = q[m] /\ s[l] = q[n]
    BY <1>3, <1>6, <2>1 DEF InOrder
  <2>2. CASE \E m \in 1 .. i : s[k] = q[m] /\ s[l] = r
    <3>1. PICK m \in 1 .. i : s[k] = q[m] /\ s[l] = r
      BY <2>2
    <3>2. i \in 1 .. Len(q) /\ m \in 1 .. Len(q) /\ q[i].pos < r.pos
      BY <1>1, <1>3
    <3>3. q[m].pos <= q[i].pos
      <4>1. m = i \/ m < i
        OBVIOUS
      <4>2. CASE m = i
        BY <1>3, <3>2, <4>2
      <4>3. CASE m < i
        BY <1>3, <1>6, <3>2, <4>3 DEF InOrder
      <4> QED BY <4>1, <4>2, <4>3
    <3> QED BY <1>3, <3>1, <3>2, <3>3
  <2>3. CASE \E n \in i + 1 .. Len(q) : s[k] = r /\ s[l] = q[n]
    <3>1. PICK n \in i + 1 .. Len(q) : s[k] = r /\ s[l] = q[n]
      BY <2>3
    <3>2. n \in 1 .. Len(q) /\ q[n].pos >= r.pos
      BY <1>1, <1>3
    <3> QED BY <1>3, <3>1, <3>2
  <2> QED BY <1>4, <2>1, <2>2, <2>3
<1>7. Elements(s) = Elements(q) \cup {r}
  <2>1. \A k \in 1 .. Len(q) + 1 : s[k] \in Elements(q) \cup {r}
    <3> TAKE k \in 1 .. Len(q) + 1
    <3>1. CASE k <= i
      <4>1. k \in 1 .. i /\ k \in 1 .. Len(q)
        BY <1>3, <3>1
      <4> QED BY <1>2, <1>3, <4>1 DEF Elements
    <3>2. CASE k = i + 1
      <4>1. s[k] = r
        BY <1>2, <3>2
      <4> QED BY <4>1
    <3>3. CASE k > i + 1
      <4>1. k - 1 \in i + 1 .. Len(q) /\ (k - 1) + 1 = k /\ k - 1 \in 1 .. Len(q)
        BY <1>1, <1>3, <3>3
      <4>2. s[k] = q[k - 1]
        BY <1>2, <4>1
      <4>3. q[k - 1] \in Elements(q)
        BY <1>3, <4>1 DEF Elements
      <4> QED BY <4>2, <4>3
    <3> QED BY <3>1, <3>2, <3>3
  <2>2. \A k \in 1 .. Len(q) : q[k] \in Elements(s)
    <3> TAKE k \in 1 .. Len(q)
    <3>1. CASE k <= i
      <4>1. k \in 1 .. i /\ k \in DOMAIN s
        BY <1>3, <3>1
      <4> QED BY <1>2, <4>1 DEF Elements
    <3>2. CASE k > i
      <4>1. k \in i + 1 .. Len(q) /\ k + 1 \in DOMAIN s
        BY <1>1, <1>3, <3>2
      <4> QED BY <1>2, <4>1 DEF Elements
    <3> QED BY <3>1, <3>2
  <2>3. r \in Elements(s)
    <3>1. i + 1 \in DOMAIN s
      BY <1>1, <1>3
    <3> QED BY <1>2, <3>1 DEF Elements
  <2> QED BY <1>3, <2>1, <2>2, <2>3 DEF Elements
<1> QED BY <1>2, <1>5, <1>6, <1>7

\* s holds requests of q, in the same order.
Thinned(s, q) ==
  /\ s \in Lists
  /\ \A k \in DOMAIN s : \E m \in DOMAIN q : s[k] = q[m]
  /\ \A k, l \in DOMAIN s : k < l => \E m, n \in DOMAIN q : m < n /\ s[k] = q[m] /\ s[l] = q[n]

LEMMA ThinnedKeeps ==
  ASSUME NEW q, NEW s, Thinned(s, q)
  PROVE  /\ s \in Lists
         /\ Elements(s) \subseteq Elements(q)
         /\ Distinct(q) => Distinct(s)
         /\ InOrder(q) => InOrder(s)
<1>1. s \in Lists /\ Elements(s) \subseteq Elements(q)
  BY DEF Thinned, Elements
<1>2. ASSUME Distinct(q) PROVE Distinct(s)
  BY <1>2 DEF Thinned, Distinct
<1>3. ASSUME InOrder(q) PROVE InOrder(s)
  BY <1>3 DEF Thinned, InOrder
<1> QED BY <1>1, <1>2, <1>3

\* Taking the i-th request out leaves the others as they are.
LEMMA TakenOutThins ==
  ASSUME NEW q \in Lists, NEW i \in 1 .. Len(q), NEW s \in Lists,
         Len(s) = Len(q) - 1,
         \A k \in 1 .. i - 1 : s[k] = q[k],
         \A k \in i .. Len(q) - 1 : s[k] = q[k + 1]
  PROVE  /\ Thinned(s, q)
         /\ Distinct(q) => Elements(s) = Elements(q) \ {q[i]}
<1>1. /\ Len(q) \in Nat /\ DOMAIN q = 1 .. Len(q) /\ DOMAIN s = 1 .. Len(q) - 1
  BY ListType
<1>2. \A k \in 1 .. Len(q) - 1 :
        \E l \in 1 .. Len(q) : s[k] = q[l] /\ l # i /\ l = IF k < i THEN k ELSE k + 1
  <2> TAKE k \in 1 .. Len(q) - 1
  <2>1. CASE k < i
    <3>1. k \in 1 .. i - 1 /\ k \in 1 .. Len(q)
      BY <1>1, <2>1
    <3> QED BY <2>1, <3>1
  <2>2. CASE ~(k < i)
    <3>1. k \in i .. Len(q) - 1 /\ k + 1 \in 1 .. Len(q) /\ k + 1 # i
      BY <1>1, <2>2
    <3> QED BY <2>2, <3>1
  <2> QED BY <2>1, <2>2
<1>3. Thinned(s, q)
  <2>1. ASSUME NEW k \in 1 .. Len(q) - 1, NEW l \in 1 .. Len(q) - 1, k < l
        PROVE  \E m, n \in 1 .. Len(q) : m < n /\ s[k] = q[m] /\ s[l] = q[n]
    <3>1. PICK m \in 1 .. Len(q) : s[k] = q[m] /\ m = IF k < i THEN k ELSE k + 1
      BY <1>2
    <3>2. PICK n \in 1 .. Len(q) : s[l] = q[n] /\ n = IF l < i THEN l ELSE l + 1
      BY <1>2
    <3>3. m < n
      BY <1>1, <2>1, <3>1, <3>2
    <3> QED BY <3>1, <3>2, <3>3
  <2>2. \A k \in 1 .. Len(q) - 1 : \E m \in 1 .. Len(q) : s[k] = q[m]
    BY <1>2
  <2>3. /\ \A k \in DOMAIN s : \E m \in DOMAIN q : s[k] = q[m]
        /\ \A k, l \in DOMAIN s : k < l => \E m, n \in DOMAIN q : m < n /\ s[k] = q[m] /\ s[l] = q[n]
    <3>1. ASSUME NEW k \in DOMAIN s, NEW l \in DOMAIN s, k < l
          PROVE  \E m, n \in DOMAIN q : m < n /\ s[k] = q[m] /\ s[l] = q[n]
      <4>1. PICK m \in 1 .. Len(q), n \in 1 .. Len(q) : m < n /\ s[k] = q[m] /\ s[l] = q[n]
        BY <1>1, <2>1, <3>1
      <4> QED BY <1>1, <4>1
    <3>2. \A k \in DOMAIN s : \E m \in DOMAIN q : s[k] = q[m]
      BY <1>1, <2>2
    <3> QED BY <3>1, <3>2
  <2> QED BY <2>3, Zenon DEF Thinned
<1>4. ASSUME Distinct(q) PROVE Elements(s) = Elements(q) \ {q[i]}
  <2>1. \A l \in 1 .. Len(q) : l # i => q[l] # q[i]
    <3> SUFFICES ASSUME NEW l \in 1 .. Len(q), l # i PROVE q[l] # q[i]
      OBVIOUS
    <3>1. l < i \/ i < l
      BY <1>1
    <3> QED BY <1>1, <1>4, <3>1 DEF Distinct
  <2>2. \A k \in 1 .. Len(q) - 1 : s[k] \in Elements(q) \ {q[i]}
    <3> TAKE k \in 1 .. Len(q) - 1
    <3>1. PICK l \in 1 .. Len(q) : s[k] = q[l] /\ l # i
      BY <1>2
    <3> QED BY <1>1, <2>1, <3>1 DEF Elements
  <2>3. \A l \in 1 .. Len(q) : l # i => q[l] \in Elements(s)
    <3> SUFFICES ASSUME NEW l \in 1 .. Len(q), l # i PROVE q[l] \in Elements(s)
      OBVIOUS
    <3>1. CASE l < i
      <4>1. l \in 1 .. i - 1 /\ l \in DOMAIN s
        BY <1>1, <3>1
      <4> QED BY <4>1 DEF Elements
    <3>2. CASE l > i
      <4>1. l - 1 \in i .. Len(q) - 1 /\ l - 1 \in DOMAIN s /\ (l - 1) + 1 = l
        BY <1>1, <3>2
      <4>2. s[l - 1] = q[l]
        BY <4>1
      <4> QED BY <4>1, <4>2 DEF Elements
    <3> QED BY <1>1, <3>1, <3>2
  <2>4. Elements(s) \subseteq Elements(q) \ {q[i]}
    BY <1>1, <2>2 DEF Elements
  <2>5. Elements(q) \ {q[i]} \subseteq Elements(s)
    <3> SUFFICES ASSUME NEW e \in Elements(q), e # q[i] PROVE e \in Elements(s)
      OBVIOUS
    <3>1. PICK l \in 1 .. Len(q) : e = q[l]
      BY <1>1 DEF Elements
    <3> QED BY <2>3, <3>1
  <2> QED BY <2>4, <2>5
<1> QED BY <1>3, <1>4

\* The ways a request leaves a list: as the first one, as the last one, and as
\* one joined to another.
LEMMA FirstLeaves ==
  ASSUME NEW q \in Lists, q # <<>>
  PROVE  /\ 1 \in 1 .. Len(q) /\ Head(q) = q[1]
         /\ Head(q) \in Elements(q) /\ Head(q) \in Request
         /\ Thinned(Tail(q), q)
         /\ Distinct(q) => Elements(Tail(q)) = Elements(q) \ {Head(q)}
<1>1. 1 \in 1 .. Len(q) /\ Head(q) = q[1]
  BY EmptySeq DEF Lists
<1>2. Head(q) \in Elements(q) /\ Head(q) \in Request
  BY <1>1, ListType DEF Elements
<1>3. /\ Tail(q) \in Lists /\ Len(Tail(q)) = Len(q) - 1
      /\ \A k \in 1 .. 1 - 1 : Tail(q)[k] = q[k]
      /\ \A k \in 1 .. Len(q) - 1 : Tail(q)[k] = q[k + 1]
  BY HeadTailProperties DEF Lists
<1>4. Thinned(Tail(q), q) /\ (Distinct(q) => Elements(Tail(q)) = Elements(q) \ {q[1]})
  <2> DEFINE s == Tail(q)
  <2>1. /\ s \in Lists /\ Len(s) = Len(q) - 1
        /\ \A k \in 1 .. 1 - 1 : s[k] = q[k]
        /\ \A k \in 1 .. Len(q) - 1 : s[k] = q[k + 1]
    BY <1>3
  <2> HIDE DEF s
  <2>2. Thinned(s, q) /\ (Distinct(q) => Elements(s) = Elements(q) \ {q[1]})
    BY <1>1, <2>1, TakenOutThins
  <2> QED BY <2>2 DEF s
<1> QED BY <1>1, <1>2, <1>4

LEMMA LastLeaves ==
  ASSUME NEW q \in Lists, q # <<>>
  PROVE  /\ Len(q) \in 1 .. Len(q)
         /\ Last(q) \in Elements(q) /\ Last(q) \in Request
         /\ Thinned(WithoutLast(q), q)
         /\ Distinct(q) => Elements(WithoutLast(q)) = Elements(q) \ {Last(q)}
<1> DEFINE s == SubSeq(q, 1, Len(q) - 1)
<1>1. Len(q) \in 1 .. Len(q) /\ \A k \in 1 .. Len(q) : q[k] \in Request
  BY EmptySeq, ListType DEF Lists
<1>2. Last(q) \in Elements(q) /\ Last(q) \in Request
  BY <1>1, ListType DEF Last, Elements
<1>3. /\ s \in Seq(Request) /\ Len(s) = Len(q) - 1
      /\ \A k \in 1 .. Len(q) - 1 : s[k] = q[k]
  <2> DEFINE n == Len(q) - 1
  <2>1. n \in Int /\ 0 <= n /\ \A k \in 1 .. n : q[k] \in Request
    BY <1>1
  <2> HIDE DEF n
  <2>2. /\ SubSeq(q, 1, n) \in Seq(Request) /\ Len(SubSeq(q, 1, n)) = n
        /\ \A k \in 1 .. n : SubSeq(q, 1, n)[k] = q[k]
    BY <2>1, SubSeqProperties
  <2> QED BY <2>2 DEF n
<1>4. \A k \in Len(q) .. Len(q) - 1 : s[k] = q[k + 1]
  BY <1>1
<1>5. s \in Lists
  BY <1>3 DEF Lists
<1> HIDE DEF s
<1>6. Thinned(s, q) /\ (Distinct(q) => Elements(s) = Elements(q) \ {q[Len(q)]})
  BY <1>1, <1>3, <1>4, <1>5, TakenOutThins
<1> QED BY <1>1, <1>2, <1>6 DEF s, WithoutLast, Last

LEMMA JoinedLeaves ==
  ASSUME NEW q \in Lists, NEW r
  PROVE  /\ Thinned(Without(q, r), q)
         /\ Distinct(q) => Elements(Without(q, r)) = Elements(q) \ {r}
<1>1. Len(q) \in Nat /\ DOMAIN q = 1 .. Len(q)
  BY ListType
<1>2. CASE r \in Elements(q)
  <2>1. PICK i \in 1 .. Len(q) : q[i] = r /\ i = CHOOSE j \in DOMAIN q : q[j] = r
    BY <1>1, <1>2 DEF Elements
  <2>2. Without(q, r) = Unlink(q, i)
    BY <1>2, <2>1 DEF Without
  <2>3. /\ Unlink(q, i) \in Lists /\ Len(Unlink(q, i)) = Len(q) - 1
        /\ \A k \in 1 .. i - 1 : Unlink(q, i)[k] = q[k]
        /\ \A k \in i .. Len(q) - 1 : Unlink(q, i)[k] = q[k + 1]
    BY TakenOut
  <2> DEFINE s == Unlink(q, i)
  <2> HIDE DEF s
  <2>4. Thinned(s, q) /\ (Distinct(q) => Elements(s) = Elements(q) \ {q[i]})
    BY <2>3, TakenOutThins DEF s
  <2> QED BY <2>1, <2>2, <2>4 DEF s
<1>3. CASE r \notin Elements(q)
  <2>1. Without(q, r) = q /\ Elements(q) \ {r} = Elements(q)
    BY <1>3 DEF Without
  <2>2. Thinned(q, q)
    BY DEF Thinned
  <2> QED BY <2>1, <2>2
<1> QED BY <1>2, <1>3

\* A request that has grown keeps its place, and the list its order unless the
\* request has moved down past another one.
LEMMA GrowKeeps ==
  ASSUME NEW q \in Lists, NEW r \in Request, NEW s \in Request, s.id = r.id, s.pos <= r.pos,
         \A e \in Elements(q) : e.id = s.id => e = r
  PROVE  /\ Grow(q, s) \in Lists
         /\ Elements(Grow(q, s)) = (Elements(q) \ {r}) \cup (IF r \in Elements(q) THEN {s} ELSE {})
         /\ Distinct(q) => Distinct(Grow(q, s))
         /\ InOrder(q) /\ (\A t \in Elements(q) \ {r} : ~(s.pos < t.pos /\ t.pos <= r.pos))
              => InOrder(Grow(q, s))
<1>1. /\ Len(q) \in Nat /\ DOMAIN q = 1 .. Len(q)
      /\ \A k \in 1 .. Len(q) : q[k] \in Request /\ q[k] \in Elements(q)
  BY ListType DEF Elements
<1>2. PICK g : g = Grow(q, s)
  OBVIOUS
<1>3. /\ g \in Lists /\ DOMAIN g = 1 .. Len(q)
      /\ \A k \in 1 .. Len(q) : g[k] = IF q[k] = r THEN s ELSE q[k]
  <2>1. g = [k \in 1 .. Len(q) |-> IF q[k].id = s.id THEN s ELSE q[k]]
    BY <1>1, <1>2 DEF Grow
  <2>2. \A k \in 1 .. Len(q) : (IF q[k].id = s.id THEN s ELSE q[k]) \in Request
    BY <1>1
  <2>3. g \in Seq(Request)
    BY <1>1, <2>1, <2>2, IsASeq
  <2>4. \A k \in 1 .. Len(q) : q[k].id = s.id <=> q[k] = r
    BY <1>1
  <2> QED BY <2>1, <2>3, <2>4 DEF Lists
<1>4. Elements(g) = (Elements(q) \ {r}) \cup (IF r \in Elements(q) THEN {s} ELSE {})
  <2>1. Elements(g) = {g[k] : k \in 1 .. Len(q)} /\ Elements(q) = {q[k] : k \in 1 .. Len(q)}
    BY <1>1, <1>3 DEF Elements
  <2> QED BY <1>3, <2>1
<1>5. ASSUME Distinct(q) PROVE Distinct(g)
  <2>1. \A k \in 1 .. Len(q) : g[k].id = q[k].id
    BY <1>3
  <2> QED BY <1>1, <1>3, <1>5, <2>1 DEF Distinct
<1>6. ASSUME InOrder(q), \A t \in Elements(q) \ {r} : ~(s.pos < t.pos /\ t.pos <= r.pos)
      PROVE  InOrder(g)
  <2> SUFFICES ASSUME NEW k \in 1 .. Len(q), NEW l \in 1 .. Len(q), k < l
               PROVE  g[k].pos <= g[l].pos
    BY <1>3 DEF InOrder
  <2>1. /\ q[k].pos <= q[l].pos
        /\ q[k].pos \in Nat /\ q[l].pos \in Nat /\ s.pos \in Nat /\ r.pos \in Nat
    BY <1>1, <1>6, RequestType DEF InOrder
  <2>2. CASE q[k] = r
    <3>1. g[k] = s /\ (g[l] = s \/ g[l] = q[l])
      BY <1>3, <2>2
    <3> QED BY <2>1, <2>2, <3>1
  <2>3. CASE q[k] # r /\ q[l] = r
    <3>1. g[k] = q[k] /\ g[l] = s
      BY <1>3, <2>3
    <3>2. ~(s.pos < q[k].pos /\ q[k].pos <= r.pos)
      BY <1>1, <1>6, <2>3
    <3> QED BY <2>1, <2>3, <3>1, <3>2
  <2>4. CASE q[k] # r /\ q[l] # r
    <3>1. g[k] = q[k] /\ g[l] = q[l]
      BY <1>3, <2>4
    <3> QED BY <2>1, <3>1
  <2> QED BY <2>2, <2>3, <2>4
<1> QED BY <1>2, <1>3, <1>4, <1>5, <1>6

-----------------------------------------------------------------------------
(* The two lists. *)

\* No request is in the lists twice.
Once(L, U) ==
  /\ L \in Lists /\ U \in Lists
  /\ Distinct(L) /\ Distinct(U)
  /\ \A e \in Elements(L), f \in Elements(U) : e.id # f.id

\* The lists are in order and the head is between them.
Around(L, U, h) ==
  /\ InOrder(L) /\ InOrder(U)
  /\ \A e \in Elements(L) : e.pos < h
  /\ \A f \in Elements(U) : f.pos >= h

Both(L, U) == Elements(L) \cup Elements(U)

LEMMA OnceType ==
  ASSUME NEW L, NEW U, Once(L, U)
  PROVE  /\ L \in Lists /\ U \in Lists
         /\ Elements(L) \subseteq Request /\ Elements(U) \subseteq Request
         /\ \A r, s \in Both(L, U) : r.id = s.id => r = s
<1>1. L \in Lists /\ U \in Lists /\ Elements(L) \subseteq Request /\ Elements(U) \subseteq Request
  BY ListType DEF Once
<1>2. ASSUME NEW q \in Lists, Distinct(q), NEW r \in Elements(q), NEW s \in Elements(q), r.id = s.id
      PROVE  r = s
  <2>1. PICK i \in 1 .. Len(q), j \in 1 .. Len(q) : r = q[i] /\ s = q[j]
    BY ListType DEF Elements
  <2>2. i < j \/ j < i \/ i = j
    BY ListType
  <2> QED BY <1>2, <2>1, <2>2, ListType DEF Distinct
<1>3. ASSUME NEW r \in Both(L, U), NEW s \in Both(L, U), r.id = s.id PROVE r = s
  <2>1. CASE r \in Elements(L) /\ s \in Elements(L)
    BY <1>2, <1>3, <2>1 DEF Once
  <2>2. CASE r \in Elements(U) /\ s \in Elements(U)
    BY <1>2, <1>3, <2>2 DEF Once
  <2>3. CASE r \in Elements(L) /\ s \in Elements(U)
    BY <1>3, <2>3 DEF Once
  <2>4. CASE r \in Elements(U) /\ s \in Elements(L)
    BY <1>3, <2>4 DEF Once
  <2> QED BY <2>1, <2>2, <2>3, <2>4 DEF Both
<1> QED BY <1>1, <1>3

\* A new request is filed on its side of the head.
LEMMA AddToLower ==
  ASSUME NEW L, NEW U, Once(L, U), NEW h, NEW r \in Request, r.pos < h,
         \A e \in Both(L, U) : e.id # r.id
  PROVE  /\ Once(Insert(L, r), U)
         /\ Both(Insert(L, r), U) = Both(L, U) \cup {r}
         /\ Around(L, U, h) => Around(Insert(L, r), U, h)
<1>1. /\ Insert(L, r) \in Lists /\ Elements(Insert(L, r)) = Elements(L) \cup {r}
      /\ Distinct(Insert(L, r))
      /\ InOrder(L) => InOrder(Insert(L, r))
  BY InsertAdds DEF Once, Both
<1>2. Once(Insert(L, r), U)
  BY <1>1 DEF Once, Both
<1> QED BY <1>1, <1>2 DEF Around, Both

LEMMA AddToUpper ==
  ASSUME NEW L, NEW U, Once(L, U), NEW h, NEW r \in Request, r.pos >= h,
         \A e \in Both(L, U) : e.id # r.id
  PROVE  /\ Once(L, Insert(U, r))
         /\ Both(L, Insert(U, r)) = Both(L, U) \cup {r}
         /\ Around(L, U, h) => Around(L, Insert(U, r), h)
<1>1. /\ Insert(U, r) \in Lists /\ Elements(Insert(U, r)) = Elements(U) \cup {r}
      /\ Distinct(Insert(U, r))
      /\ InOrder(U) => InOrder(Insert(U, r))
  BY InsertAdds DEF Once, Both
<1>2. Once(L, Insert(U, r))
  BY <1>1 DEF Once, Both
<1> QED BY <1>1, <1>2 DEF Around, Both

\* A request that has grown disarranges the lists only by moving down past the
\* head or past another request.
LEMMA GrowInEither ==
  ASSUME NEW L, NEW U, Once(L, U), NEW h \in Nat, NEW r \in Both(L, U),
         NEW s \in Request, s.id = r.id, s.pos <= r.pos
  PROVE  /\ Once(Grow(L, s), Grow(U, s))
         /\ Both(Grow(L, s), Grow(U, s)) = (Both(L, U) \ {r}) \cup {s}
         /\ /\ Around(L, U, h)
            /\ \A x \in {h} \cup {t.pos : t \in Both(L, U) \ {r}} : ~(s.pos < x /\ x <= r.pos)
            => Around(Grow(L, s), Grow(U, s), h)
<1> DEFINE G == Grow(L, s)
           V == Grow(U, s)
           gone(q) == IF r \in Elements(q) THEN {s} ELSE {}
<1>1. /\ L \in Lists /\ U \in Lists /\ r \in Request
      /\ \A e \in Both(L, U) : e.id = s.id => e = r
  BY OnceType DEF Both
<1>2. /\ G \in Lists /\ Elements(G) = (Elements(L) \ {r}) \cup gone(L)
      /\ Distinct(G)
      /\ InOrder(L) /\ (\A t \in Elements(L) \ {r} : ~(s.pos < t.pos /\ t.pos <= r.pos)) => InOrder(G)
  BY <1>1, GrowKeeps DEF Once, Both
<1>3. /\ V \in Lists /\ Elements(V) = (Elements(U) \ {r}) \cup gone(U)
      /\ Distinct(V)
      /\ InOrder(U) /\ (\A t \in Elements(U) \ {r} : ~(s.pos < t.pos /\ t.pos <= r.pos)) => InOrder(V)
  BY <1>1, GrowKeeps DEF Once, Both
<1> HIDE DEF G, V
<1>4. ~(r \in Elements(L) /\ r \in Elements(U))
  BY DEF Once
<1>5. Once(G, V)
  <2>1. ASSUME NEW e \in Elements(G), NEW f \in Elements(V) PROVE e.id # f.id
    BY <1>1, <1>2, <1>3, <1>4 DEF Once, Both
  <2> QED BY <1>2, <1>3, <2>1 DEF Once
<1>6. Both(G, V) = (Both(L, U) \ {r}) \cup {s}
  BY <1>2, <1>3 DEF Both
<1>7. ASSUME Around(L, U, h),
             \A x \in {h} \cup {t.pos : t \in Both(L, U) \ {r}} : ~(s.pos < x /\ x <= r.pos)
      PROVE  Around(G, V, h)
  <2>1. /\ \A t \in Elements(L) \ {r} : ~(s.pos < t.pos /\ t.pos <= r.pos)
        /\ \A t \in Elements(U) \ {r} : ~(s.pos < t.pos /\ t.pos <= r.pos)
        /\ ~(s.pos < h /\ h <= r.pos)
    BY <1>7 DEF Both
  <2>2. InOrder(G) /\ InOrder(V)
    BY <1>2, <1>3, <1>7, <2>1 DEF Around
  <2>3. s.pos \in Nat /\ r.pos \in Nat
    BY <1>1, RequestType
  <2>4. ASSUME NEW e \in Elements(G) PROVE e.pos < h
    <3>1. CASE e \in Elements(L)
      BY <1>7, <3>1 DEF Around
    <3>2. CASE e = s /\ r \in Elements(L)
      BY <1>7, <2>3, <3>2 DEF Around
    <3> QED BY <1>2, <3>1, <3>2
  <2>5. ASSUME NEW f \in Elements(V) PROVE f.pos >= h
    <3>1. CASE f \in Elements(U)
      BY <1>7, <3>1 DEF Around
    <3>2. CASE f = s /\ r \in Elements(U)
      BY <1>7, <2>1, <2>3, <3>2 DEF Around
    <3> QED BY <1>3, <3>1, <3>2
  <2> QED BY <2>2, <2>4, <2>5 DEF Around
<1> QED BY <1>5, <1>6, <1>7 DEF G, V

\* Taking a request off its list leaves the lists arranged.
LEMMA ThinEither ==
  ASSUME NEW L, NEW U, Once(L, U), NEW G, NEW V, Thinned(G, L), Thinned(V, U)
  PROVE  /\ Once(G, V)
         /\ \A h : Around(L, U, h) => Around(G, V, h)
BY ThinnedKeeps DEF Once, Around

LEMMA WithoutEither ==
  ASSUME NEW L, NEW U, Once(L, U), NEW r
  PROVE  /\ Once(Without(L, r), Without(U, r))
         /\ Both(Without(L, r), Without(U, r)) = Both(L, U) \ {r}
         /\ \A h : Around(L, U, h) => Around(Without(L, r), Without(U, r), h)
<1>1. /\ Thinned(Without(L, r), L) /\ Elements(Without(L, r)) = Elements(L) \ {r}
      /\ Thinned(Without(U, r), U) /\ Elements(Without(U, r)) = Elements(U) \ {r}
  BY JoinedLeaves DEF Once
<1> QED BY <1>1, ThinEither DEF Both

LEMMA LastIsHighest ==
  ASSUME NEW q \in Lists, InOrder(q), NEW e \in Elements(q)
  PROVE  q # <<>> /\ e.pos <= Last(q).pos
<1>1. PICK k \in 1 .. Len(q) : e = q[k]
  BY ListType DEF Elements
<1>2. q # <<>> /\ Len(q) \in Nat /\ Len(q) \in 1 .. Len(q) /\ (k = Len(q) \/ k < Len(q))
  BY <1>1, ListType, EmptySeq DEF Lists
<1>3. q[k].pos \in Nat
  BY ListType, RequestType
<1>4. q[k].pos <= q[Len(q)].pos
  BY <1>2, <1>3, ListType DEF InOrder
<1> QED BY <1>1, <1>2, <1>4 DEF Last

LEMMA HeadIsLowest ==
  ASSUME NEW q \in Lists, InOrder(q), NEW e \in Elements(q)
  PROVE  q # <<>> /\ Head(q).pos <= e.pos
<1>1. PICK k \in 1 .. Len(q) : e = q[k]
  BY ListType DEF Elements
<1>2. q # <<>> /\ 1 \in 1 .. Len(q) /\ (k = 1 \/ 1 < k)
  BY <1>1, ListType, EmptySeq DEF Lists
<1>3. Head(q) = q[1] /\ q[k].pos \in Nat
  BY <1>2, FirstLeaves, ListType, RequestType
<1>4. q[1].pos <= q[k].pos
  BY <1>2, <1>3, ListType DEF InOrder
<1> QED BY <1>1, <1>2, <1>3, <1>4

\* The head moves behind the request dispatched: between the lists again,
\* unless another request starts within that one.
LEMMA LowerLeaves ==
  ASSUME NEW L, NEW U, Once(L, U), L # <<>>, NEW h \in Nat
  PROVE  /\ Last(L) \in Both(L, U) /\ Last(L) \in Request
         /\ Once(WithoutLast(L), U)
         /\ Both(WithoutLast(L), U) = Both(L, U) \ {Last(L)}
         /\ /\ Around(L, U, h)
            /\ \A t \in Both(L, U) \ {Last(L)} : ~(Last(L).pos <= t.pos /\ t.pos < Last(L).end)
            => Around(WithoutLast(L), U, Last(L).end)
<1> DEFINE r == Last(L)
           G == WithoutLast(L)
<1>1. /\ L \in Lists /\ U \in Lists /\ r \in Elements(L) /\ r \in Request
      /\ Thinned(G, L) /\ Elements(G) = Elements(L) \ {r}
  BY LastLeaves DEF Once
<1>2. Thinned(U, U)
  BY <1>1 DEF Thinned
<1> HIDE DEF r, G
<1>3. Once(G, U) /\ (Around(L, U, h) => Around(G, U, h))
  BY <1>1, <1>2, ThinEither
<1>4. r \notin Elements(U)
  BY <1>1 DEF Once
<1>5. Both(G, U) = Both(L, U) \ {r}
  BY <1>1, <1>4 DEF Both
<1>6. ASSUME Around(L, U, h), \A t \in Both(L, U) \ {r} : ~(r.pos <= t.pos /\ t.pos < r.end)
      PROVE  Around(G, U, r.end)
  <2>1. r.pos \in Nat /\ r.end \in Nat /\ r.pos < r.end /\ r.pos < h
    BY <1>1, <1>6, RequestType DEF Around
  <2>2. ASSUME NEW e \in Elements(G) PROVE e.pos < r.end
    <3>1. e \in Elements(L) /\ e \in Request
      BY <1>1, ListType
    <3>2. e.pos <= r.pos /\ e.pos \in Nat
      BY <1>1, <1>6, <3>1, LastIsHighest, RequestType DEF Around, r
    <3> QED BY <2>1, <3>2
  <2>3. ASSUME NEW f \in Elements(U) PROVE f.pos >= r.end
    <3>1. f \in Request /\ f \in Both(L, U) \ {r} /\ f.pos >= h
      BY <1>1, <1>4, <1>6, ListType DEF Around, Both
    <3>2. f.pos \in Nat /\ ~(r.pos <= f.pos /\ f.pos < r.end)
      BY <1>6, <3>1, RequestType
    <3> QED BY <2>1, <3>1, <3>2
  <2> QED BY <1>3, <1>6, <2>2, <2>3 DEF Around
<1> QED BY <1>1, <1>3, <1>5, <1>6 DEF r, G, Both

LEMMA UpperLeaves ==
  ASSUME NEW L, NEW U, Once(L, U), U # <<>>, NEW h \in Nat
  PROVE  /\ Head(U) \in Both(L, U) /\ Head(U) \in Request
         /\ Once(L, Tail(U))
         /\ Both(L, Tail(U)) = Both(L, U) \ {Head(U)}
         /\ /\ Around(L, U, h)
            /\ \A t \in Both(L, U) \ {Head(U)} : ~(Head(U).pos <= t.pos /\ t.pos < Head(U).end)
            => Around(L, Tail(U), Head(U).end)
<1> DEFINE r == Head(U)
           V == Tail(U)
<1>1. /\ L \in Lists /\ U \in Lists /\ r \in Elements(U) /\ r \in Request
      /\ Thinned(V, U) /\ Elements(V) = Elements(U) \ {r}
  BY FirstLeaves DEF Once
<1>2. Thinned(L, L)
  BY <1>1 DEF Thinned
<1> HIDE DEF r, V
<1>3. Once(L, V) /\ (Around(L, U, h) => Around(L, V, h))
  BY <1>1, <1>2, ThinEither
<1>4. r \notin Elements(L)
  BY <1>1 DEF Once
<1>5. Both(L, V) = Both(L, U) \ {r}
  BY <1>1, <1>4 DEF Both
<1>6. ASSUME Around(L, U, h), \A t \in Both(L, U) \ {r} : ~(r.pos <= t.pos /\ t.pos < r.end)
      PROVE  Around(L, V, r.end)
  <2>1. r.pos \in Nat /\ r.end \in Nat /\ r.pos < r.end /\ r.pos >= h
    BY <1>1, <1>6, RequestType DEF Around
  <2>2. ASSUME NEW e \in Elements(L) PROVE e.pos < r.end
    <3>1. e.pos \in Nat /\ e.pos < h
      BY <1>1, <1>6, ListType, RequestType DEF Around
    <3> QED BY <2>1, <3>1
  <2>3. ASSUME NEW f \in Elements(V) PROVE f.pos >= r.end
    <3>1. f \in Request /\ f \in Elements(U) /\ f \in Both(L, U) \ {r}
      BY <1>1, ListType DEF Both
    <3>2. f.pos \in Nat /\ r.pos <= f.pos /\ ~(r.pos <= f.pos /\ f.pos < r.end)
      BY <1>1, <1>6, <3>1, HeadIsLowest, RequestType DEF Around, r
    <3> QED BY <2>1, <3>2
  <2> QED BY <1>3, <1>6, <2>2, <2>3 DEF Around
<1> QED BY <1>1, <1>3, <1>5, <1>6 DEF r, V, Both

-----------------------------------------------------------------------------
(* The invariant. *)

IInv ==
  /\ Once(lower_queue, upper_queue)
  /\ disk_head \in Sectors
  /\ mode \in {"running", "draining", "exited"}
  /\ mode = "exited" => Nothing(lower_queue, upper_queue)

\* The state in the terms of the lemmas.
LEMMA WaitingBoth ==
  /\ Waiting = Both(lower_queue, upper_queue)
  /\ Waiting' = Both(lower_queue', upper_queue')
  /\ Arranged <=> Around(lower_queue, upper_queue, disk_head)
  /\ Arranged' <=> Around(lower_queue', upper_queue', disk_head')
BY DEF Waiting, Both, Arranged, Around, Elements, InOrder

LEMMA NoneWaiting ==
  /\ Once(<<>>, <<>>) /\ Both(<<>>, <<>>) = {}
  /\ \A h : Around(<<>>, <<>>, h)
  /\ \A L, U : Both(L, U) = {} => \A h : Around(L, U, h)
<1>1. <<>> \in Seq(Request) /\ DOMAIN <<>> = {}
  BY EmptySeq
<1>2. Elements(<<>>) = {}
  BY <1>1 DEF Elements
<1>3. Once(<<>>, <<>>) /\ Both(<<>>, <<>>) = {}
  BY <1>1, <1>2 DEF Once, Both, Distinct, Lists
<1>4. ASSUME NEW L, NEW U, Both(L, U) = {}, NEW h PROVE Around(L, U, h)
  <2>1. Elements(L) = {} /\ Elements(U) = {}
    BY <1>4 DEF Both
  <2>2. DOMAIN L = {} /\ DOMAIN U = {}
    BY <2>1 DEF Elements
  <2> QED BY <2>1, <2>2 DEF Around, InOrder
<1> QED BY <1>3, <1>4

LEMMA IInvInit == Init => IInv
<1>1. 0 \in Sectors
  BY GreedyAssumption DEF GreedyAssumption, Sectors
<1> QED BY <1>1, NoneWaiting DEF Init, IInv, Nothing

\* What IInv says of the requests that wait.
LEMMA WaitingType ==
  ASSUME IInv
  PROVE  /\ Waiting \subseteq Request /\ disk_head \in Nat
         /\ \A r, s \in Waiting : r.id = s.id => r = s
BY WaitingBoth, OnceType DEF IInv, Both, Sectors

\* Each operation keeps IInv, and is the abstract one.
LEMMA AddStep ==
  ASSUME IInv, NEW r \in Request, greedy_add_request(r)
  PROVE  IInv' /\ Abstract!Add(r)
<1>1. /\ Once(lower_queue, upper_queue) /\ mode = "running"
      /\ \A e \in Both(lower_queue, upper_queue) : e.id # r.id
      /\ UNCHANGED <<disk_head, mode>>
  BY WaitingBoth DEF IInv, greedy_add_request
<1>2. /\ Once(lower_queue', upper_queue')
      /\ Both(lower_queue', upper_queue') = Both(lower_queue, upper_queue) \cup {r}
      /\ Around(lower_queue, upper_queue, disk_head) => Around(lower_queue', upper_queue', disk_head)
  <2>1. CASE IsLower(r)
    <3>1. r.pos < disk_head /\ lower_queue' = Insert(lower_queue, r) /\ upper_queue' = upper_queue
      BY <2>1 DEF greedy_add_request, IsLower
    <3> QED BY <1>1, <3>1, AddToLower
  <2>2. CASE ~IsLower(r)
    <3>1. ~(r.pos < disk_head) /\ upper_queue' = Insert(upper_queue, r) /\ lower_queue' = lower_queue
      BY <2>2 DEF greedy_add_request, IsLower
    <3>2. r.pos >= disk_head
      BY <3>1, RequestType, WaitingType
    <3> QED BY <1>1, <3>1, <3>2, AddToUpper
  <2> QED BY <2>1, <2>2
<1>3. IInv'
  BY <1>1, <1>2 DEF IInv
<1>4. Arranged => Arranged'
  BY <1>1, <1>2, WaitingBoth
<1>5. Waiting' = Waiting \cup {r} /\ \A t \in Waiting : t.id # r.id
  BY <1>1, <1>2, WaitingBoth
<1> QED BY <1>1, <1>3, <1>4, <1>5 DEF Abstract!Add

LEMMA BioStep ==
  ASSUME IInv, NEW r \in Waiting, NEW x \in Sectors, merge_bio(r, x)
  PROVE  /\ IInv'
         /\ \E s \in Request : Abstract!Merge(r, s) /\ Waiting' = (Waiting \ {r}) \cup {s}
<1>1. PICK s \in Request :
        /\ s \in {[r EXCEPT !.end = x], [r EXCEPT !.pos = x]}
        /\ s.pos <= r.pos /\ r.end <= s.end
        /\ lower_queue' = Grow(lower_queue, s) /\ upper_queue' = Grow(upper_queue, s)
  BY DEF merge_bio
<1>2. r \in Request /\ s.id = r.id
  BY <1>1, WaitingType DEF Request
<1>3. mode = "running" /\ UNCHANGED <<disk_head, mode>>
  BY DEF merge_bio
<1>4. /\ Once(lower_queue', upper_queue')
      /\ Both(lower_queue', upper_queue') = (Both(lower_queue, upper_queue) \ {r}) \cup {s}
      /\ /\ Around(lower_queue, upper_queue, disk_head)
         /\ \A y \in {disk_head} \cup {t.pos : t \in Both(lower_queue, upper_queue) \ {r}} :
              ~(s.pos < y /\ y <= r.pos)
         => Around(lower_queue', upper_queue', disk_head)
  <2>1. Once(lower_queue, upper_queue) /\ disk_head \in Nat /\ r \in Both(lower_queue, upper_queue)
    BY WaitingBoth, WaitingType DEF IInv
  <2> QED BY <1>1, <1>2, <2>1, GrowInEither
<1>5. IInv'
  BY <1>3, <1>4 DEF IInv
<1>6. Waiting' = (Waiting \ {r}) \cup {s}
  BY <1>4, WaitingBoth
<1>7. /\ Arranged
      /\ \A y \in {disk_head} \cup {t.pos : t \in Waiting \ {r}} : ~Abstract!Passes(r, s, y)
      => Arranged'
  BY <1>3, <1>4, WaitingBoth DEF Abstract!Passes
<1>8. \E swallowed \in SUBSET {t \in Waiting : s.pos <= t.pos /\ t.end <= s.end} :
        Waiting' = (Waiting \ ({r} \cup swallowed)) \cup {s}
  <2>1. Waiting' = (Waiting \ ({r} \cup {})) \cup {s}
    BY <1>6
  <2> QED BY <2>1
<1>9. Abstract!Merge(r, s)
  BY <1>1, <1>2, <1>3, <1>7, <1>8 DEF Abstract!Merge
<1> QED BY <1>5, <1>6, <1>9

LEMMA JoinStep ==
  ASSUME IInv, NEW r \in Waiting, NEW next \in Waiting, greedy_merged_requests(r, next)
  PROVE  /\ IInv'
         /\ \E s \in Request : Abstract!Merge(r, s)
         /\ Arranged => Arranged'
<1> DEFINE s == Join(r, next)
           G == Grow(lower_queue, s)
           V == Grow(upper_queue, s)
           W == Both(lower_queue, upper_queue)
<1>1. /\ mode = "running" /\ UNCHANGED <<disk_head, mode>>
      /\ r.end = next.pos
      /\ lower_queue' = Without(G, next) /\ upper_queue' = Without(V, next)
  BY DEF greedy_merged_requests
<1>2. r \in Request /\ next \in Request /\ disk_head \in Nat
  BY WaitingType
<1>3. /\ r.pos \in Nat /\ r.end \in Nat /\ next.pos \in Nat /\ next.end \in Nat
      /\ r.pos < r.end /\ next.pos < next.end
  BY <1>2, RequestType
<1>4. s \in Request /\ s.id = r.id /\ s.pos = r.pos /\ s.end = next.end
  BY <1>1, <1>2, <1>3 DEF Join, Request
<1>5. next.id # r.id
  BY <1>1, <1>3, WaitingType
<1> HIDE DEF s
<1>6. /\ Once(G, V) /\ Both(G, V) = (W \ {r}) \cup {s}
      /\ Around(lower_queue, upper_queue, disk_head) => Around(G, V, disk_head)
  <2>1. Once(lower_queue, upper_queue) /\ r \in W /\ s.pos <= r.pos
    BY <1>3, <1>4, WaitingBoth DEF IInv
  <2>2. /\ Once(G, V) /\ Both(G, V) = (W \ {r}) \cup {s}
        /\ /\ Around(lower_queue, upper_queue, disk_head)
           /\ \A y \in {disk_head} \cup {t.pos : t \in W \ {r}} : ~(s.pos < y /\ y <= r.pos)
           => Around(G, V, disk_head)
    BY <1>2, <1>4, <2>1, GrowInEither
  <2>3. \A y \in {disk_head} \cup {t.pos : t \in W \ {r}} : ~(s.pos < y /\ y <= r.pos)
    <3>1. \A t \in W : t.pos \in Nat
      BY WaitingType, WaitingBoth, RequestType
    <3> QED BY <1>2, <1>3, <1>4, <3>1
  <2> QED BY <2>2, <2>3
<1> HIDE DEF G, V
<1>7. /\ Once(lower_queue', upper_queue')
      /\ Both(lower_queue', upper_queue') = Both(G, V) \ {next}
      /\ Around(G, V, disk_head) => Around(lower_queue', upper_queue', disk_head)
  BY <1>1, <1>6, WithoutEither
<1>8. IInv'
  BY <1>1, <1>7 DEF IInv
<1>9. Arranged => Arranged'
  BY <1>1, <1>6, <1>7, WaitingBoth
<1>10. Waiting' = (Waiting \ ({r} \cup {next})) \cup {s}
  BY <1>4, <1>5, <1>6, <1>7, WaitingBoth
<1>11. \E swallowed \in SUBSET {t \in Waiting : s.pos <= t.pos /\ t.end <= s.end} :
         Waiting' = (Waiting \ ({r} \cup swallowed)) \cup {s}
  <2>1. {next} \in SUBSET {t \in Waiting : s.pos <= t.pos /\ t.end <= s.end}
    BY <1>1, <1>3, <1>4
  <2> QED BY <1>10, <2>1
<1>12. Abstract!Merge(r, s)
  <2>1. s.pos <= r.pos /\ r.end <= s.end
    BY <1>1, <1>3, <1>4
  <2> QED BY <1>1, <1>4, <1>9, <1>11, <2>1 DEF Abstract!Merge
<1> QED BY <1>4, <1>8, <1>9, <1>12

-----------------------------------------------------------------------------
(* While the lists are arranged, what is dispatched is nearest. *)

\* The subtractions of greedy_dispatch do not wrap around.
LEMMA SmallMod ==
  ASSUME NEW a \in Nat, NEW w \in Nat, a < w
  PROVE  a % w = a
OBVIOUS

LEMMA DistanceFits ==
  ASSUME NEW m \in Sectors, NEW n \in Sectors, m <= n
  PROVE  (n - m) % Word = n - m
<1>1. m \in Nat /\ n \in Nat /\ Word \in Nat /\ n < Word
  BY GreedyAssumption DEF GreedyAssumption, Sectors
<1>2. n - m \in Nat /\ n - m < Word
  BY <1>1
<1> QED BY <1>1, <1>2, SmallMod

LEMMA TrueDistances ==
  ASSUME IInv, Arranged
  PROVE  /\ lower_queue # <<>> => LowerDistance = disk_head - Last(lower_queue).pos
         /\ upper_queue # <<>> => UpperDistance = Head(upper_queue).pos - disk_head
<1>1. /\ lower_queue \in Lists /\ upper_queue \in Lists /\ disk_head \in Sectors /\ disk_head \in Nat
      /\ Around(lower_queue, upper_queue, disk_head)
  BY WaitingBoth, OnceType DEF IInv, Sectors
<1>2. ASSUME lower_queue # <<>> PROVE LowerDistance = disk_head - Last(lower_queue).pos
  <2>1. Last(lower_queue) \in Request /\ Last(lower_queue).pos < disk_head
    BY <1>1, <1>2, LastLeaves DEF Around
  <2>2. Last(lower_queue).pos \in Sectors /\ Last(lower_queue).pos <= disk_head
    BY <1>1, <2>1, RequestType
  <2> QED BY <1>1, <2>2, DistanceFits DEF LowerDistance
<1>3. ASSUME upper_queue # <<>> PROVE UpperDistance = Head(upper_queue).pos - disk_head
  <2>1. Head(upper_queue) \in Request /\ Head(upper_queue).pos >= disk_head
    BY <1>1, <1>3, FirstLeaves DEF Around
  <2>2. Head(upper_queue).pos \in Sectors /\ disk_head <= Head(upper_queue).pos
    BY <1>1, <2>1, RequestType
  <2> QED BY <1>1, <2>2, DistanceFits DEF UpperDistance
<1> QED BY <1>2, <1>3

\* A request of the lower list is as far below the head as the abstract
\* distance says, and one of the upper list as far above.
LEMMA AbstractDistances ==
  ASSUME IInv, Arranged
  PROVE  /\ \A r \in Elements(lower_queue) : Abstract!Distance(r) = disk_head - r.pos
         /\ \A r \in Elements(upper_queue) : Abstract!Distance(r) = r.pos - disk_head
<1>1. /\ Elements(upper_queue) \subseteq Request /\ disk_head \in Nat
      /\ Around(lower_queue, upper_queue, disk_head)
  BY WaitingBoth, OnceType DEF IInv, Sectors
<1>2. ASSUME NEW r \in Elements(lower_queue) PROVE Abstract!Distance(r) = disk_head - r.pos
  BY <1>1 DEF Around, Abstract!Distance
<1>3. ASSUME NEW r \in Elements(upper_queue) PROVE Abstract!Distance(r) = r.pos - disk_head
  <2>1. r.pos >= disk_head /\ r.pos \in Nat
    BY <1>1, RequestType DEF Around
  <2>2. ~(r.pos < disk_head)
    BY <1>1, <2>1
  <2> QED BY <2>2 DEF Abstract!Distance
<1> QED BY <1>2, <1>3

LEMMA LowerIsNearest ==
  ASSUME IInv, Arranged, lower_queue # <<>>,
         upper_queue # <<>> => Nearer(LowerDistance, UpperDistance)
  PROVE  \A t \in Waiting : Abstract!Distance(Last(lower_queue)) <= Abstract!Distance(t)
<1> DEFINE p == Last(lower_queue)
<1>0. /\ lower_queue \in Lists /\ InOrder(lower_queue)
      /\ upper_queue \in Lists /\ InOrder(upper_queue)
      /\ disk_head \in Nat
      /\ Elements(lower_queue) \subseteq Request /\ Elements(upper_queue) \subseteq Request
  BY WaitingBoth, OnceType DEF IInv, Sectors, Around
<1>1. p \in Elements(lower_queue) /\ p \in Request /\ \A e \in Elements(lower_queue) : e.pos <= p.pos
  BY <1>0, LastLeaves, LastIsHighest
<1> HIDE DEF p
<1>2. Abstract!Distance(p) = disk_head - p.pos /\ p.pos \in Nat
  BY <1>1, AbstractDistances, RequestType
<1>3. ASSUME NEW t \in Elements(lower_queue) PROVE Abstract!Distance(p) <= Abstract!Distance(t)
  <2>1. Abstract!Distance(t) = disk_head - t.pos /\ t.pos \in Nat /\ t.pos <= p.pos
    BY <1>0, <1>1, AbstractDistances, RequestType
  <2> QED BY <1>0, <1>2, <2>1
<1>4. ASSUME NEW t \in Elements(upper_queue) PROVE Abstract!Distance(p) <= Abstract!Distance(t)
  <2> DEFINE u == Head(upper_queue)
  <2>1. upper_queue # <<>> /\ u \in Request /\ u.pos <= t.pos
    BY <1>0, <1>4, HeadIsLowest, FirstLeaves
  <2>2. disk_head - p.pos < u.pos - disk_head
    BY <2>1, TrueDistances DEF Nearer, p
  <2>3. Abstract!Distance(t) = t.pos - disk_head /\ t.pos \in Nat /\ u.pos \in Nat
    BY <1>0, <2>1, AbstractDistances, RequestType
  <2> HIDE DEF u
  <2> QED BY <1>0, <1>2, <2>1, <2>2, <2>3
<1> QED BY <1>3, <1>4 DEF Waiting, p

LEMMA UpperIsNearest ==
  ASSUME IInv, Arranged, upper_queue # <<>>,
         lower_queue # <<>> => ~Nearer(LowerDistance, UpperDistance)
  PROVE  \A t \in Waiting : Abstract!Distance(Head(upper_queue)) <= Abstract!Distance(t)
<1> DEFINE p == Head(upper_queue)
<1>0. /\ lower_queue \in Lists /\ InOrder(lower_queue)
      /\ upper_queue \in Lists /\ InOrder(upper_queue)
      /\ disk_head \in Nat
      /\ Elements(lower_queue) \subseteq Request /\ Elements(upper_queue) \subseteq Request
  BY WaitingBoth, OnceType DEF IInv, Sectors, Around
<1>1. p \in Elements(upper_queue) /\ p \in Request /\ \A e \in Elements(upper_queue) : p.pos <= e.pos
  BY <1>0, FirstLeaves, HeadIsLowest
<1> HIDE DEF p
<1>2. Abstract!Distance(p) = p.pos - disk_head /\ p.pos \in Nat
  BY <1>1, AbstractDistances, RequestType
<1>3. ASSUME NEW t \in Elements(upper_queue) PROVE Abstract!Distance(p) <= Abstract!Distance(t)
  <2>1. Abstract!Distance(t) = t.pos - disk_head /\ t.pos \in Nat /\ p.pos <= t.pos
    BY <1>0, <1>1, AbstractDistances, RequestType
  <2> QED BY <1>0, <1>2, <2>1
<1>4. ASSUME NEW t \in Elements(lower_queue) PROVE Abstract!Distance(p) <= Abstract!Distance(t)
  <2> DEFINE l == Last(lower_queue)
  <2>1. lower_queue # <<>> /\ l \in Request /\ t.pos <= l.pos
    BY <1>0, <1>4, LastIsHighest, LastLeaves
  <2>2. ~(disk_head - l.pos < p.pos - disk_head)
    BY <2>1, TrueDistances DEF Nearer, p
  <2>3. Abstract!Distance(t) = disk_head - t.pos /\ t.pos \in Nat /\ l.pos \in Nat
    BY <1>0, <2>1, AbstractDistances, RequestType
  <2> HIDE DEF l
  <2> QED BY <1>0, <1>2, <2>1, <2>2, <2>3
<1> QED BY <1>3, <1>4 DEF Waiting, p

LEMMA LowerStep ==
  ASSUME IInv, dispatch_lower
  PROVE  IInv' /\ \E r \in Waiting : Abstract!Dispatch(r)
<1> DEFINE r == Last(lower_queue)
<1>1. /\ lower_queue # <<>> /\ disk_head' = r.end /\ mode # "exited"
      /\ upper_queue # <<>> => Nearer(LowerDistance, UpperDistance)
      /\ lower_queue' = WithoutLast(lower_queue) /\ upper_queue' = upper_queue /\ mode' = mode
  BY DEF dispatch_lower
<1>2. /\ r \in Both(lower_queue, upper_queue) /\ r \in Request
      /\ Once(lower_queue', upper_queue')
      /\ Both(lower_queue', upper_queue') = Both(lower_queue, upper_queue) \ {r}
      /\ /\ Around(lower_queue, upper_queue, disk_head)
         /\ \A t \in Both(lower_queue, upper_queue) \ {r} : ~(r.pos <= t.pos /\ t.pos < r.end)
         => Around(lower_queue', upper_queue', r.end)
  BY <1>1, LowerLeaves, WaitingType DEF IInv
<1>3. Arranged => \A t \in Waiting : Abstract!Distance(r) <= Abstract!Distance(t)
  BY <1>1, LowerIsNearest
<1> HIDE DEF r
<1>4. IInv'
  BY <1>1, <1>2, RequestType DEF IInv
<1>5. r \in Waiting /\ Waiting' = Waiting \ {r}
  BY <1>2, WaitingBoth
<1>6. Arranged /\ (\A t \in Waiting \ {r} : ~Abstract!StartsWithin(t, r)) => Arranged'
  BY <1>1, <1>2, WaitingBoth DEF Abstract!StartsWithin
<1>7. Waiting' = {} => Arranged'
  BY WaitingBoth, NoneWaiting
<1>8. Abstract!Dispatch(r)
  BY <1>1, <1>3, <1>5, <1>6, <1>7 DEF Abstract!Dispatch
<1> QED BY <1>4, <1>5, <1>8

LEMMA UpperStep ==
  ASSUME IInv, dispatch_upper
  PROVE  IInv' /\ \E r \in Waiting : Abstract!Dispatch(r)
<1> DEFINE r == Head(upper_queue)
<1>1. /\ upper_queue # <<>> /\ disk_head' = r.end /\ mode # "exited"
      /\ lower_queue # <<>> => ~Nearer(LowerDistance, UpperDistance)
      /\ upper_queue' = Tail(upper_queue) /\ lower_queue' = lower_queue /\ mode' = mode
  BY DEF dispatch_upper
<1>2. /\ r \in Both(lower_queue, upper_queue) /\ r \in Request
      /\ Once(lower_queue', upper_queue')
      /\ Both(lower_queue', upper_queue') = Both(lower_queue, upper_queue) \ {r}
      /\ /\ Around(lower_queue, upper_queue, disk_head)
         /\ \A t \in Both(lower_queue, upper_queue) \ {r} : ~(r.pos <= t.pos /\ t.pos < r.end)
         => Around(lower_queue', upper_queue', r.end)
  BY <1>1, UpperLeaves, WaitingType DEF IInv
<1>3. Arranged => \A t \in Waiting : Abstract!Distance(r) <= Abstract!Distance(t)
  BY <1>1, UpperIsNearest
<1> HIDE DEF r
<1>4. IInv'
  BY <1>1, <1>2, RequestType DEF IInv
<1>5. r \in Waiting /\ Waiting' = Waiting \ {r}
  BY <1>2, WaitingBoth
<1>6. Arranged /\ (\A t \in Waiting \ {r} : ~Abstract!StartsWithin(t, r)) => Arranged'
  BY <1>1, <1>2, WaitingBoth DEF Abstract!StartsWithin
<1>7. Waiting' = {} => Arranged'
  BY WaitingBoth, NoneWaiting
<1>8. Abstract!Dispatch(r)
  BY <1>1, <1>3, <1>5, <1>6, <1>7 DEF Abstract!Dispatch
<1> QED BY <1>4, <1>5, <1>8

\* The drain, the exit and the start on an empty queue.
LEMMA SwitchStep ==
  ASSUME IInv, UNCHANGED vars \/ drain_begin \/ greedy_exit_queue \/ greedy_init_queue
  PROVE  IInv' /\ (UNCHANGED Abstract!vars \/ Abstract!Restart)
<1>1. CASE greedy_init_queue
  <2>1. /\ lower_queue = <<>> /\ upper_queue = <<>> /\ lower_queue' = <<>> /\ upper_queue' = <<>>
        /\ disk_head' = 0 /\ mode' = "running"
    BY <1>1 DEF greedy_init_queue, IInv, Nothing
  <2>2. 0 \in Sectors
    BY GreedyAssumption DEF GreedyAssumption, Sectors
  <2>3. IInv'
    BY <2>1, <2>2, NoneWaiting DEF IInv
  <2>4. Waiting = {} /\ Waiting' = {} /\ Arranged'
    BY <2>1, WaitingBoth, NoneWaiting
  <2> QED BY <2>1, <2>3, <2>4 DEF Abstract!Restart
<1>2. CASE UNCHANGED vars \/ drain_begin \/ greedy_exit_queue
  <2>1. lower_queue' = lower_queue /\ upper_queue' = upper_queue /\ disk_head' = disk_head
    BY <1>2 DEF vars, drain_begin, greedy_exit_queue
  <2>2. IInv'
    <3>1. CASE UNCHANGED vars
      BY <3>1 DEF vars, IInv
    <3>2. CASE drain_begin
      BY <2>1, <3>2 DEF drain_begin, IInv
    <3>3. CASE greedy_exit_queue
      BY <2>1, <3>3 DEF greedy_exit_queue, IInv
    <3> QED BY <1>2, <3>1, <3>2, <3>3
  <2>3. Waiting' = Waiting /\ (Arranged' <=> Arranged)
    BY <2>1, WaitingBoth
  <2>4. Arranged' = Arranged
    BY <2>1 DEF Arranged, InOrder
  <2> QED BY <2>1, <2>2, <2>3, <2>4 DEF Abstract!vars
<1> QED BY <1>1, <1>2

-----------------------------------------------------------------------------
(* The theorems. *)

LEMMA IInvStep ==
  ASSUME IInv, [Next]_vars
  PROVE  IInv'
<1>1. ASSUME NEW r \in Request, greedy_add_request(r) PROVE IInv'
  BY <1>1, AddStep
<1>2. ASSUME NEW r \in Waiting, NEW x \in Sectors, merge_bio(r, x) PROVE IInv'
  BY <1>2, BioStep
<1>3. ASSUME NEW r \in Waiting, NEW next \in Waiting, greedy_merged_requests(r, next) PROVE IInv'
  BY <1>3, JoinStep
<1>4. CASE dispatch_lower \/ dispatch_upper
  BY <1>4, LowerStep, UpperStep
<1>5. CASE UNCHANGED vars \/ drain_begin \/ greedy_exit_queue \/ greedy_init_queue
  BY <1>5, SwitchStep
<1> QED BY <1>1, <1>2, <1>3, <1>4, <1>5 DEF Next

LEMMA Inductive == Spec => []IInv
BY IInvInit, IInvStep, PTL DEF Spec

\* The lists hold requests, and the head stays on the disk, whatever overlaps.
THEOREM TypeCorrect == Spec => []TypeOK
<1>1. IInv => TypeOK
  BY DEF IInv, Once, Lists, TypeOK
<1> QED BY <1>1, Inductive, PTL

\* Two requests that wait and cover different sectors: neither starts within the
\* other.
LEMMA DisjointApart ==
  ASSUME NEW W, W \subseteq Request, Disjoint(W), NEW r \in W, NEW t \in W, r # t
  PROVE  ~(r.pos <= t.pos /\ t.pos < r.end)
<1>1. r.end <= t.pos \/ t.end <= r.pos
  BY DEF Disjoint
<1>2. /\ r.pos \in Nat /\ r.end \in Nat /\ r.pos < r.end
      /\ t.pos \in Nat /\ t.end \in Nat /\ t.pos < t.end
  BY RequestType
<1> QED BY <1>1, <1>2

LEMMA ArrangedStep ==
  ASSUME IInv, [Next]_vars, Arranged, Disjoint(Waiting), Disjoint(Waiting')
  PROVE  Arranged' \/ CrossesHead
<1>0. Waiting \subseteq Request /\ disk_head \in Nat
  BY WaitingType
<1>1. ASSUME NEW r \in Request, greedy_add_request(r) PROVE Arranged'
  BY <1>1, AddStep DEF Abstract!Add
<1>2. ASSUME NEW r \in Waiting, NEW x \in Sectors, merge_bio(r, x)
      PROVE  Arranged' \/ CrossesHead
  <2>1. PICK s \in Request : Abstract!Merge(r, s) /\ Waiting' = (Waiting \ {r}) \cup {s}
    BY <1>2, BioStep
  <2>2. /\ s.id = r.id /\ s.pos <= r.pos /\ r.end <= s.end
        /\ /\ \A y \in {disk_head} \cup {t.pos : t \in Waiting \ {r}} : ~(s.pos < y /\ y <= r.pos)
           => Arranged'
    BY <2>1 DEF Abstract!Merge, Abstract!Passes
  <2>3. CASE s.pos < disk_head /\ disk_head <= r.pos
    BY <2>1, <2>2, <2>3 DEF CrossesHead
  <2>4. CASE ~(s.pos < disk_head /\ disk_head <= r.pos)
    <3>1. ASSUME NEW t \in Waiting \ {r} PROVE ~(s.pos < t.pos /\ t.pos <= r.pos)
      <4>1. t \in Waiting' /\ s \in Waiting' /\ s # t /\ t \in Request /\ r \in Request
        BY <1>0, <2>1, <2>2, WaitingType
      <4>2. Waiting' \subseteq Request
        BY <1>0, <2>1
      <4>3. ~(s.pos <= t.pos /\ t.pos < s.end)
        BY <4>1, <4>2, DisjointApart
      <4>4. /\ s.pos \in Nat /\ s.end \in Nat /\ t.pos \in Nat
            /\ r.pos \in Nat /\ r.end \in Nat /\ r.pos < r.end
        BY <4>1, RequestType
      <4> QED BY <2>2, <4>3, <4>4
    <3> QED BY <2>2, <2>4, <3>1
  <2> QED BY <2>3, <2>4
<1>3. ASSUME NEW r \in Waiting, NEW next \in Waiting, greedy_merged_requests(r, next) PROVE Arranged'
  BY <1>3, JoinStep
<1>4. CASE dispatch_lower \/ dispatch_upper
  <2>1. PICK r \in Waiting : Abstract!Dispatch(r)
    BY <1>4, LowerStep, UpperStep
  <2>2. \A t \in Waiting \ {r} : ~Abstract!StartsWithin(t, r)
    BY <1>0, DisjointApart DEF Abstract!StartsWithin
  <2> QED BY <2>1, <2>2 DEF Abstract!Dispatch
<1>5. CASE UNCHANGED vars \/ drain_begin \/ greedy_exit_queue \/ greedy_init_queue
  BY <1>5, SwitchStep DEF Abstract!vars, Abstract!Restart
<1> QED BY <1>1, <1>2, <1>3, <1>4, <1>5 DEF Next

\* As long as the requests that wait cover different sectors, the lists stay in
\* order and on their sides of the head, so that neither unsigned distance of
\* greedy_dispatch wraps around; only a bio merged in front of the first request
\* above the head, and reaching below it, disarranges them.
THEOREM HeadBetween == Spec => StaysArranged
<1>1. IInv /\ [Next]_vars => [Arranged /\ Disjoint(Waiting) /\ Disjoint(Waiting') => Arranged' \/ CrossesHead]_vars
  BY ArrangedStep
<1> QED BY <1>1, Inductive, PTL DEF Spec, StaysArranged

LEMMA AbstractInit == Init => Abstract!Init
<1>1. ASSUME Init PROVE Waiting = {} /\ disk_head = 0 /\ Arranged
  BY <1>1, WaitingBoth, NoneWaiting DEF Init
<1>2. Arranged => Arranged = TRUE
  BY DEF Arranged, InOrder
<1> QED BY <1>1, <1>2 DEF Abstract!Init

LEMMA AbstractStep ==
  ASSUME IInv, [Next]_vars
  PROVE  [Abstract!Next]_(Abstract!vars)
<1>1. Abstract!Request = Request
  BY DEF Request, Abstract!Request
<1>2. ASSUME NEW r \in Request, greedy_add_request(r) PROVE Abstract!Next
  BY <1>1, <1>2, AddStep, Zenon DEF Abstract!Next
<1>3. ASSUME NEW r \in Waiting, NEW x \in Sectors, merge_bio(r, x) PROVE Abstract!Next
  <2>1. \E s \in Request : Abstract!Merge(r, s)
    BY <1>3, BioStep
  <2> QED BY <1>1, <2>1, Zenon DEF Abstract!Next
<1>4. ASSUME NEW r \in Waiting, NEW next \in Waiting, greedy_merged_requests(r, next)
      PROVE  Abstract!Next
  <2>1. \E s \in Request : Abstract!Merge(r, s)
    BY <1>4, JoinStep
  <2> QED BY <1>1, <2>1, Zenon DEF Abstract!Next
<1>5. CASE dispatch_lower \/ dispatch_upper
  <2>1. \E r \in Waiting : Abstract!Dispatch(r)
    BY <1>5, LowerStep, UpperStep
  <2> QED BY <2>1, Zenon DEF Abstract!Next
<1>6. CASE UNCHANGED vars \/ drain_begin \/ greedy_exit_queue \/ greedy_init_queue
  BY <1>6, SwitchStep, Zenon DEF Abstract!Next
<1> QED BY <1>2, <1>3, <1>4, <1>5, <1>6, Zenon DEF Next

\* What greedy_dispatch takes from the end of a list is a nearest request of
\* all that wait, for as long as the lists are arranged; in every case each
\* request is dispatched once, a merge loses none, and the lists are arranged
\* again when they have run empty.
THEOREM NearestFirst == Spec => ImplementsSSTF
<1>1. IInv /\ [Next]_vars => [Abstract!Next]_(Abstract!vars)
  BY AbstractStep
<1> QED BY <1>1, AbstractInit, Inductive, PTL DEF Spec, ImplementsSSTF, Abstract!Spec
=============================================================================
