------------------------- MODULE TriangleProgramProofs -------------------------
(***************************************************************************)
(* Proofs about TriangleProgram: each program, for any number of runs, of  *)
(* which any may be killed.  The invariant says how far the card is in the *)
(* triangle (Drawn) and that what is pending is the rest of what was       *)
(* queued of it (Behind), also when a program killed half way leaves the   *)
(* rest to its release.                                                    *)
(***************************************************************************)
EXTENDS TriangleProgram, SequenceTheorems, TLAPS

Registers == {"Vertex", "VertexEmit", "CommandPrimitive", "RasterFlush", "RasterClear",
              "ClearColor"}
Cmd == [register : Registers, arg : Components \cup (0 .. 4),
        vertex : (0 .. MaxRuns) \X (0 .. 3)]

\* The j-th component of a vertex that the program writes.
Kind(j) == IF (j <= 4) = (program = "main.c") THEN "Color" ELSE "Coordinate"
Component(j) == <<Kind(j), IF j <= 4 THEN j ELSE j - 4>>

\* The commands of the triangle.
Size == 30

\* The first e vertices of the triangle, and the triangle shown.
VerticesTo(e) == [v \in 1 .. e |-> Whole(v)]
Shown == <<VerticesTo(3)>>

\* A card inside vertex e + 1, of which it has o components.
InsideOf(vs, la, ts, e, o) ==
  /\ vs = VerticesTo(e)
  /\ \A j \in 1 .. o : la[Component(j)] = <<run, e + 1>>
  /\ ts = IF e = 3 THEN Shown ELSE <<>>

\* A card that has executed the first d commands of the triangle.
DrawnOf(vs, la, ts, d) ==
  \/ d = 0 /\ ts = <<>>
  \/ \E e \in 0 .. 3, o \in 0 .. 8 :
       d = 1 + 9 * e + o /\ (e = 3 => o = 0) /\ InsideOf(vs, la, ts, e, o)
  \/ d \in 29 .. 30 /\ vs = <<>> /\ ts = Shown
Drawn(d) == DrawnOf(vertices, latched, triangles, d)

\* Commands that draw nothing.
Plain == {"ClearColor", "RasterClear", "RasterFlush"}

\* What is pending is the rest of the first m commands of the triangle after the
\* first d, then commands that draw nothing.
Rest(p, t, d, m) ==
  /\ d <= m /\ m - d <= Len(p)
  /\ \A k \in 1 .. m - d : p[k] = t[d + k]
  /\ \A k \in m - d + 1 .. Len(p) : p[k].register \in Plain
Behind(d, m) == Rest(pending, DrawTriangle, d, m)

ModeInv ==
  /\ phase = "start" => mode = "closed"
  /\ phase \in {"draw", "shown", "close"} => mode = "open"
  /\ phase # "start" => mode \in {"open", "flushing"}
  /\ phase = "off" /\ mode = "flushing" => OffFlushes

SeqInv == pending \in Seq(Cmd) /\ Len(triangles) \in Nat

\* What is pending in the phases where nothing of the triangle is.
PlainInv ==
  /\ phase \in {"start", "reflush", "shown", "close"} => pending = <<>>
  /\ phase = "reflush" => triangles = <<>>
  /\ phase = "on" =>
       /\ Len(pending) <= sent
       /\ \A k \in 1 .. Len(pending) : pending[k] = graphics_on[sent - Len(pending) + k]
       /\ sent - Len(pending) >= 5 => triangles = <<>>
       /\ mode = "flushing" => sent = 6
  /\ phase = "off" => Len(pending) <= sent /\ Behind(0, 0)

\* What is pending and what the card shows in the others.
DrawInv ==
  /\ phase = "draw" => Len(pending) = sent /\ Behind(0, sent) /\ triangles = <<>>
  /\ phase = "flush" => \E d \in 0 .. Size :
       Len(pending) = Size - d /\ Behind(d, Size) /\ Drawn(d)
  /\ phase = "shown" => triangles = Shown
  /\ phase = "exit" => \E m \in 0 .. Size : \E d \in 0 .. m :
       Behind(d, m) /\ (d < m => Drawn(d))

IInv == ProgramTypeOK /\ ModeInv /\ SeqInv /\ PlainInv /\ DrawInv

-----------------------------------------------------------------------------
(* The operators the program queues its commands with. *)

\* s from place b + 1 on is t.
At(s, b, t) == \A i \in 1 .. Len(t) : s[b + i] = t[i]

\* A concatenation holds its first part, where that held things, and its second.
LEMMA Joined ==
  ASSUME NEW s \in Seq(Cmd), NEW t \in Seq(Cmd)
  PROVE  /\ s \o t \in Seq(Cmd)
         /\ Len(s \o t) = Len(s) + Len(t)
         /\ \A i \in 1 .. Len(s) : (s \o t)[i] = s[i]
         /\ At(s \o t, Len(s), t)
<1>1. /\ s \o t \in Seq(Cmd)
      /\ Len(s \o t) = Len(s) + Len(t)
      /\ \A i \in 1 .. Len(s) + Len(t) : (s \o t)[i] =
           IF i <= Len(s) THEN s[i] ELSE t[i - Len(s)]
  BY ONLY s \in Seq(Cmd), t \in Seq(Cmd), ConcatProperties, Zenon
<1>2. Len(s) \in Nat /\ Len(t) \in Nat
  BY LenProperties, Zenon
<1> QED
  BY ONLY <1>1, <1>2, SMT DEF At

\* What a slice of the first part is, it is of the concatenation.
LEMMA Kept ==
  ASSUME NEW s \in Seq(Cmd), NEW t \in Seq(Cmd), NEW u \in Seq(Cmd), NEW b \in Nat,
         b + Len(u) <= Len(s), At(s, b, u)
  PROVE  At(s \o t, b, u)
<1>1. \A i \in 1 .. Len(s) : (s \o t)[i] = s[i]
  BY Joined, Zenon
<1>2. Len(s) \in Nat /\ Len(u) \in Nat
  BY LenProperties, Zenon
<1> QED
  BY ONLY <1>1, <1>2, b \in Nat, b + Len(u) <= Len(s), At(s, b, u), SMT DEF At

\* A command is one the card knows.
LEMMA CommandIsCmd ==
  ASSUME run \in 0 .. MaxRuns, NEW reg \in Registers, NEW arg \in Components \cup (0 .. 4),
         NEW v \in 0 .. 3
  PROVE  Command(reg, arg, v) \in Cmd
BY SMT DEF Command, Cmd

\* One command is a sequence of commands.
LEMMA Single ==
  ASSUME NEW c \in Cmd
  PROVE  <<c>> \in Seq(Cmd) /\ Len(<<c>>) = 1 /\ <<c>>[1] = c
OBVIOUS

\* So are four.
LEMMA Four ==
  ASSUME NEW s, DOMAIN s = 1 .. 4, \A k \in 1 .. 4 : s[k] \in Cmd, s = [k \in 1 .. 4 |-> s[k]]
  PROVE  s \in Seq(Cmd) /\ Len(s) = 4
<1>1. s \in [1 .. 4 -> Cmd]
  OBVIOUS
<1>2. s \in Seq(Cmd)
  BY <1>1, SeqDef, 4 \in Nat
<1> QED
  BY <1>1, <1>2, LenProperties, SMT

LEMMA WriteShape ==
  ASSUME run \in 0 .. MaxRuns, NEW kind \in {"Color", "Coordinate"}, NEW v \in 0 .. 3
  PROVE  /\ Write(kind, v) \in Seq(Cmd)
         /\ Len(Write(kind, v)) = 4
         /\ \A k \in 1 .. 4 : Write(kind, v)[k] = Command("Vertex", <<kind, k>>, v)
<1>1. \A k \in 1 .. 4 : <<kind, k>> \in Components
  BY DEF Components
<1>2. \A k \in 1 .. 4 : Command("Vertex", <<kind, k>>, v) \in Cmd
  BY <1>1, CommandIsCmd DEF Registers
<1>3. /\ DOMAIN Write(kind, v) = 1 .. 4
      /\ \A k \in 1 .. 4 : Write(kind, v)[k] = Command("Vertex", <<kind, k>>, v)
      /\ Write(kind, v) = [k \in 1 .. 4 |-> Write(kind, v)[k]]
  BY Zenon DEF Write
<1>4. \A k \in 1 .. 4 : Write(kind, v)[k] \in Cmd
  BY <1>2, <1>3, Zenon
<1> QED
  BY <1>3, <1>4, Four, Zenon

\* A vertex is its eight components, then the word that emits it.
LEMMA VertexShape ==
  ASSUME run \in 0 .. MaxRuns, NEW v \in 0 .. 3
  PROVE  /\ Vertex(v) \in Seq(Cmd)
         /\ Len(Vertex(v)) = 9
         /\ \A j \in 1 .. 8 : Vertex(v)[j] = Command("Vertex", Component(j), v)
         /\ Vertex(v)[9] = Command("VertexEmit", 0, v)
<1>1. PICK a, b : /\ a \in {"Color", "Coordinate"} /\ b \in {"Color", "Coordinate"}
                  /\ Vertex(v) = (Write(a, v) \o Write(b, v)) \o Emit(v)
                  /\ \A j \in 1 .. 4 : Component(j) = <<a, j>>
                  /\ \A j \in 5 .. 8 : Component(j) = <<b, j - 4>>
  <2>1. CASE program = "main.c"
    <3>1. Vertex(v) = (Write("Color", v) \o Write("Coordinate", v)) \o Emit(v)
      BY <2>1, Zenon DEF Vertex, fifo_vertex
    <3>2. /\ \A j \in 1 .. 4 : Component(j) = <<"Color", j>>
          /\ \A j \in 5 .. 8 : Component(j) = <<"Coordinate", j - 4>>
      BY <2>1, SMT DEF Component, Kind
    <3> QED
      BY <3>1, <3>2, Zenon
  <2>2. CASE program # "main.c"
    <3>1. Vertex(v) = (Write("Coordinate", v) \o Write("Color", v)) \o Emit(v)
      BY <2>2, Zenon DEF Vertex, lab_vertex
    <3>2. /\ \A j \in 1 .. 4 : Component(j) = <<"Coordinate", j>>
          /\ \A j \in 5 .. 8 : Component(j) = <<"Color", j - 4>>
      BY <2>2, SMT DEF Component, Kind
    <3> QED
      BY <3>1, <3>2, Zenon
  <2> QED
    BY <2>1, <2>2, Zenon
<1>2. /\ Write(a, v) \in Seq(Cmd) /\ Len(Write(a, v)) = 4
      /\ \A k \in 1 .. 4 : Write(a, v)[k] = Command("Vertex", <<a, k>>, v)
      /\ Write(b, v) \in Seq(Cmd) /\ Len(Write(b, v)) = 4
      /\ \A k \in 1 .. 4 : Write(b, v)[k] = Command("Vertex", <<b, k>>, v)
  BY <1>1, WriteShape, Zenon
<1>3. Command("VertexEmit", 0, v) \in Cmd
  BY CommandIsCmd DEF Registers
<1>4. Emit(v) \in Seq(Cmd) /\ Len(Emit(v)) = 1 /\ Emit(v)[1] = Command("VertexEmit", 0, v)
  BY <1>3, Single, Zenon DEF Emit
<1> DEFINE wa == Write(a, v)
           wb == Write(b, v)
           both == wa \o wb
           em == Emit(v)
<1> HIDE DEF wa, wb, em
<1>5. wa \in Seq(Cmd) /\ Len(wa) = 4 /\ wb \in Seq(Cmd) /\ Len(wb) = 4
      /\ em \in Seq(Cmd) /\ Len(em) = 1
  BY <1>2, <1>4, Zenon DEF wa, wb, em
<1>6. /\ both \in Seq(Cmd)
      /\ Len(both) = Len(wa) + Len(wb)
      /\ \A i \in 1 .. Len(wa) : both[i] = wa[i]
      /\ At(both, Len(wa), wb)
  BY <1>5, Joined, Zenon
<1> HIDE DEF both
<1>7. /\ both \o em \in Seq(Cmd)
      /\ Len(both \o em) = Len(both) + Len(em)
      /\ \A i \in 1 .. Len(both) : (both \o em)[i] = both[i]
      /\ At(both \o em, Len(both), em)
  BY <1>5, <1>6, Joined, Zenon
<1>8. Vertex(v) = both \o em
  BY <1>1, Zenon DEF both, wa, wb, em
<1>9. \A j \in 1 .. 4 : Vertex(v)[j] = Command("Vertex", Component(j), v)
  <2>1. \A j \in 1 .. 4 : (both \o em)[j] = wa[j]
    BY ONLY <1>5, <1>6, <1>7, SMT
  <2>2. \A j \in 1 .. 4 : Vertex(v)[j] = Command("Vertex", <<a, j>>, v)
    BY <2>1, <1>8, <1>2, Zenon DEF wa
  <2> QED
    BY <2>2, <1>1, Zenon
<1>10. \A j \in 5 .. 8 : Vertex(v)[j] = Command("Vertex", Component(j), v)
  <2>1. \A j \in 5 .. 8 : j - 4 \in 1 .. 4 /\ (both \o em)[j] = wb[j - 4]
    <3>1. \A i \in 1 .. 4 : both[4 + i] = wb[i]
      BY ONLY <1>5, <1>6, SMT DEF At
    <3>2. \A j \in 5 .. 8 : (both \o em)[j] = both[j]
      BY ONLY <1>5, <1>6, <1>7, SMT
    <3>3. \A j \in 5 .. 8 : j - 4 \in 1 .. 4 /\ 4 + (j - 4) = j
      BY SMT
    <3>4. \A j \in 5 .. 8 : both[4 + (j - 4)] = wb[j - 4]
      BY <3>1, <3>3, Zenon
    <3> QED
      BY <3>2, <3>3, <3>4, Zenon
  <2>2. \A j \in 5 .. 8 : Vertex(v)[j] = Command("Vertex", <<b, j - 4>>, v)
    BY <2>1, <1>8, <1>2, Zenon DEF wb
  <2> QED
    BY <2>2, <1>1, Zenon
<1>11. Vertex(v)[9] = Command("VertexEmit", 0, v)
  <2>1. (both \o em)[9] = em[1]
    BY ONLY <1>5, <1>6, <1>7, SMT DEF At
  <2> QED
    BY <2>1, <1>8, <1>4, Zenon DEF em
<1>12. Vertex(v) \in Seq(Cmd) /\ Len(Vertex(v)) = 9
  BY ONLY <1>5, <1>6, <1>7, <1>8, SMT
<1>13. \A j \in 1 .. 8 : j \in 1 .. 4 \/ j \in 5 .. 8
  BY SMT
<1> QED
  BY <1>9, <1>10, <1>11, <1>12, <1>13, Zenon

\* The triangle is a command that opens a primitive, three vertices, and the two
\* commands that close the primitive and flush the raster.
LEMMA TriangleShape ==
  ASSUME run \in 0 .. MaxRuns
  PROVE  /\ DrawTriangle \in Seq(Cmd) /\ Len(DrawTriangle) = Size
         /\ DrawTriangle[1].register = "CommandPrimitive"
         /\ \A e \in 0 .. 2 : \A j \in 1 .. 8 :
              DrawTriangle[1 + 9 * e + j] = Command("Vertex", Component(j), e + 1)
         /\ \A e \in 0 .. 2 : DrawTriangle[10 + 9 * e].register = "VertexEmit"
         /\ DrawTriangle[29].register = "CommandPrimitive"
         /\ DrawTriangle[30].register = "RasterFlush"
<1> DEFINE first == Primitive(IF program = "main.c" THEN 1 ELSE 2)
           last == Primitive(0)
           raster == RasterFlush
           v1 == Vertex(1)
           v2 == Vertex(2)
           v3 == Vertex(3)
           s1 == first \o v1
           s2 == s1 \o v2
           s3 == s2 \o v3
           s4 == s3 \o last
           s5 == s4 \o raster
<1>1. DrawTriangle = s5
  BY Zenon DEF DrawTriangle
<1>2. /\ first \in Seq(Cmd) /\ Len(first) = 1 /\ first[1].register = "CommandPrimitive"
      /\ last \in Seq(Cmd) /\ Len(last) = 1 /\ last[1].register = "CommandPrimitive"
  <2>1. \A n \in 0 .. 2 : Command("CommandPrimitive", n, 0) \in Cmd
    BY CommandIsCmd DEF Registers
  <2>2. \A n \in 0 .. 2 : /\ Primitive(n) \in Seq(Cmd) /\ Len(Primitive(n)) = 1
                          /\ Primitive(n)[1] = Command("CommandPrimitive", n, 0)
    BY <2>1, Single, Zenon DEF Primitive
  <2>3. \A n \in 0 .. 2 : Command("CommandPrimitive", n, 0).register = "CommandPrimitive"
    BY DEF Command
  <2> QED
    BY <2>2, <2>3
<1>3. raster \in Seq(Cmd) /\ Len(raster) = 1 /\ raster[1].register = "RasterFlush"
  <2>1. Command("RasterFlush", 0, 0) \in Cmd
    BY CommandIsCmd DEF Registers
  <2>2. Command("RasterFlush", 0, 0).register = "RasterFlush"
    BY DEF Command
  <2> QED
    BY <2>1, <2>2, Single, Zenon DEF RasterFlush
<1>4. /\ v1 \in Seq(Cmd) /\ Len(v1) = 9
      /\ v2 \in Seq(Cmd) /\ Len(v2) = 9
      /\ v3 \in Seq(Cmd) /\ Len(v3) = 9
  BY VertexShape
<1> HIDE DEF first, last, raster, v1, v2, v3
<1>5. s1 \in Seq(Cmd) /\ Len(s1) = 10 /\ s1[1] = first[1] /\ At(s1, 1, v1)
  <2>1. /\ s1 \in Seq(Cmd) /\ Len(s1) = Len(first) + Len(v1)
        /\ \A i \in 1 .. Len(first) : s1[i] = first[i]
        /\ At(s1, Len(first), v1)
    BY <1>2, <1>4, Joined, Zenon
  <2> HIDE DEF s1
  <2> QED
    BY <1>2, <1>4, <2>1
<1> HIDE DEF s1
<1>6. /\ s2 \in Seq(Cmd) /\ Len(s2) = 19 /\ s2[1] = first[1]
      /\ At(s2, 1, v1) /\ At(s2, 10, v2)
  <2>1. /\ s2 \in Seq(Cmd) /\ Len(s2) = Len(s1) + Len(v2)
        /\ \A i \in 1 .. Len(s1) : s2[i] = s1[i]
        /\ At(s2, Len(s1), v2)
    BY <1>5, <1>4, Joined, Zenon
  <2>2. 1 \in Nat /\ 1 + Len(v1) <= Len(s1)
    BY ONLY <1>4, <1>5, SMT
  <2>3. At(s2, 1, v1)
    BY Kept, <1>4, <1>5, <2>2, Zenon
  <2> HIDE DEF s2
  <2>4. Len(s2) = 19 /\ s2[1] = first[1]
    BY ONLY <1>5, <1>4, <2>1, SMT
  <2> QED
    BY <1>5, <1>4, <2>1, <2>3, <2>4, Zenon
<1> HIDE DEF s2
<1>7. /\ s3 \in Seq(Cmd) /\ Len(s3) = 28 /\ s3[1] = first[1]
      /\ At(s3, 1, v1) /\ At(s3, 10, v2) /\ At(s3, 19, v3)
  <2>1. /\ s3 \in Seq(Cmd) /\ Len(s3) = Len(s2) + Len(v3)
        /\ \A i \in 1 .. Len(s2) : s3[i] = s2[i]
        /\ At(s3, Len(s2), v3)
    BY <1>6, <1>4, Joined, Zenon
  <2>2. 1 \in Nat /\ 1 + Len(v1) <= Len(s2) /\ 10 \in Nat /\ 10 + Len(v2) <= Len(s2)
    BY ONLY <1>4, <1>6, SMT
  <2>3. At(s3, 1, v1) /\ At(s3, 10, v2)
    BY Kept, <1>4, <1>6, <2>2, Zenon
  <2> HIDE DEF s3
  <2>4. Len(s3) = 28 /\ s3[1] = first[1]
    BY ONLY <1>6, <1>4, <2>1, SMT
  <2> QED
    BY <1>6, <1>4, <2>1, <2>3, <2>4, Zenon
<1> HIDE DEF s3
<1>8. /\ s4 \in Seq(Cmd) /\ Len(s4) = 29 /\ s4[1] = first[1]
      /\ At(s4, 1, v1) /\ At(s4, 10, v2) /\ At(s4, 19, v3) /\ At(s4, 28, last)
  <2>1. /\ s4 \in Seq(Cmd) /\ Len(s4) = Len(s3) + Len(last)
        /\ \A i \in 1 .. Len(s3) : s4[i] = s3[i]
        /\ At(s4, Len(s3), last)
    BY <1>7, <1>2, Joined, Zenon
  <2>2. /\ 1 \in Nat /\ 1 + Len(v1) <= Len(s3) /\ 10 \in Nat /\ 10 + Len(v2) <= Len(s3)
        /\ 19 \in Nat /\ 19 + Len(v3) <= Len(s3)
    BY ONLY <1>4, <1>7, SMT
  <2>3. At(s4, 1, v1) /\ At(s4, 10, v2) /\ At(s4, 19, v3)
    BY Kept, <1>2, <1>4, <1>7, <2>2, Zenon
  <2> HIDE DEF s4
  <2>4. Len(s4) = 29 /\ s4[1] = first[1]
    BY ONLY <1>7, <1>2, <2>1, SMT
  <2> QED
    BY <1>7, <1>2, <2>1, <2>3, <2>4, Zenon
<1> HIDE DEF s4
<1>9. /\ s5 \in Seq(Cmd) /\ Len(s5) = 30 /\ s5[1] = first[1]
      /\ At(s5, 1, v1) /\ At(s5, 10, v2) /\ At(s5, 19, v3) /\ At(s5, 28, last)
      /\ At(s5, 29, raster)
  <2>1. /\ s5 \in Seq(Cmd) /\ Len(s5) = Len(s4) + Len(raster)
        /\ \A i \in 1 .. Len(s4) : s5[i] = s4[i]
        /\ At(s5, Len(s4), raster)
    BY <1>8, <1>3, Joined, Zenon
  <2>2. /\ 1 \in Nat /\ 1 + Len(v1) <= Len(s4) /\ 10 \in Nat /\ 10 + Len(v2) <= Len(s4)
        /\ 19 \in Nat /\ 19 + Len(v3) <= Len(s4) /\ 28 \in Nat /\ 28 + Len(last) <= Len(s4)
    BY ONLY <1>2, <1>4, <1>8, SMT
  <2>3. At(s5, 1, v1) /\ At(s5, 10, v2) /\ At(s5, 19, v3) /\ At(s5, 28, last)
    BY Kept, <1>2, <1>3, <1>4, <1>8, <2>2, Zenon
  <2> HIDE DEF s5
  <2>4. Len(s5) = 30 /\ s5[1] = first[1]
    <3>1. Len(s4) = 29 /\ s4[1] = first[1] /\ Len(raster) = 1
      BY <1>8, <1>3, Zenon
    <3>2. Len(s5) = Len(s4) + Len(raster) /\ \A i \in 1 .. Len(s4) : s5[i] = s4[i]
      BY <2>1, Zenon
    <3> QED
      BY ONLY <3>1, <3>2, SMT
  <2> QED
    BY <1>8, <1>3, <2>1, <2>3, <2>4, Zenon
<1> HIDE DEF s5
<1>10. \A e \in 0 .. 2 : \A j \in 1 .. 9 : s5[1 + 9 * e + j] = Vertex(e + 1)[j]
  <2>1. \A j \in 1 .. 9 : /\ s5[1 + j] = v1[j] /\ s5[10 + j] = v2[j] /\ s5[19 + j] = v3[j]
    BY ONLY <1>4, <1>9 DEF At
  <2> QED
    BY <2>1 DEF v1, v2, v3
<1>11. \A e \in 0 .. 2 : \A j \in 1 .. 8 :
         Vertex(e + 1)[j] = Command("Vertex", Component(j), e + 1)
  <2>1. \A v \in 0 .. 3 : \A j \in 1 .. 8 :
          Vertex(v)[j] = Command("Vertex", Component(j), v)
    BY VertexShape, Zenon
  <2>2. \A e \in 0 .. 2 : e + 1 \in 0 .. 3
    BY SMT
  <2> QED
    BY <2>1, <2>2, Zenon
<1>12. \A e \in 0 .. 2 : Vertex(e + 1)[9].register = "VertexEmit"
  <2>1. \A v \in 0 .. 3 : Command("VertexEmit", 0, v).register = "VertexEmit"
    BY DEF Command
  <2>2. \A v \in 0 .. 3 : Vertex(v)[9].register = "VertexEmit"
    BY <2>1, VertexShape, Zenon
  <2> QED
    BY <2>2
<1>13. s5[29] = last[1] /\ s5[30] = raster[1]
  BY ONLY <1>9, <1>2, <1>3 DEF At
<1>14. \A e \in 0 .. 2 : \A j \in 1 .. 8 :
         s5[1 + 9 * e + j] = Command("Vertex", Component(j), e + 1)
  BY <1>10, <1>11
<1>15. \A e \in 0 .. 2 : s5[10 + 9 * e].register = "VertexEmit"
  <2>1. \A e \in 0 .. 2 : s5[1 + 9 * e + 9] = Vertex(e + 1)[9]
    BY <1>10
  <2>2. \A e \in 0 .. 2 : 1 + 9 * e + 9 = 10 + 9 * e
    BY SMT
  <2> QED
    BY <2>1, <2>2, <1>12, Zenon
<1> QED
  BY <1>1, <1>2, <1>3, <1>9, <1>13, <1>14, <1>15, Zenon DEF Size

\* Graphics on clears the raster with its fifth command and draws nothing.
LEMMA OnShape ==
  ASSUME run \in 0 .. MaxRuns
  PROVE  /\ graphics_on \in Seq(Cmd) /\ Len(graphics_on) = 6
         /\ graphics_on[5].register = "RasterClear"
         /\ \A k \in 1 .. 6 : graphics_on[k].register \in Plain
<1> DEFINE color == ClearColor
           clear == RasterClear
           raster == RasterFlush
           s1 == color \o clear
           s2 == s1 \o raster
<1>1. graphics_on = s2
  BY Zenon DEF graphics_on
<1>2. /\ color \in Seq(Cmd) /\ Len(color) = 4
      /\ \A k \in 1 .. 4 : color[k].register = "ClearColor"
  <2>1. \A k \in 1 .. 4 : Command("ClearColor", k, 0) \in Cmd
    BY CommandIsCmd DEF Registers
  <2>2. /\ DOMAIN color = 1 .. 4
        /\ \A k \in 1 .. 4 : color[k] = Command("ClearColor", k, 0)
        /\ color = [k \in 1 .. 4 |-> color[k]]
    BY Zenon DEF ClearColor
  <2>3. \A k \in 1 .. 4 : color[k] \in Cmd
    BY <2>1, <2>2, Zenon
  <2>4. \A k \in 1 .. 4 : Command("ClearColor", k, 0).register = "ClearColor"
    BY DEF Command
  <2> HIDE DEF color
  <2> QED
    BY <2>2, <2>3, <2>4, Four, Zenon
<1>3. /\ raster \in Seq(Cmd) /\ Len(raster) = 1 /\ raster[1].register = "RasterFlush"
      /\ clear \in Seq(Cmd) /\ Len(clear) = 1 /\ clear[1].register = "RasterClear"
  <2>1. Command("RasterFlush", 0, 0) \in Cmd /\ Command("RasterClear", 3, 0) \in Cmd
    BY CommandIsCmd DEF Registers
  <2>2. /\ Command("RasterFlush", 0, 0).register = "RasterFlush"
        /\ Command("RasterClear", 3, 0).register = "RasterClear"
    BY DEF Command
  <2> QED
    BY <2>1, <2>2, Single, Zenon DEF RasterFlush, RasterClear
<1> HIDE DEF color, clear, raster
<1>4. /\ s1 \in Seq(Cmd) /\ Len(s1) = Len(color) + Len(clear)
      /\ \A i \in 1 .. Len(color) : s1[i] = color[i]
      /\ At(s1, Len(color), clear)
  BY <1>2, <1>3, Joined, Zenon
<1> HIDE DEF s1
<1>5. /\ s2 \in Seq(Cmd) /\ Len(s2) = Len(s1) + Len(raster)
      /\ \A i \in 1 .. Len(s1) : s2[i] = s1[i]
      /\ At(s2, Len(s1), raster)
  BY <1>4, <1>3, Joined, Zenon
<1> HIDE DEF s2
<1>6. /\ Len(s2) = 6 /\ \A k \in 1 .. 4 : s2[k] = color[k]
      /\ s2[5] = clear[1] /\ s2[6] = raster[1]
  BY ONLY <1>2, <1>3, <1>4, <1>5 DEF At
<1>7. \A k \in 1 .. 6 : k \in 1 .. 4 \/ k = 5 \/ k = 6
  BY SMT
<1> QED
  BY <1>1, <1>2, <1>3, <1>5, <1>6, <1>7, Zenon DEF Plain

\* Graphics off clears the raster at most.
LEMMA OffShape ==
  ASSUME run \in 0 .. MaxRuns
  PROVE  /\ graphics_off \in Seq(Cmd) /\ Len(graphics_off) \in 0 .. 1
         /\ \A k \in 1 .. Len(graphics_off) : graphics_off[k].register \in Plain
         /\ ~OffFlushes => Len(graphics_off) = 0
<1>1. Command("RasterClear", 3, 0) \in Cmd
  BY CommandIsCmd DEF Registers
<1>2. /\ RasterClear \in Seq(Cmd) /\ Len(RasterClear) = 1
      /\ RasterClear[1] = Command("RasterClear", 3, 0)
  BY <1>1, Single, Zenon DEF RasterClear
<1>3. Command("RasterClear", 3, 0).register \in Plain
  BY DEF Command, Plain
<1>4. <<>> \in Seq(Cmd) /\ Len(<<>>) = 0
  OBVIOUS
<1>5. CASE program = "main.c"
  <2>1. graphics_off = RasterClear /\ OffFlushes
    BY <1>5 DEF graphics_off, OffFlushes
  <2> QED
    BY <2>1, <1>2, <1>3
<1>6. CASE program # "main.c"
  <2>1. graphics_off = <<>>
    BY <1>6 DEF graphics_off
  <2> QED
    BY <2>1, <1>4
<1> QED
  BY <1>5, <1>6

-----------------------------------------------------------------------------
(* What is pending, as commands are queued and executed. *)

\* A plain command queued leaves the rest of the triangle as it is.
LEMMA RestAppended ==
  ASSUME NEW p \in Seq(Cmd), NEW c \in Cmd, c.register \in Plain, NEW t,
         NEW d \in Nat, NEW m \in Nat, Rest(p, t, d, m)
  PROVE  Rest(Append(p, c), t, d, m)
<1>1. /\ Len(p) \in Nat /\ Len(Append(p, c)) = Len(p) + 1
      /\ Append(p, c)[Len(p) + 1] = c
      /\ \A k \in 1 .. Len(p) : Append(p, c)[k] = p[k]
  OBVIOUS
<1> DEFINE q == Append(p, c)
<1> HIDE DEF q
<1> QED
  BY <1>1, SMT DEF Rest, q

\* The next command of the triangle queued.
LEMMA RestGrown ==
  ASSUME NEW p \in Seq(Cmd), NEW t, NEW m \in Nat, t[m + 1] \in Cmd, Len(p) = m,
         Rest(p, t, 0, m)
  PROVE  Rest(Append(p, t[m + 1]), t, 0, m + 1)
<1> DEFINE c == t[m + 1]
           q == Append(p, c)
<1>1. c \in Cmd
  OBVIOUS
<1> HIDE DEF c
<1>2. /\ Len(q) = m + 1 /\ q[m + 1] = c /\ \A k \in 1 .. m : q[k] = p[k]
  BY <1>1
<1>3. \A k \in 1 .. m : p[k] = t[0 + k]
  BY SMT DEF Rest
<1> HIDE DEF q
<1>4. \A k \in 1 .. m + 1 : 0 + k = k /\ (k \in 1 .. m \/ k = m + 1)
  BY SMT
<1>5. \A k \in 1 .. m + 1 : q[k] = t[0 + k]
  BY <1>2, <1>3, <1>4, Zenon DEF c
<1>6. Rest(q, t, 0, m + 1)
  BY ONLY <1>2, <1>5, m \in Nat, SMT DEF Rest
<1> QED
  BY <1>6 DEF q, c

\* The next command of the triangle executed.
LEMMA RestPopped ==
  ASSUME NEW p \in Seq(Cmd), p # <<>>, NEW t, NEW d \in Nat, NEW m \in Nat, d < m,
         Rest(p, t, d, m)
  PROVE  Head(p) = t[d + 1] /\ Rest(Tail(p), t, d + 1, m)
<1>1. /\ Len(p) \in Nat /\ Len(p) > 0 /\ Head(p) = p[1]
      /\ Len(Tail(p)) = Len(p) - 1 /\ \A k \in 1 .. Len(p) - 1 : Tail(p)[k] = p[k + 1]
  OBVIOUS
<1>2. Head(p) = t[d + 1]
  BY <1>1, SMT DEF Rest
<1> DEFINE q == Tail(p)
<1> HIDE DEF q
<1>3. d + 1 <= m /\ m - (d + 1) <= Len(q)
  BY <1>1, SMT DEF Rest, q
<1>4. \A k \in 1 .. m - (d + 1) : q[k] = t[(d + 1) + k]
  <2> TAKE k \in 1 .. m - (d + 1)
  <2>1. k + 1 \in 1 .. m - d /\ k \in 1 .. Len(p) - 1 /\ d + (k + 1) = (d + 1) + k
    BY <1>1, SMT DEF Rest
  <2>2. p[k + 1] = t[d + (k + 1)]
    BY <2>1, Zenon DEF Rest
  <2> QED
    BY <1>1, <2>1, <2>2, Zenon DEF q
<1>5. \A k \in (m - (d + 1)) + 1 .. Len(q) : q[k].register \in Plain
  <2> TAKE k \in (m - (d + 1)) + 1 .. Len(q)
  <2>1. k + 1 \in m - d + 1 .. Len(p) /\ k \in 1 .. Len(p) - 1
    BY <1>1, SMT DEF Rest, q
  <2>2. p[k + 1].register \in Plain
    BY <2>1, Zenon DEF Rest
  <2> QED
    BY <1>1, <2>1, <2>2, Zenon DEF q
<1> QED
  BY <1>2, <1>3, <1>4, <1>5, Zenon DEF Rest, q

\* A command executed after the triangle is plain.
LEMMA RestPlain ==
  ASSUME NEW p \in Seq(Cmd), p # <<>>, NEW t, NEW m \in Nat, Rest(p, t, m, m)
  PROVE  Head(p).register \in Plain /\ Rest(Tail(p), t, m, m)
<1>1. /\ Len(p) \in Nat /\ Len(p) > 0 /\ Head(p) = p[1]
      /\ Len(Tail(p)) = Len(p) - 1 /\ \A k \in 1 .. Len(p) - 1 : Tail(p)[k] = p[k + 1]
  OBVIOUS
<1>2. \A k \in 1 .. Len(p) : p[k].register \in Plain
  BY <1>1, SMT DEF Rest
<1>3. Head(p).register \in Plain
  BY <1>1, <1>2, SMT
<1> DEFINE q == Tail(p)
<1> HIDE DEF q
<1>4. \A k \in 1 .. Len(q) : q[k].register \in Plain
  BY <1>1, <1>2, SMT DEF q
<1> QED
  BY <1>1, <1>3, <1>4, SMT DEF Rest, q

-----------------------------------------------------------------------------
(* What the card makes of a command. *)

CardTakes(c) ==
  /\ latched' = IF c.register = "Vertex" THEN [latched EXCEPT ![c.arg] = c.vertex]
                                         ELSE latched
  /\ vertices' = CASE c.register = "CommandPrimitive" -> <<>>
                   [] c.register = "VertexEmit" -> Append(vertices, latched)
                   [] OTHER -> vertices
  /\ triangles' = CASE c.register = "RasterClear" -> <<>>
                    [] Len(vertices') = 3 /\ vertices' # vertices ->
                         Append(triangles, vertices')
                    [] OTHER -> triangles

\* A plain command draws nothing.
LEMMA PlainTaken ==
  ASSUME NEW c, c.register \in Plain, CardTakes(c)
  PROVE  /\ latched' = latched /\ vertices' = vertices
         /\ triangles' = triangles \/ triangles' = <<>>
         /\ c.register = "RasterClear" => triangles' = <<>>
<1>1. c.register # "Vertex" /\ c.register # "CommandPrimitive" /\ c.register # "VertexEmit"
  BY DEF Plain
<1>2. latched' = latched /\ vertices' = vertices
  BY <1>1 DEF CardTakes
<1> QED
  BY <1>2 DEF CardTakes

\* The vertices of the triangle, as a sequence.
LEMMA VerticesGrow ==
  /\ VerticesTo(0) = <<>> /\ \A e \in 0 .. 3 : Len(VerticesTo(e)) = e
  /\ \A e \in 0 .. 2 : Append(VerticesTo(e), Whole(e + 1)) = VerticesTo(e + 1)
<1> DEFINE S == {Whole(v) : v \in Nat}
<1>1. \A e \in 0 .. 3 : /\ VerticesTo(e) \in Seq(S) /\ Len(VerticesTo(e)) = e
                        /\ \A v \in 1 .. e : VerticesTo(e)[v] = Whole(v)
  <2> TAKE e \in 0 .. 3
  <2>1. VerticesTo(e) \in [1 .. e -> S]
    BY DEF VerticesTo
  <2>2. VerticesTo(e) \in Seq(S)
    BY <2>1, SeqDef
  <2>3. DOMAIN VerticesTo(e) = 1 .. e
    BY DEF VerticesTo
  <2>4. Len(VerticesTo(e)) = e
    BY <2>2, <2>3, LenProperties, SMT
  <2>5. \A v \in 1 .. e : VerticesTo(e)[v] = Whole(v)
    BY Zenon DEF VerticesTo
  <2> QED
    BY <2>2, <2>4, <2>5, Zenon
<1>2. VerticesTo(0) = <<>>
  BY <1>1, EmptySeq, SMT
<1>3. ASSUME NEW e \in 0 .. 2
      PROVE  Append(VerticesTo(e), Whole(e + 1)) = VerticesTo(e + 1)
  <2> DEFINE s == VerticesTo(e)
             u == VerticesTo(e + 1)
             w == Whole(e + 1)
             a == Append(s, w)
  <2>1. w \in S /\ e + 1 \in 0 .. 3 /\ e \in 0 .. 3
    OBVIOUS
  <2>2. /\ s \in Seq(S) /\ Len(s) = e /\ u \in Seq(S) /\ Len(u) = e + 1
        /\ \A v \in 1 .. e : s[v] = Whole(v)
        /\ \A v \in 1 .. e + 1 : u[v] = Whole(v)
    BY <1>1, <2>1, Zenon
  <2> HIDE DEF s, u, w, S
  <2>3. /\ a \in Seq(S) /\ Len(a) = e + 1 /\ a[e + 1] = w /\ \A v \in 1 .. e : a[v] = s[v]
    BY ONLY <2>1, <2>2, SMT
  <2> HIDE DEF a
  <2>4. \A v \in 1 .. e + 1 : v \in 1 .. e \/ v = e + 1
    BY SMT
  <2>5. \A v \in 1 .. e + 1 : a[v] = u[v]
    BY <2>2, <2>3, <2>4, Zenon DEF w
  <2>6. a = u
    BY <2>2, <2>3, <2>5, SeqEqual, Zenon
  <2> QED
    BY <2>6 DEF a, s, u, w
<1> QED
  BY <1>1, <1>2, <1>3, Zenon

\* The card as it is after a command that has drawn one more of the triangle.
Drew(d) == DrawnOf(vertices', latched', triangles', d)

\* The next command of the triangle draws the next of the triangle.
LEMMA TriangleTaken ==
  ASSUME run \in 0 .. MaxRuns,
         latched \in [Components -> (0 .. MaxRuns) \X (0 .. 3)], NEW d \in 0 .. Size - 1, Drawn(d),
         CardTakes(DrawTriangle[d + 1])
  PROVE  /\ Drew(d + 1)
         /\ Len(vertices') <= 3
         /\ triangles' = triangles \/ (triangles = <<>> /\ triangles' = Shown)
<1> DEFINE c == DrawTriangle[d + 1]
<1>shape. /\ DrawTriangle[1].register = "CommandPrimitive"
          /\ \A e \in 0 .. 2 : \A j \in 1 .. 8 :
               DrawTriangle[1 + 9 * e + j] = Command("Vertex", Component(j), e + 1)
          /\ \A e \in 0 .. 2 : DrawTriangle[10 + 9 * e].register = "VertexEmit"
          /\ DrawTriangle[29].register = "CommandPrimitive"
          /\ DrawTriangle[30].register = "RasterFlush"
  BY TriangleShape, Zenon
<1>card. CardTakes(c)
  OBVIOUS
<1> HIDE DEF c
<1>opens. ASSUME c.register = "CommandPrimitive"
          PROVE  latched' = latched /\ vertices' = <<>> /\ triangles' = triangles
  <2>1. latched' = latched /\ vertices' = <<>>
    BY <1>opens, <1>card DEF CardTakes
  <2>2. Len(vertices') = 0
    BY <2>1
  <2> QED
    BY <1>opens, <1>card, <2>1, <2>2 DEF CardTakes
<1>1. CASE d = 0 /\ triangles = <<>>
  <2>1. d + 1 = 1 /\ c = DrawTriangle[1]
    BY <1>1 DEF c
  <2>2. latched' = latched /\ vertices' = <<>> /\ triangles' = triangles
    BY <2>1, <1>shape, <1>opens
  <2>3. InsideOf(vertices', latched', triangles', 0, 0)
    <3>1. vertices' = VerticesTo(0) /\ triangles' = IF 0 = 3 THEN Shown ELSE <<>>
      BY <1>1, <2>2, VerticesGrow
    <3>2. \A j \in 1 .. 0 : latched'[Component(j)] = <<run, 0 + 1>>
      BY SMT
    <3> QED
      BY <3>1, <3>2, Zenon DEF InsideOf
  <2>4. d + 1 = 1 + 9 * 0 + 0 /\ 0 \in 0 .. 3 /\ 0 \in 0 .. 8 /\ 0 # 3
    BY <2>1, SMT
  <2>5. Drew(d + 1)
    BY <2>3, <2>4, Zenon DEF Drew, DrawnOf
  <2>6. Len(vertices') = 0
    BY <2>2
  <2> QED
    BY <2>2, <2>5, <2>6
<1>2. ASSUME NEW e \in 0 .. 3, NEW o \in 0 .. 8, d = 1 + 9 * e + o, e = 3 => o = 0,
             InsideOf(vertices, latched, triangles, e, o)
      PROVE  /\ Drew(d + 1)
             /\ Len(vertices') <= 3
             /\ triangles' = triangles \/ (triangles = <<>> /\ triangles' = Shown)
  <2> USE <1>2
  <2>1. CASE e # 3 /\ o # 8
    <3>1. o + 1 \in 1 .. 8 /\ e \in 0 .. 2 /\ d + 1 = 1 + 9 * e + (o + 1)
      BY <2>1, SMT
    <3>2. c = Command("Vertex", Component(o + 1), e + 1)
      BY <3>1, <1>shape, Zenon DEF c
    <3>3. /\ c.register = "Vertex" /\ c.arg = Component(o + 1) /\ c.vertex = <<run, e + 1>>
      BY <3>2, Zenon DEF Command
    <3>4. Component(o + 1) \in Components
      BY <3>1, SMT DEF Component, Components, Kind
    <3>5. /\ latched' = [latched EXCEPT ![Component(o + 1)] = <<run, e + 1>>]
          /\ vertices' = vertices /\ triangles' = triangles
      BY <3>3, <1>card DEF CardTakes
    <3>6. \A j \in 1 .. o + 1 : latched'[Component(j)] = <<run, e + 1>>
      <4> TAKE j \in 1 .. o + 1
      <4>1. Component(j) \in Components
        <5>1. j \in 1 .. 8
          BY <3>1, SMT
        <5> QED
          BY <5>1, SMT DEF Component, Components, Kind
      <4>2. CASE j = o + 1
        BY <4>2, <3>4, <3>5
      <4>3. CASE j # o + 1
        <5>1. j \in 1 .. o
          BY <4>3, SMT
        <5>2. latched[Component(j)] = <<run, e + 1>>
          BY <5>1, Zenon DEF InsideOf
        <5> QED
          BY <4>1, <5>2, <3>5
      <4> QED
        BY <4>2, <4>3
    <3>7. InsideOf(vertices', latched', triangles', e, o + 1)
      BY <3>5, <3>6, Zenon DEF InsideOf
    <3>8. o + 1 \in 0 .. 8
      BY <3>1, SMT
    <3>9. Drew(d + 1)
      BY <2>1, <3>1, <3>7, <3>8, Zenon DEF Drew, DrawnOf
    <3>10. Len(vertices') <= 3
      <4>1. vertices' = VerticesTo(e)
        BY <3>5 DEF InsideOf
      <4> QED
        BY <4>1, VerticesGrow, SMT
    <3> QED
      BY <3>5, <3>9, <3>10
  <2>2. CASE e # 3 /\ o = 8
    <3>1. e \in 0 .. 2 /\ d + 1 = 10 + 9 * e /\ e + 1 \in 1 .. 3
      BY <2>2, SMT
    <3>2. c.register = "VertexEmit"
      BY <3>1, <1>shape, Zenon DEF c
    <3>3. latched = Whole(e + 1)
      <4>1. \A k \in Components : \E j \in 1 .. 8 : k = Component(j)
        <5> TAKE k \in Components
        <5>1. PICK a \in {"Color", "Coordinate"}, i \in 1 .. 4 : k = <<a, i>>
          BY DEF Components
        <5>2. i \in 1 .. 8 /\ i + 4 \in 1 .. 8 /\ ~(i + 4 <= 4) /\ i <= 4 /\ (i + 4) - 4 = i
          BY SMT
        <5>3. Component(i) = <<Kind(i), i>> /\ Component(i + 4) = <<Kind(i + 4), i>>
          BY <5>2 DEF Component
        <5>4. Kind(i) = a \/ Kind(i + 4) = a
          BY <5>2 DEF Kind
        <5> QED
          BY <5>1, <5>2, <5>3, <5>4, Zenon
      <4>2. \A j \in 1 .. 8 : latched[Component(j)] = <<run, e + 1>>
        BY <2>2 DEF InsideOf
      <4>3. \A k \in Components : latched[k] = <<run, e + 1>>
        <5> TAKE k \in Components
        <5>1. PICK j \in 1 .. 8 : k = Component(j)
          BY <4>1, Zenon
        <5> QED
          BY <4>2, <5>1
      <4> QED
        BY <4>3 DEF Whole
    <3>4. latched' = latched /\ vertices' = Append(vertices, latched)
      BY <3>2, <1>card DEF CardTakes
    <3>5. vertices = VerticesTo(e) /\ vertices' = VerticesTo(e + 1)
      BY <3>1, <3>3, <3>4, VerticesGrow, Zenon DEF InsideOf
    <3>6. Len(vertices) = e /\ Len(vertices') = e + 1 /\ Len(vertices') <= 3
      BY <3>1, <3>5, VerticesGrow, SMT
    <3>7. triangles = <<>>
      BY <2>2 DEF InsideOf
    <3>8. triangles' = IF e + 1 = 3 THEN Shown ELSE <<>>
      <4>1. vertices' # vertices
        BY <3>1, <3>6, SMT
      <4>2. triangles' = IF Len(vertices') = 3 THEN Append(triangles, vertices') ELSE triangles
        BY <4>1, <3>2, <1>card DEF CardTakes
      <4>3. Append(<<>>, VerticesTo(3)) = <<VerticesTo(3)>>
        OBVIOUS
      <4>4. CASE e + 1 = 3
        BY <4>2, <4>3, <4>4, <3>5, <3>6, <3>7 DEF Shown
      <4>5. CASE e + 1 # 3
        BY <4>2, <4>5, <3>6, <3>7
      <4> QED
        BY <4>4, <4>5
    <3>9. InsideOf(vertices', latched', triangles', e + 1, 0)
      <4>1. \A j \in 1 .. 0 : latched'[Component(j)] = <<run, (e + 1) + 1>>
        BY SMT
      <4> QED
        BY <4>1, <3>5, <3>8, Zenon DEF InsideOf
    <3>10. d + 1 = 1 + 9 * (e + 1) + 0 /\ e + 1 \in 0 .. 3 /\ 0 \in 0 .. 8
      BY <3>1, SMT
    <3>11. Drew(d + 1)
      BY <3>9, <3>10, Zenon DEF Drew, DrawnOf
    <3> QED
      BY <3>6, <3>7, <3>8, <3>11
  <2>3. CASE e = 3
    <3>1. d + 1 = 29 /\ c.register = "CommandPrimitive"
      BY <2>3, <1>shape DEF c
    <3>2. latched' = latched /\ vertices' = <<>> /\ triangles' = triangles
      BY <3>1, <1>opens
    <3>3. triangles = Shown
      BY <2>3 DEF InsideOf
    <3>4. 29 \in 29 .. 30 /\ Len(vertices') = 0
      BY <3>2
    <3>5. Drew(d + 1)
      BY <3>1, <3>2, <3>3, <3>4, Zenon DEF Drew, DrawnOf
    <3> QED
      BY <3>2, <3>4, <3>5
  <2> QED
    BY <2>1, <2>2, <2>3
<1>3. CASE d \in 29 .. 30 /\ vertices = <<>> /\ triangles = Shown
  <2>1. d + 1 = 30 /\ c.register = "RasterFlush"
    BY <1>3, <1>shape DEF c, Size
  <2>2. vertices' = vertices /\ triangles' = triangles
    BY <2>1, <1>card, PlainTaken DEF Plain, CardTakes
  <2>3. 30 \in 29 .. 30 /\ Len(vertices') = 0
    BY <1>3, <2>2
  <2>4. Drew(d + 1)
    BY <1>3, <2>1, <2>2, <2>3, Zenon DEF Drew, DrawnOf
  <2> QED
    BY <2>2, <2>3, <2>4
<1> QED
  BY <1>1, <1>2, <1>3, Zenon DEF Drawn, DrawnOf

-----------------------------------------------------------------------------
(* The invariant. *)

\* While program and run stay, so do the streams of commands.
LEMMA Same ==
  ASSUME program' = program, run' = run
  PROVE  /\ DrawTriangle' = DrawTriangle /\ graphics_on' = graphics_on
         /\ OffFlushes' = OffFlushes /\ Shown' = Shown
         /\ \A d \in 0 .. Size : Drawn(d)' <=> Drew(d)
<1>1. \A reg, arg, v : Command(reg, arg, v)' = Command(reg, arg, v)
  BY DEF Command
<1>2. /\ \A kind, v : Write(kind, v)' = Write(kind, v)
      /\ \A v : Emit(v)' = Emit(v)
      /\ \A n : Primitive(n)' = Primitive(n)
      /\ RasterFlush' = RasterFlush /\ RasterClear' = RasterClear /\ ClearColor' = ClearColor
  BY DEF Write, Emit, Primitive, RasterFlush, RasterClear, ClearColor, Command
<1>3. \A v : Vertex(v)' = Vertex(v)
  BY <1>2 DEF Vertex, fifo_vertex, lab_vertex
<1>4. DrawTriangle' = DrawTriangle /\ graphics_on' = graphics_on /\ OffFlushes' = OffFlushes
  BY <1>2, <1>3 DEF DrawTriangle, graphics_on, OffFlushes
<1>5. /\ \A e : VerticesTo(e)' = VerticesTo(e)
      /\ Shown' = Shown
      /\ \A j : Component(j)' = Component(j)
  BY DEF VerticesTo, Whole, Shown, Component, Kind
<1>6. \A e, o : InsideOf(vertices, latched, triangles, e, o)'
                  <=> InsideOf(vertices', latched', triangles', e, o)
  BY <1>5 DEF InsideOf
<1>7. \A d \in 0 .. Size : Drawn(d)' <=> Drew(d)
  BY <1>5, <1>6 DEF Drawn, Drew, DrawnOf
<1> QED
  BY <1>4, <1>5, <1>7

Phases == {"start", "on", "reflush", "draw", "flush", "shown", "off", "close", "exit"}

\* Every phase queues a sequence of commands.
LEMMA StreamShape ==
  run \in 0 .. MaxRuns => Stream \in Seq(Cmd) /\ Len(Stream) \in Nat
<1> SUFFICES ASSUME run \in 0 .. MaxRuns
             PROVE  Stream \in Seq(Cmd)
  BY LenProperties, Zenon
<1>1. <<>> \in Seq(Cmd)
  OBVIOUS
<1> QED
  BY <1>1, OnShape, OffShape, TriangleShape DEF Stream

LEMMA Steady ==
  ASSUME (run \in 0 .. MaxRuns)'
  PROVE  (Len(Stream) \in Nat)'
BY StreamShape, PTL

LEMMA Initiation ==
  ProgramInit => IInv
<1> SUFFICES ASSUME ProgramInit PROVE IInv
  OBVIOUS
<1> USE DEF ProgramInit, Init
<1>1. ProgramTypeOK
  <2>1. run \in 0 .. MaxRuns
    BY ProgramAssumption DEF ProgramAssumption
  <2>2. Len(Stream) \in Nat
    BY <2>1, StreamShape
  <2>3. latched \in [Components -> (0 .. MaxRuns) \X (0 .. 3)]
    BY <2>1
  <2>4. sent \in 0 .. Len(Stream)
    BY <2>2
  <2> QED
    BY <2>1, <2>3, <2>4 DEF ProgramTypeOK
<1>2. ModeInv
  BY DEF ModeInv
<1>3. SeqInv
  BY DEF SeqInv
<1>4. PlainInv
  BY DEF PlainInv
<1>5. DrawInv
  BY DEF DrawInv
<1> QED
  BY <1>1, <1>2, <1>3, <1>4, <1>5 DEF IInv

LEMMA StartStep ==
  IInv /\ start => IInv'
<1> SUFFICES ASSUME IInv, start PROVE IInv'
  OBVIOUS
<1>1. /\ phase = "start" /\ run < MaxRuns /\ run' = run + 1 /\ phase' = "on" /\ sent' = 0
      /\ mode' = "open" /\ pending' = pending /\ program' = program
      /\ latched' = latched /\ vertices' = vertices /\ triangles' = triangles
  BY DEF start, Open, GoTo, card
<1>2. pending = <<>> /\ run \in 0 .. MaxRuns
  BY <1>1 DEF IInv, PlainInv, ProgramTypeOK
<1>3. ProgramTypeOK'
  <2>1. (run \in 0 .. MaxRuns)'
    BY <1>1, <1>2, ProgramAssumption DEF ProgramAssumption
  <2>2. (Len(Stream) \in Nat)'
    BY <2>1, Steady
  <2>3. (sent \in 0 .. Len(Stream))'
    BY <1>1, <2>2
  <2> QED
    BY <1>1, <2>1, <2>3 DEF IInv, ProgramTypeOK
<1>4. ModeInv'
  BY <1>1 DEF ModeInv
<1>5. SeqInv'
  BY <1>1 DEF IInv, SeqInv
<1>6. PlainInv'
  BY <1>1, <1>2 DEF PlainInv
<1>7. DrawInv'
  BY <1>1 DEF DrawInv
<1> QED
  BY <1>3, <1>4, <1>5, <1>6, <1>7 DEF IInv

\* What the steps of the program have in common that leave the card alone.
LEMMA ProgramStep ==
  ASSUME IInv, run' = run, UNCHANGED card, mode' \in {"closed", "open", "flushing"},
         phase' \in Phases, (sent \in 0 .. Len(Stream))', pending' \in Seq(Cmd)
  PROVE  ProgramTypeOK' /\ SeqInv'
BY DEF IInv, ProgramTypeOK, SeqInv, card, Phases

\* A step to the next phase queues nothing of it yet.
LEMMA NothingSent ==
  ASSUME IInv, run' = run, sent' = 0
  PROVE  (sent \in 0 .. Len(Stream))'
<1>1. (run \in 0 .. MaxRuns)'
  BY DEF IInv, ProgramTypeOK
<1>2. (Len(Stream) \in Nat)'
  BY <1>1, Steady
<1> QED
  BY <1>2

\* A step within a phase leaves its stream.
LEMMA StreamStays ==
  ASSUME program' = program, run' = run, phase' = phase
  PROVE  Stream' = Stream
<1>1. graphics_off' = graphics_off
  BY DEF graphics_off, RasterClear, Command
<1> QED
  BY <1>1, Same DEF Stream

LEMMA QueueStep ==
  IInv /\ u_fifo_queue => IInv'
<1> SUFFICES ASSUME IInv, u_fifo_queue PROVE IInv'
  OBVIOUS
<1> DEFINE c == Stream[sent + 1]
<1>1. /\ sent < Len(Stream) /\ mode = "open" /\ mode' = mode /\ pending' = Append(pending, c)
      /\ sent' = sent + 1 /\ program' = program /\ run' = run /\ phase' = phase
      /\ UNCHANGED card
  BY DEF u_fifo_queue, Queue
<1>2. /\ run \in 0 .. MaxRuns /\ phase \in Phases /\ sent \in 0 .. Len(Stream)
      /\ pending \in Seq(Cmd) /\ Len(pending) \in Nat
  BY LenProperties DEF IInv, ProgramTypeOK, SeqInv, Phases
<1>3. Stream \in Seq(Cmd) /\ Len(Stream) \in Nat
  BY <1>2, StreamShape, Zenon
<1>4. sent + 1 \in 1 .. Len(Stream) /\ sent \in Nat
  BY <1>1, <1>2, <1>3, SMT
<1>5. c \in Cmd
  BY <1>3, <1>4, ElementOfSeq, Zenon
<1>same. /\ DrawTriangle' = DrawTriangle /\ graphics_on' = graphics_on
         /\ OffFlushes' = OffFlushes /\ Stream' = Stream
  BY <1>1, Same, StreamStays, Zenon
<1>6. /\ Append(pending, c) \in Seq(Cmd) /\ Len(Append(pending, c)) = Len(pending) + 1
      /\ Append(pending, c)[Len(pending) + 1] = c
      /\ \A k \in 1 .. Len(pending) : Append(pending, c)[k] = pending[k]
  BY <1>2, <1>5
<1>7. ProgramTypeOK' /\ SeqInv'
  <2>1. (sent \in 0 .. Len(Stream))'
    BY <1>1, <1>3, <1>4, <1>same
  <2>2. mode' \in {"closed", "open", "flushing"}
    BY <1>1
  <2> QED
    BY <1>1, <1>2, <1>6, <2>1, <2>2, ProgramStep
<1>8. ModeInv'
  BY <1>1, <1>same DEF IInv, ModeInv
<1>9. phase \in {"on", "draw", "off", "exit"}
  <2>1. CASE Stream = <<>>
    BY <2>1, <1>4
  <2>2. CASE Stream # <<>>
    BY <2>2 DEF Stream
  <2> QED
    BY <2>1, <2>2
<1> HIDE DEF c
<1>10. CASE phase = "on"
  <2>1. c = graphics_on[sent + 1] /\ Len(Stream) = 6
    BY <1>10, <1>2, OnShape DEF Stream, c
  <2>2. /\ Len(pending) <= sent
        /\ \A k \in 1 .. Len(pending) : pending[k] = graphics_on[sent - Len(pending) + k]
        /\ sent - Len(pending) >= 5 => triangles = <<>>
    BY <1>10 DEF IInv, PlainInv
  <2> DEFINE n == Len(pending)
             q == Append(pending, c)
  <2>3. n \in Nat /\ Len(q) = n + 1 /\ q[n + 1] = c /\ \A k \in 1 .. n : q[k] = pending[k]
    BY <1>2, <1>6, Zenon
  <2>4. \A k \in 1 .. n + 1 : q[k] = graphics_on[(sent + 1) - (n + 1) + k]
    <3>1. (sent + 1) - (n + 1) = sent - n /\ (sent + 1) - (n + 1) + (n + 1) = sent + 1
      BY <1>4, <2>3, SMT
    <3>2. \A k \in 1 .. n + 1 : k \in 1 .. n \/ k = n + 1
      BY <2>3, SMT
    <3> HIDE DEF q
    <3>3. \A k \in 1 .. n : q[k] = graphics_on[(sent + 1) - (n + 1) + k]
      BY <2>2, <2>3, <3>1, Zenon
    <3>4. q[n + 1] = graphics_on[(sent + 1) - (n + 1) + (n + 1)]
      BY <2>1, <2>3, <3>1, Zenon
    <3> QED
      BY <3>2, <3>3, <3>4, Zenon
  <2>5. (sent + 1) - (n + 1) = sent - n /\ n + 1 <= sent + 1
    BY <1>4, <2>2, <2>3, SMT
  <2>6. pending' = q /\ Len(pending') = n + 1
    BY <1>1, <2>3 DEF c
  <2> HIDE DEF q, n
  <2>7. /\ Len(pending') <= sent'
        /\ \A k \in 1 .. Len(pending') : pending'[k] = graphics_on'[sent' - Len(pending') + k]
    BY <1>1, <1>same, <2>4, <2>5, <2>6, Zenon
  <2>8. sent' - Len(pending') >= 5 => triangles' = <<>>
    BY <1>1, <2>2, <2>5, <2>6 DEF card, n
  <2>9. PlainInv'
    BY <1>1, <1>10, <2>7, <2>8 DEF PlainInv
  <2>10. DrawInv'
    BY <1>1, <1>10 DEF DrawInv
  <2> QED
    BY <1>7, <1>8, <2>9, <2>10 DEF IInv
<1>11. CASE phase = "draw"
  <2>1. c = DrawTriangle[sent + 1]
    BY <1>11 DEF Stream, c
  <2>2. Len(pending) = sent /\ Rest(pending, DrawTriangle, 0, sent) /\ triangles = <<>>
    BY <1>11 DEF IInv, DrawInv, Behind
  <2>3. Rest(Append(pending, c), DrawTriangle, 0, sent + 1)
    BY <1>2, <1>4, <1>5, <2>1, <2>2, RestGrown, Zenon
  <2>4. Behind(0, sent)' /\ Len(pending') = sent' /\ triangles' = <<>>
    BY <1>1, <1>6, <1>same, <2>2, <2>3 DEF Behind, c, card
  <2>5. PlainInv' /\ DrawInv'
    BY <1>1, <1>11, <2>4 DEF PlainInv, DrawInv
  <2> QED
    BY <1>7, <1>8, <2>5 DEF IInv
<1>12. CASE phase \in {"off", "exit"}
  <2>1. c.register \in Plain
    <3>1. Stream = graphics_off
      BY <1>12 DEF Stream
    <3> QED
      BY <3>1, <1>2, <1>4, OffShape, Zenon DEF c
  <2>2. ASSUME NEW d \in Nat, NEW m \in Nat, Behind(d, m)
        PROVE  Behind(d, m)'
    <3>1. Rest(Append(pending, c), DrawTriangle, d, m)
      BY <1>2, <1>5, <2>1, <2>2, RestAppended, Zenon DEF Behind
    <3> QED
      BY <1>1, <1>same, <3>1 DEF Behind, c
  <2>3. CASE phase = "off"
    <3>1. Len(pending) <= sent /\ Behind(0, 0)
      BY <2>3 DEF IInv, PlainInv
    <3>2. Behind(0, 0)'
      BY <2>2, <3>1
    <3>3. Len(pending') = Len(pending) + 1
      BY <1>1, <1>6 DEF c
    <3>4. Len(pending) + 1 <= sent + 1
      BY <1>2, <1>4, <3>1, SMT
    <3>5. PlainInv' /\ DrawInv'
      BY <1>1, <2>3, <3>2, <3>3, <3>4 DEF PlainInv, DrawInv
    <3> QED
      BY <1>7, <1>8, <3>5 DEF IInv
  <2>4. CASE phase = "exit"
    <3>0. PICK m \in 0 .. Size : \E d \in 0 .. m : Behind(d, m) /\ (d < m => Drawn(d))
      BY <2>4 DEF IInv, DrawInv
    <3>1. PICK d \in 0 .. m : Behind(d, m) /\ (d < m => Drawn(d))
      BY <3>0
    <3>2. m \in Nat /\ d \in Nat /\ d \in 0 .. Size
      BY SMT DEF Size
    <3>3. Behind(d, m)'
      BY <2>2, <3>1, <3>2
    <3>4. d < m => Drawn(d)'
      BY <1>1, <3>1, <3>2, Same DEF Drew, Drawn, card
    <3>5. DrawInv'
      BY <1>1, <2>4, <3>3, <3>4, Zenon DEF DrawInv
    <3>6. PlainInv'
      BY <1>1, <2>4 DEF PlainInv
    <3> QED
      BY <1>7, <1>8, <3>5, <3>6 DEF IInv
  <2> QED
    BY <1>12, <2>3, <2>4
<1> QED
  BY <1>9, <1>10, <1>11, <1>12

\* Where pending and the card stay, so does what is said of them.
LEMMA Unmoved ==
  ASSUME program' = program, run' = run, pending' = pending, UNCHANGED card
  PROVE  /\ \A d, m : Behind(d, m)' <=> Behind(d, m)
         /\ \A d \in 0 .. Size : Drawn(d)' <=> Drawn(d)
         /\ Shown' = Shown /\ OffFlushes' = OffFlushes /\ graphics_on' = graphics_on
BY Same, Zenon DEF Behind, Drew, Drawn, card

\* What is pending while the program leaves through its release.
Leaving == \E m \in 0 .. Size : \E d \in 0 .. m : Behind(d, m) /\ (d < m => Drawn(d))

LEMMA LeavingStays ==
  ASSUME program' = program, run' = run, pending' = pending, UNCHANGED card, Leaving
  PROVE  Leaving'
<1>1. PICK m \in 0 .. Size : \E d \in 0 .. m : Behind(d, m) /\ (d < m => Drawn(d))
  BY Zenon DEF Leaving
<1>2. PICK d \in 0 .. m : Behind(d, m) /\ (d < m => Drawn(d))
  BY <1>1, Zenon
<1>3. d \in 0 .. Size
  BY SMT DEF Size
<1>4. Behind(d, m)' /\ (d < m => Drawn(d)')
  BY <1>2, <1>3, Unmoved, Zenon
<1> QED
  BY <1>4, Zenon DEF Leaving

\* Nothing of the triangle is pending when nothing is.
LEMMA NothingBehind ==
  ASSUME pending = <<>>
  PROVE  Behind(0, 0)
<1>1. Len(pending) = 0
  OBVIOUS
<1> QED
  BY <1>1, SMT DEF Behind, Rest

LEMMA VmodeFlushStep ==
  IInv /\ vmode_flush => IInv'
<1> SUFFICES ASSUME IInv, vmode_flush PROVE IInv'
  OBVIOUS
<1>1. /\ phase \in {"on", "off", "exit"} /\ sent = Len(Stream)
      /\ phase = "on" \/ OffFlushes
      /\ mode' = "flushing" /\ pending' = pending /\ UNCHANGED <<program, run, phase, sent, card>>
  BY DEF vmode_flush, FlushBegin
<1>2. Stream' = Stream
  BY <1>1, StreamStays
<1>same. /\ phase' = phase /\ sent' = sent /\ triangles' = triangles
         /\ OffFlushes' = OffFlushes /\ graphics_on' = graphics_on
         /\ Behind(0, 0)' <=> Behind(0, 0)
  BY <1>1, Unmoved, Zenon DEF card
<1>3. ProgramTypeOK' /\ SeqInv'
  <2>1. (sent \in 0 .. Len(Stream))' /\ phase' \in Phases /\ pending' \in Seq(Cmd)
    BY <1>1, <1>2 DEF IInv, ProgramTypeOK, SeqInv, Phases
  <2> QED
    BY <1>1, <2>1, ProgramStep
<1>4. ModeInv'
  BY <1>1, <1>same DEF ModeInv
<1>5. PlainInv'
  <2>1. CASE phase = "on"
    <3>1. sent = 6
      <4>1. Stream = graphics_on
        BY <2>1 DEF Stream
      <4>2. Len(graphics_on) = 6
        BY OnShape DEF IInv, ProgramTypeOK
      <4> QED
        BY <1>1, <4>1, <4>2
    <3> QED
      BY <1>1, <2>1, <3>1, <1>same DEF IInv, PlainInv
  <2>2. CASE phase = "off"
    BY <1>1, <2>2, <1>same DEF IInv, PlainInv
  <2>3. CASE phase = "exit"
    BY <1>1, <2>3 DEF PlainInv
  <2> QED
    BY <1>1, <2>1, <2>2, <2>3
<1>6. DrawInv'
  <2>1. CASE phase = "exit"
    <3>1. Leaving
      BY <2>1 DEF IInv, DrawInv, Leaving
    <3>2. Leaving'
      BY <1>1, <3>1, LeavingStays
    <3>3. (phase = "exit" => Leaving)'
      BY <3>2, Zenon
    <3> QED
      BY <1>same, <2>1, <3>3, Zenon DEF DrawInv, Leaving
  <2>2. CASE phase # "exit"
    BY <1>1, <1>same, <2>2 DEF DrawInv
  <2> QED
    BY <2>1, <2>2
<1> QED
  BY <1>3, <1>4, <1>5, <1>6 DEF IInv

LEMMA VmodeEndStep ==
  IInv /\ vmode_end => IInv'
<1> SUFFICES ASSUME IInv, vmode_end PROVE IInv'
  OBVIOUS
<1>1. /\ phase \in {"on", "off", "exit"} /\ mode = "flushing" /\ pending = <<>>
      /\ mode' = IF phase = "exit" THEN "closed" ELSE "open"
      /\ phase' = CASE phase = "on" -> AfterOn [] phase = "off" -> "close" [] OTHER -> "start"
      /\ sent' = 0 /\ pending' = pending /\ UNCHANGED <<program, run, card>>
  BY DEF vmode_end, FlushEnd, GoTo
<1>2. Len(pending) = 0
  BY <1>1
<1>3. CASE phase = "on"
  <2>1. phase' \in {"draw", "reflush"} /\ mode' = "open"
    BY <1>1, <1>3 DEF AfterOn
  <2>2. sent = 6 /\ triangles = <<>>
    BY <1>1, <1>2, <1>3 DEF IInv, PlainInv
  <2>3. ProgramTypeOK' /\ SeqInv'
    BY <1>1, <2>1, NothingSent, ProgramStep DEF Phases, IInv, SeqInv
  <2>4. Behind(0, 0)'
    BY <1>1, NothingBehind, Unmoved
  <2>5. ModeInv' /\ PlainInv'
    BY <1>1, <2>1, <2>2 DEF ModeInv, PlainInv, card
  <2>6. DrawInv'
    BY <1>1, <1>2, <2>1, <2>2, <2>4 DEF DrawInv, card
  <2> QED
    BY <2>3, <2>5, <2>6 DEF IInv
<1>4. CASE phase \in {"off", "exit"}
  <2>1. \/ phase' = "close" /\ mode' = "open"
        \/ phase' = "start" /\ mode' = "closed"
    BY <1>1, <1>4
  <2>2. ProgramTypeOK' /\ SeqInv'
    BY <1>1, <2>1, NothingSent, ProgramStep DEF Phases, IInv, SeqInv
  <2>3. ModeInv' /\ PlainInv' /\ DrawInv'
    BY <1>1, <2>1 DEF ModeInv, PlainInv, DrawInv
  <2> QED
    BY <2>2, <2>3 DEF IInv
<1> QED
  BY <1>1, <1>3, <1>4

LEMMA Lab4OffStep ==
  IInv /\ off_GraphicsMode_lab4 => IInv'
<1> SUFFICES ASSUME IInv, off_GraphicsMode_lab4 PROVE IInv'
  OBVIOUS
<1>1. ~OffFlushes /\ UNCHANGED <<program, run, card>> /\ sent' = 0
  BY DEF off_GraphicsMode_lab4, GoTo
<1>2. CASE phase = "off"
  <2>1. phase' = "close" /\ mode' = mode /\ pending' = pending
    BY <1>2 DEF off_GraphicsMode_lab4, GoTo, vars
  <2>2. mode = "open"
    BY <1>1, <1>2 DEF IInv, ModeInv
  <2>3. pending = <<>>
    <3>1. Len(Stream) = 0
      BY <1>1, <1>2, OffShape DEF Stream, IInv, ProgramTypeOK
    <3>2. Len(pending) = 0
      BY <1>2, <3>1, LenProperties DEF IInv, PlainInv, ProgramTypeOK, SeqInv
    <3> QED
      BY <3>2, EmptySeq DEF IInv, SeqInv
  <2>4. ProgramTypeOK' /\ SeqInv'
    BY <1>1, <2>1, <2>2, NothingSent, ProgramStep DEF Phases, IInv, SeqInv
  <2>5. ModeInv' /\ PlainInv' /\ DrawInv'
    BY <1>1, <2>1, <2>2, <2>3 DEF ModeInv, PlainInv, DrawInv
  <2> QED
    BY <2>4, <2>5 DEF IInv
<1>3. CASE phase = "exit"
  <2>1. phase' = "start" /\ mode' = "closed" /\ pending' = <<>>
    BY <1>3 DEF off_GraphicsMode_lab4, GoTo, Close
  <2>2. <<>> \in Seq(Cmd)
    OBVIOUS
  <2>3. ProgramTypeOK' /\ SeqInv'
    BY <1>1, <2>1, <2>2, NothingSent, ProgramStep DEF Phases
  <2>4. ModeInv' /\ PlainInv' /\ DrawInv'
    BY <2>1 DEF ModeInv, PlainInv, DrawInv
  <2> QED
    BY <2>3, <2>4 DEF IInv
<1> QED
  BY <1>2, <1>3 DEF off_GraphicsMode_lab4

LEMMA DrawEndStep ==
  IInv /\ draw_end => IInv'
<1> SUFFICES ASSUME IInv, draw_end PROVE IInv'
  OBVIOUS
<1>1. /\ phase = "draw" /\ sent = Len(Stream) /\ phase' = "flush" /\ sent' = 0
      /\ mode' = mode /\ pending' = pending /\ UNCHANGED <<program, run, card>>
  BY DEF draw_end, GoTo, AfterDraw, vars
<1>2. sent = Size
  <2>1. Stream = DrawTriangle
    BY <1>1 DEF Stream
  <2>2. Len(DrawTriangle) = Size
    BY TriangleShape DEF IInv, ProgramTypeOK
  <2> QED
    BY <1>1, <2>1, <2>2
<1>3. mode = "open" /\ Len(pending) = Size /\ Behind(0, Size) /\ triangles = <<>>
  BY <1>1, <1>2 DEF IInv, ModeInv, DrawInv
<1>4. Drawn(0) /\ 0 \in 0 .. Size /\ Size - 0 = Size
  BY <1>3 DEF Drawn, DrawnOf, Size
<1>5. Drawn(0)' /\ Behind(0, Size)' /\ Len(pending') = Size - 0
  BY <1>1, <1>3, <1>4, Unmoved, Zenon
<1>6. ProgramTypeOK' /\ SeqInv'
  BY <1>1, <1>3, NothingSent, ProgramStep DEF Phases, IInv, SeqInv
<1>7. ModeInv' /\ PlainInv'
  BY <1>1, <1>3 DEF ModeInv, PlainInv
<1>8. (\E d \in 0 .. Size : Len(pending) = Size - d /\ Behind(d, Size) /\ Drawn(d))'
  BY <1>4, <1>5, Zenon DEF Size
<1>9. DrawInv'
  BY <1>1, <1>8 DEF DrawInv
<1> QED
  BY <1>6, <1>7, <1>9 DEF IInv

\* The flush is where the triangle is: some of it drawn, the rest pending.
Flushing == \E d \in 0 .. Size : Len(pending) = Size - d /\ Behind(d, Size) /\ Drawn(d)

LEMMA FlushingStays ==
  ASSUME program' = program, run' = run, pending' = pending, UNCHANGED card, Flushing
  PROVE  Flushing'
<1>1. PICK d \in 0 .. Size : Len(pending) = Size - d /\ Behind(d, Size) /\ Drawn(d)
  BY Zenon DEF Flushing
<1>2. Len(pending') = Size - d /\ Behind(d, Size)' /\ Drawn(d)'
  BY <1>1, Unmoved, Zenon
<1>3. Size' = Size
  BY DEF Size
<1> QED
  BY <1>2, <1>3, Zenon DEF Flushing

LEMMA FlushBeginStep ==
  IInv /\ flush_begin => IInv'
<1> SUFFICES ASSUME IInv, flush_begin PROVE IInv'
  OBVIOUS
<1>1. /\ phase \in {"reflush", "flush"} /\ mode' = "flushing" /\ pending' = pending
      /\ UNCHANGED <<program, run, phase, sent, card>>
  BY DEF flush_begin, FlushBegin
<1>2. Stream' = Stream
  BY <1>1, StreamStays
<1>3. ProgramTypeOK' /\ SeqInv'
  <2>1. (sent \in 0 .. Len(Stream))' /\ phase' \in Phases /\ pending' \in Seq(Cmd)
    BY <1>1, <1>2 DEF IInv, ProgramTypeOK, SeqInv, Phases
  <2> QED
    BY <1>1, <2>1, ProgramStep
<1>4. ModeInv' /\ PlainInv'
  BY <1>1 DEF IInv, ModeInv, PlainInv, card
<1>5. DrawInv'
  <2>1. CASE phase = "flush"
    <3>1. Flushing
      BY <2>1 DEF IInv, DrawInv, Flushing
    <3>2. Flushing'
      BY <1>1, <3>1, FlushingStays
    <3> QED
      BY <1>1, <2>1, <3>2 DEF DrawInv, Flushing
  <2>2. CASE phase = "reflush"
    BY <1>1, <2>2 DEF DrawInv
  <2> QED
    BY <1>1, <2>1, <2>2
<1> QED
  BY <1>3, <1>4, <1>5 DEF IInv

\* A flush that ends has drawn the triangle.
LEMMA AllDrawn ==
  ASSUME Flushing, pending = <<>>
  PROVE  triangles = Shown
<1>1. PICK d \in 0 .. Size : Len(pending) = Size - d /\ Drawn(d)
  BY Zenon DEF Flushing
<1>2. d = 30
  <2>1. Len(pending) = 0
    OBVIOUS
  <2> QED
    BY <1>1, <2>1 DEF Size
<1>3. ~\E e \in 0 .. 3, o \in 0 .. 8 : 30 = 1 + 9 * e + o /\ (e = 3 => o = 0)
  BY SMT
<1> QED
  BY <1>1, <1>2, <1>3 DEF Drawn, DrawnOf

LEMMA FlushEndStep ==
  IInv /\ flush_end => IInv'
<1> SUFFICES ASSUME IInv, flush_end PROVE IInv'
  OBVIOUS
<1>1. /\ phase \in {"reflush", "flush"} /\ mode' = "open" /\ pending = <<>>
      /\ pending' = pending /\ sent' = 0
      /\ phase' = IF phase = "flush" THEN "shown" ELSE "draw"
      /\ UNCHANGED <<program, run, card>>
  BY DEF flush_end, FlushEnd, GoTo
<1>2. ProgramTypeOK' /\ SeqInv'
  BY <1>1, NothingSent, ProgramStep DEF Phases, IInv, SeqInv
<1>3. CASE phase = "flush"
  <2>1. triangles = Shown
    BY <1>1, <1>3, AllDrawn DEF IInv, DrawInv, Flushing
  <2>2. triangles' = Shown' /\ phase' = "shown"
    BY <1>1, <1>3, <2>1, Unmoved DEF card
  <2>3. ModeInv' /\ PlainInv' /\ DrawInv'
    BY <1>1, <2>2 DEF ModeInv, PlainInv, DrawInv
  <2> QED
    BY <1>2, <2>3 DEF IInv
<1>4. CASE phase = "reflush"
  <2>1. triangles = <<>> /\ phase' = "draw"
    BY <1>1, <1>4 DEF IInv, PlainInv
  <2>2. Behind(0, 0)'
    BY <1>1, NothingBehind, Unmoved
  <2>3. Len(pending') = 0
    BY <1>1
  <2>4. DrawInv'
    BY <1>1, <2>1, <2>2, <2>3 DEF DrawInv, card
  <2>5. ModeInv' /\ PlainInv'
    BY <1>1, <2>1 DEF ModeInv, PlainInv
  <2> QED
    BY <1>2, <2>4, <2>5 DEF IInv
<1> QED
  BY <1>1, <1>3, <1>4

LEMMA SleepEndStep ==
  IInv /\ sleep_end => IInv'
<1> SUFFICES ASSUME IInv, sleep_end PROVE IInv'
  OBVIOUS
<1>1. /\ phase = "shown" /\ phase' = "off" /\ sent' = 0 /\ mode' = mode
      /\ pending' = pending /\ UNCHANGED <<program, run, card>>
  BY DEF sleep_end, GoTo, vars
<1>2. mode = "open" /\ pending = <<>> /\ Len(pending) = 0
  BY <1>1 DEF IInv, ModeInv, PlainInv
<1>3. ProgramTypeOK' /\ SeqInv'
  BY <1>1, <1>2, NothingSent, ProgramStep DEF Phases, IInv, SeqInv
<1>4. Behind(0, 0)'
  BY <1>1, <1>2, NothingBehind, Unmoved
<1>5. ModeInv' /\ PlainInv' /\ DrawInv'
  BY <1>1, <1>2, <1>4 DEF ModeInv, PlainInv, DrawInv
<1> QED
  BY <1>3, <1>5 DEF IInv

LEMMA CloseStep ==
  IInv /\ close => IInv'
<1> SUFFICES ASSUME IInv, close PROVE IInv'
  OBVIOUS
<1>1. phase = "close" /\ sent' = 0 /\ UNCHANGED <<program, run, card>>
  BY DEF close, GoTo
<1>2. mode = "open" /\ pending = <<>> /\ Len(pending) = 0
  BY <1>1 DEF IInv, ModeInv, PlainInv
<1>3. /\ pending' = pending
      /\ \/ phase' = "start" /\ mode' = "closed"
         \/ phase' = "exit" /\ mode' = "open"
  BY <1>2 DEF close, GoTo, Close, vars
<1>4. ProgramTypeOK' /\ SeqInv'
  BY <1>1, <1>2, <1>3, NothingSent, ProgramStep DEF Phases, IInv, SeqInv
<1>5. ModeInv' /\ PlainInv'
  BY <1>2, <1>3 DEF ModeInv, PlainInv
<1>6. Leaving'
  <2>1. Behind(0, 0)'
    BY <1>1, <1>2, <1>3, NothingBehind, Unmoved
  <2> QED
    BY <2>1 DEF Leaving, Size
<1>7. DrawInv'
  BY <1>3, <1>6 DEF DrawInv, Leaving
<1> QED
  BY <1>4, <1>5, <1>7 DEF IInv

LEMMA KillStep ==
  IInv /\ kill => IInv'
<1> SUFFICES ASSUME IInv, kill PROVE IInv'
  OBVIOUS
<1>1. /\ phase \in {"reflush", "draw", "flush", "shown"} /\ mode = "open" /\ phase' = "exit"
      /\ sent' = 0 /\ mode' = mode /\ pending' = pending /\ UNCHANGED <<program, run, card>>
  BY DEF kill, GoTo, vars
<1>2. ProgramTypeOK' /\ SeqInv'
  BY <1>1, NothingSent, ProgramStep DEF Phases, IInv, SeqInv
<1>3. ModeInv' /\ PlainInv'
  BY <1>1 DEF ModeInv, PlainInv
<1>4. Leaving
  <2>1. CASE phase \in {"reflush", "shown"}
    <3>1. Behind(0, 0)
      BY <2>1, NothingBehind DEF IInv, PlainInv
    <3> QED
      BY <3>1 DEF Leaving, Size
  <2>2. CASE phase = "draw"
    <3>1. Behind(0, sent) /\ Drawn(0)
      BY <2>2 DEF IInv, DrawInv, Drawn, DrawnOf
    <3>2. sent \in 0 .. Size
      <4>1. Stream = DrawTriangle /\ Len(DrawTriangle) = Size
        BY <2>2, TriangleShape DEF Stream, IInv, ProgramTypeOK
      <4> QED
        BY <4>1 DEF IInv, ProgramTypeOK
    <3>3. 0 \in 0 .. sent
      BY <3>2 DEF Size
    <3> QED
      BY <3>1, <3>2, <3>3, Zenon DEF Leaving
  <2>3. CASE phase = "flush"
    <3>1. PICK d \in 0 .. Size : Behind(d, Size) /\ Drawn(d)
      BY <2>3 DEF IInv, DrawInv
    <3>2. Size \in 0 .. Size
      BY DEF Size
    <3> QED
      BY <3>1, <3>2, Zenon DEF Leaving
  <2> QED
    BY <1>1, <2>1, <2>2, <2>3
<1>5. Leaving'
  BY <1>1, <1>4, LeavingStays
<1>6. DrawInv'
  BY <1>1, <1>5 DEF DrawInv, Leaving
<1> QED
  BY <1>2, <1>3, <1>6 DEF IInv

\* A command the card takes: what it finds, and what it leaves pending.
LEMMA Popped ==
  ASSUME NEW p \in Seq(Cmd), p # <<>>
  PROVE  /\ Head(p) = p[1] /\ p[1] \in Cmd /\ Tail(p) \in Seq(Cmd)
         /\ Len(p) \in Nat \ {0} /\ Len(Tail(p)) = Len(p) - 1
         /\ \A k \in 1 .. Len(p) - 1 : Tail(p)[k] = p[k + 1]
OBVIOUS

\* The card draws nothing, clears its triangles, or draws the triangle.
LEMMA CardStep ==
  IInv /\ card_execute
    => IInv' /\ \/ triangles' = triangles \/ triangles' = <<>>
                \/ triangles = <<>> /\ triangles' = Shown
<1> SUFFICES ASSUME IInv, card_execute
             PROVE  IInv' /\ \/ triangles' = triangles \/ triangles' = <<>>
                             \/ triangles = <<>> /\ triangles' = Shown
  OBVIOUS
<1> DEFINE c == Head(pending)
<1>1. /\ mode = "flushing" /\ mode' = mode /\ pending # <<>> /\ pending' = Tail(pending)
      /\ program' = program /\ run' = run /\ phase' = phase /\ sent' = sent
      /\ CardTakes(c)
  BY DEF card_execute, Execute, CardTakes
<1>2. /\ pending \in Seq(Cmd) /\ Len(triangles) \in Nat /\ run \in 0 .. MaxRuns
      /\ latched \in [Components -> (0 .. MaxRuns) \X (0 .. 3)] /\ Len(vertices) <= 3
      /\ phase \in Phases /\ sent \in 0 .. Len(Stream)
  BY DEF IInv, SeqInv, ProgramTypeOK, Phases
<1>3. /\ c = pending[1] /\ c \in Cmd /\ Tail(pending) \in Seq(Cmd)
      /\ Len(pending) \in Nat \ {0} /\ Len(Tail(pending)) = Len(pending) - 1
      /\ \A k \in 1 .. Len(pending) - 1 : Tail(pending)[k] = pending[k + 1]
  BY <1>1, <1>2, Popped
<1>same. /\ DrawTriangle' = DrawTriangle /\ graphics_on' = graphics_on /\ Shown' = Shown
         /\ OffFlushes' = OffFlushes /\ Stream' = Stream
         /\ \A d \in 0 .. Size : Drawn(d)' <=> Drew(d)
  BY <1>1, Same, StreamStays, Zenon
<1> HIDE DEF c
<1>4. latched' \in [Components -> (0 .. MaxRuns) \X (0 .. 3)]
  <2>1. c.vertex \in (0 .. MaxRuns) \X (0 .. 3)
    BY <1>3 DEF Cmd
  <2>2. latched' = [latched EXCEPT ![c.arg] = c.vertex] \/ latched' = latched
    BY <1>1, Zenon DEF CardTakes
  <2> QED
    BY <1>2, <2>1, <2>2
<1>5. ModeInv'
  BY <1>1, <1>same DEF IInv, ModeInv
<1>6. ASSUME Len(vertices') <= 3, Len(triangles') \in Nat
      PROVE  ProgramTypeOK' /\ SeqInv'
  <2>1. ProgramTypeOK'
    <3>1. /\ (mode \in {"closed", "open", "flushing"})' /\ (run \in 0 .. MaxRuns)'
          /\ (phase \in {"start", "on", "reflush", "draw", "flush", "shown", "off", "close",
                         "exit"})'
      BY <1>1, <1>2 DEF Phases
    <3>2. (sent \in 0 .. Len(Stream))'
      BY <1>1, <1>2, <1>same
    <3> QED
      BY <1>4, <1>6, <3>1, <3>2, Zenon DEF ProgramTypeOK
  <2> QED
    BY <1>1, <1>3, <1>6, <2>1 DEF SeqInv
<1>7. ASSUME c.register \in Plain
      PROVE  /\ ProgramTypeOK' /\ SeqInv'
             /\ latched' = latched /\ vertices' = vertices
             /\ triangles' = triangles \/ triangles' = <<>>
             /\ c.register = "RasterClear" => triangles' = <<>>
  <2>1. /\ latched' = latched /\ vertices' = vertices
        /\ triangles' = triangles \/ triangles' = <<>>
        /\ c.register = "RasterClear" => triangles' = <<>>
    BY <1>1, <1>7, PlainTaken, Zenon
  <2>2. Len(<<>>) = 0
    OBVIOUS
  <2>3. Len(vertices') <= 3 /\ Len(triangles') \in Nat
    BY <1>2, <2>1, <2>2
  <2> QED
    BY <1>6, <2>1, <2>3
<1>8. phase \in {"on", "off", "flush", "exit"}
  BY <1>1, <1>2 DEF IInv, ModeInv, PlainInv, Phases
<1>9. CASE phase = "on"
  <2> DEFINE n == Len(pending)
  <2>1. /\ n \in Nat /\ n > 0 /\ n <= 6 /\ sent = 6
        /\ \A k \in 1 .. n : pending[k] = graphics_on[6 - n + k]
        /\ 6 - n >= 5 => triangles = <<>>
    BY <1>1, <1>3, <1>9 DEF IInv, PlainInv
  <2>2. /\ graphics_on[5].register = "RasterClear"
        /\ \A k \in 1 .. 6 : graphics_on[k].register \in Plain
    BY <1>2, OnShape, Zenon
  <2> HIDE DEF n
  <2>3. 1 \in 1 .. n /\ 6 - n + 1 \in 1 .. 6
    BY <2>1, SMT
  <2>4. c = graphics_on[6 - n + 1] /\ c.register \in Plain
    BY <1>3, <2>1, <2>2, <2>3, Zenon
  <2>5. Len(pending') = n - 1
    BY <1>1, <1>3 DEF n
  <2>6. \A k \in 1 .. n - 1 : pending'[k] = graphics_on[6 - (n - 1) + k]
    <3> TAKE k \in 1 .. n - 1
    <3>1. k + 1 \in 1 .. n /\ 6 - n + (k + 1) = 6 - (n - 1) + k
      BY <2>1, SMT
    <3>2. pending'[k] = pending[k + 1]
      BY <1>1, <1>3, Zenon DEF n
    <3> QED
      BY <2>1, <3>1, <3>2, Zenon
  <2>7. 6 - (n - 1) >= 5 => triangles' = <<>>
    <3>1. CASE 6 - n >= 5
      BY <1>7, <2>1, <2>4, <3>1
    <3>2. CASE 6 - n = 4
      <4>1. 6 - n + 1 = 5
        BY <3>2, <2>1, SMT
      <4> QED
        BY <1>7, <2>2, <2>4, <4>1
    <3> QED
      BY <2>1, <3>1, <3>2
  <2>8. n - 1 <= 6
    BY <2>1, SMT
  <2>9. PlainInv'
    <3>1. /\ Len(pending') <= sent'
          /\ \A k \in 1 .. Len(pending') : pending'[k] = graphics_on'[sent' - Len(pending') + k]
          /\ sent' - Len(pending') >= 5 => triangles' = <<>>
      BY <1>1, <1>same, <2>1, <2>5, <2>6, <2>7, <2>8, Zenon
    <3> QED
      BY <1>1, <1>9, <2>1, <3>1 DEF PlainInv
  <2>10. DrawInv'
    BY <1>1, <1>9 DEF DrawInv
  <2> QED
    BY <1>5, <1>7, <2>4, <2>9, <2>10 DEF IInv
<1>10. CASE phase = "off"
  <2>1. Len(pending) <= sent /\ Rest(pending, DrawTriangle, 0, 0)
    BY <1>10 DEF IInv, PlainInv, Behind
  <2>2. c.register \in Plain /\ Rest(Tail(pending), DrawTriangle, 0, 0)
    BY <1>1, <1>2, <2>1, RestPlain, Zenon DEF c
  <2>3. Behind(0, 0)'
    BY <1>1, <1>same, <2>2, Zenon DEF Behind
  <2>4. Len(pending) - 1 <= sent
    <3>1. sent \in Nat
      BY <1>2, StreamShape
    <3> QED
      BY <1>3, <2>1, <3>1, SMT
  <2>5. Len(pending') <= sent'
    BY <1>1, <1>3, <2>4, Zenon
  <2>6. PlainInv' /\ DrawInv'
    BY <1>1, <1>10, <2>3, <2>5 DEF PlainInv, DrawInv
  <2> QED
    BY <1>5, <1>7, <2>2, <2>6 DEF IInv
<1>11. ASSUME NEW m \in 0 .. Size, NEW d \in 0 .. m, d < m, Behind(d, m), Drawn(d)
       PROVE  /\ Behind(d + 1, m)' /\ Drawn(d + 1)' /\ ProgramTypeOK' /\ SeqInv'
              /\ triangles' = triangles \/ (triangles = <<>> /\ triangles' = Shown)
  <2>1. d \in Nat /\ m \in Nat /\ d \in 0 .. Size - 1 /\ d + 1 \in 0 .. Size
    BY <1>11, SMT DEF Size
  <2>2. c = DrawTriangle[d + 1] /\ Rest(Tail(pending), DrawTriangle, d + 1, m)
    BY <1>1, <1>2, <1>11, <2>1, RestPopped, Zenon DEF Behind, c
  <2>3. /\ Drew(d + 1) /\ Len(vertices') <= 3
        /\ triangles' = triangles \/ (triangles = <<>> /\ triangles' = Shown)
    <3>1. CardTakes(DrawTriangle[d + 1])
      BY <1>1, <2>2, Zenon
    <3> QED
      BY <1>2, <1>11, <2>1, <3>1, TriangleTaken, Zenon
  <2>4. Behind(d + 1, m)'
    BY <1>1, <1>same, <2>2, Zenon DEF Behind
  <2>5. Drawn(d + 1)'
    BY <1>same, <2>1, <2>3, Zenon
  <2>6. Len(Shown) = 1
    BY DEF Shown
  <2>7. Len(triangles') \in Nat
    BY <1>2, <2>3, <2>6
  <2> QED
    BY <1>6, <2>3, <2>4, <2>5, <2>7
<1>12. CASE phase = "flush"
  <2>1. PICK d \in 0 .. Size : Len(pending) = Size - d /\ Behind(d, Size) /\ Drawn(d)
    BY <1>12 DEF IInv, DrawInv
  <2>2. d < Size /\ Size \in 0 .. Size /\ d + 1 \in 0 .. Size /\ Len(pending') = Size - (d + 1)
    BY <1>1, <1>3, <2>1 DEF Size
  <2>3. /\ Behind(d + 1, Size)' /\ Drawn(d + 1)' /\ ProgramTypeOK' /\ SeqInv'
        /\ triangles' = triangles \/ (triangles = <<>> /\ triangles' = Shown)
    BY <1>11, <2>1, <2>2, Zenon
  <2>4. Flushing'
    <3>1. Size' = Size
      BY DEF Size
    <3> QED
      BY <2>2, <2>3, <3>1, Zenon DEF Flushing
  <2>5. PlainInv' /\ DrawInv'
    BY <1>1, <1>12, <2>4 DEF PlainInv, DrawInv, Flushing
  <2> QED
    BY <1>5, <2>3, <2>5 DEF IInv
<1>13. CASE phase = "exit"
  <2>1. PICK m \in 0 .. Size : \E d \in 0 .. m : Behind(d, m) /\ (d < m => Drawn(d))
    BY <1>13 DEF IInv, DrawInv
  <2>2. PICK d \in 0 .. m : Behind(d, m) /\ (d < m => Drawn(d))
    BY <2>1, Zenon
  <2>3. CASE d < m
    <3>1. /\ Behind(d + 1, m)' /\ Drawn(d + 1)' /\ ProgramTypeOK' /\ SeqInv'
          /\ triangles' = triangles \/ (triangles = <<>> /\ triangles' = Shown)
      BY <1>11, <2>2, <2>3, Zenon
    <3>2. d + 1 \in 0 .. m
      BY <2>3, SMT
    <3>3. Leaving'
      BY <3>1, <3>2, Zenon DEF Leaving
    <3>4. PlainInv' /\ DrawInv'
      BY <1>1, <1>13, <3>3 DEF PlainInv, DrawInv, Leaving
    <3> QED
      BY <1>5, <3>1, <3>4 DEF IInv
  <2>4. CASE ~(d < m)
    <3>1. d = m /\ m \in Nat
      BY <2>4, SMT
    <3>2. c.register \in Plain /\ Rest(Tail(pending), DrawTriangle, m, m)
      BY <1>1, <1>2, <2>2, <3>1, RestPlain, Zenon DEF Behind, c
    <3>3. Behind(m, m)'
      BY <1>1, <1>same, <3>2, Zenon DEF Behind
    <3>4. m \in 0 .. m /\ ~(m < m)
      BY <3>1, SMT
    <3>5. Leaving'
      BY <3>3, <3>4, Zenon DEF Leaving
    <3>6. PlainInv' /\ DrawInv'
      BY <1>1, <1>13, <3>5 DEF PlainInv, DrawInv, Leaving
    <3> QED
      BY <1>5, <1>7, <3>2, <3>6 DEF IInv
  <2> QED
    BY <2>3, <2>4
<1> QED
  BY <1>8, <1>9, <1>10, <1>12, <1>13

LEMMA StutterStep ==
  IInv /\ UNCHANGED all => IInv'
<1> SUFFICES ASSUME IInv, UNCHANGED all PROVE IInv'
  OBVIOUS
<1>1. /\ mode' = mode /\ pending' = pending /\ UNCHANGED <<program, run, phase, sent, card>>
  BY DEF all, vars
<1>2. Stream' = Stream
  BY <1>1, StreamStays
<1>same. /\ phase' = phase /\ sent' = sent /\ triangles' = triangles
         /\ OffFlushes' = OffFlushes /\ graphics_on' = graphics_on /\ Shown' = Shown
         /\ \A d, m : Behind(d, m)' <=> Behind(d, m)
  BY <1>1, Unmoved, Zenon DEF card
<1>3. ProgramTypeOK' /\ SeqInv'
  BY <1>1, <1>2 DEF IInv, ProgramTypeOK, SeqInv, card
<1>4. ModeInv'
  BY <1>1, <1>same DEF IInv, ModeInv
<1>5. PlainInv'
  BY <1>1, <1>same DEF IInv, PlainInv
<1>6. Flushing => Flushing'
  BY <1>1, FlushingStays
<1>7. Leaving => Leaving'
  BY <1>1, LeavingStays
<1>8. DrawInv'
  <2>1. phase = "flush" => Flushing'
    BY <1>6 DEF IInv, DrawInv, Flushing
  <2>2. phase = "exit" => Leaving'
    BY <1>7 DEF IInv, DrawInv, Leaving
  <2>3. (phase = "draw" => Len(pending) = sent /\ Behind(0, sent) /\ triangles = <<>>)'
    BY <1>1, <1>same DEF IInv, DrawInv
  <2>4. (phase = "shown" => triangles = Shown)'
    BY <1>same DEF IInv, DrawInv
  <2> QED
    BY <1>same, <2>1, <2>2, <2>3, <2>4 DEF DrawInv, Flushing, Leaving
<1> QED
  BY <1>3, <1>4, <1>5, <1>8 DEF IInv

LEMMA Consecution ==
  IInv /\ [ProgramNext]_all => IInv'
BY StartStep, QueueStep, VmodeFlushStep, VmodeEndStep, Lab4OffStep, DrawEndStep,
   FlushBeginStep, FlushEndStep, SleepEndStep, CloseStep, KillStep, CardStep, StutterStep,
   Zenon DEF ProgramNext

LEMMA Invariance ==
  ProgramSpec => []IInv
BY Initiation, Consecution, PTL DEF ProgramSpec

\* Types: among others the program never queues past its stream of commands, and
\* never has the card collect more than the three vertices of a triangle.
THEOREM TypeCorrect == ProgramSpec => []ProgramTypeOK
<1>1. IInv => ProgramTypeOK
  BY DEF IInv
<1> QED
  BY <1>1, Invariance, PTL

\* While the program sleeps between its two calls of VMODE the card shows its
\* triangle and nothing else, of each of the programs, in each of any number of
\* runs, whatever the runs that were killed before it had queued or drawn.
THEOREM ShowsItsTriangle == ProgramSpec => []TriangleShown
<1>1. IInv => TriangleShown
  BY DEF IInv, DrawInv, TriangleShown, Shown, VerticesTo
<1> QED
  BY <1>1, Invariance, PTL

\* Only a whole triangle of the current run is ever drawn, also in the release of
\* a program that was killed in the middle of queueing it.
THEOREM WholeOrNothing == ProgramSpec => DrawsWhole
<1>1. IInv /\ [ProgramNext]_all
        => [Len(triangles') > Len(triangles)
              => triangles'[Len(triangles')] = [v \in 1 .. 3 |-> Whole(v)]]_all
  <2> SUFFICES ASSUME IInv, [ProgramNext]_all, Len(triangles') > Len(triangles)
               PROVE  triangles'[Len(triangles')] = [v \in 1 .. 3 |-> Whole(v)]
    BY Zenon
  <2>1. Len(triangles) \in Nat
    BY DEF IInv, SeqInv
  <2>2. CASE card_execute
    <3>1. \/ triangles' = triangles \/ triangles' = <<>>
          \/ triangles = <<>> /\ triangles' = Shown
      BY <2>2, CardStep
    <3>2. triangles' = Shown
      BY <2>1, <3>1
    <3>3. Len(Shown) = 1 /\ Shown[1] = VerticesTo(3)
      BY DEF Shown
    <3> QED
      BY <3>2, <3>3 DEF VerticesTo
  <2>3. CASE ~card_execute
    <3>1. triangles' = triangles
      BY <2>3 DEF ProgramNext, start, u_fifo_queue, vmode_flush, vmode_end,
         off_GraphicsMode_lab4, draw_end, flush_begin, flush_end, sleep_end, close, kill,
         card, all
    <3> QED
      BY <2>1, <3>1
  <2> QED
    BY <2>2, <2>3
<1> QED
  BY <1>1, Invariance, PTL DEF ProgramSpec, DrawsWhole
=============================================================================
