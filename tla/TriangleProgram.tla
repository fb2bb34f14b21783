---------------------------- MODULE TriangleProgram ----------------------------
(***************************************************************************)
(* The programs that draw one triangle through the FIFO: fifo_commands of  *)
(* main.c over the final driver, and DrawTriangle of user.c in lab4 and    *)
(* 5lab, each over its lab's driver.  The driver is taken as what          *)
(* Kyouko3Fifo and LabDriver are shown to implement: the command queue     *)
(* with its flush barrier.  The card latches the components of a vertex as *)
(* they are written, takes them as a vertex when told to emit, and keeps   *)
(* what is latched from one run of the program to the next.  The program   *)
(* may be killed wherever it is in user mode, which sends the driver into  *)
(* its release.                                                            *)
(***************************************************************************)
EXTENDS CommandQueue, Integers

CONSTANTS
  Programs,  \* the programs that may run: "main.c", or a lab's user.c
  MaxRuns    \* bound: runs of the program

ProgramAssumption == Programs \subseteq {"main.c", "lab4", "5lab"} /\ MaxRuns \in Nat

ASSUME ProgramAssumption

VARIABLES
  program,
  run,        \* number of the current run
  phase,      \* what the program is doing
  sent,       \* commands of the phase it has queued
  \* the card
  latched,    \* the vertex each component was last written for
  vertices,   \* vertices emitted in the open primitive
  triangles   \* triangles drawn since the last clear

card == <<latched, vertices, triangles>>
all == <<vars, program, run, phase, sent, card>>

Components == {"Color", "Coordinate"} \X (1 .. 4)

\* A command: its register, the component or argument, the vertex it is about.
Command(reg, arg, v) == [register |-> reg, arg |-> arg, vertex |-> <<run, v>>]
Write(kind, v) == [k \in 1 .. 4 |-> Command("Vertex", <<kind, k>>, v)]
Emit(v) == <<Command("VertexEmit", 0, v)>>
Primitive(n) == <<Command("CommandPrimitive", n, 0)>>
RasterFlush == <<Command("RasterFlush", 0, 0)>>
RasterClear == <<Command("RasterClear", 3, 0)>>
ClearColor == [k \in 1 .. 4 |-> Command("ClearColor", k, 0)]

-----------------------------------------------------------------------------
\* Faulty variants of the operators below, for the mutation runs.
EmitsTwice(v) == Write("Color", v) \o Write("Coordinate", v) \o Emit(v) \o Emit(v)
EmitsEarly(v) == Write("Color", v) \o Emit(v) \o Write("Coordinate", v)
SkipsFlush == "shown"

\* A vertex in the order of main.c, and in that of the labs.
fifo_vertex(v) == Write("Color", v) \o Write("Coordinate", v) \o Emit(v)
lab_vertex(v) == Write("Coordinate", v) \o Write("Color", v) \o Emit(v)
Vertex(v) == IF program = "main.c" THEN fifo_vertex(v) ELSE lab_vertex(v)

\* fifo_commands and DrawTriangle.
DrawTriangle ==
  Primitive(IF program = "main.c" THEN 1 ELSE 2) \o Vertex(1)
    \o Vertex(2) \o Vertex(3) \o Primitive(0) \o RasterFlush

\* What VMODE queues for GRAPHICS_ON, and for GRAPHICS_OFF: the labs' drivers
\* queue nothing there, and lab4's does not flush what is queued.
graphics_on == ClearColor \o RasterClear \o RasterFlush
graphics_off == IF program = "main.c" THEN RasterClear ELSE <<>>
OffFlushes == program # "lab4"

\* Where the program goes when it has queued its triangle.
AfterDraw == "flush"

\* After GRAPHICS_ON, the labs' programs flush once more.
AfterOn == IF program = "main.c" THEN "draw" ELSE "reflush"

Stream ==
  CASE phase = "on"                   -> graphics_on
    [] phase = "draw"                 -> DrawTriangle
    [] phase \in {"off", "exit"}      -> graphics_off
    [] OTHER                          -> <<>>

ProgramInit ==
  /\ Init
  /\ program \in Programs /\ run = 0
  /\ phase = "start" /\ sent = 0
  /\ latched = [c \in Components |-> <<0, 0>>]
  /\ vertices = <<>> /\ triangles = <<>>

GoTo(p) == phase' = p /\ sent' = 0

-----------------------------------------------------------------------------
\* open, then VMODE.
start ==
  /\ phase = "start" /\ run < MaxRuns
  /\ Open
  /\ run' = run + 1
  /\ GoTo("on")
  /\ UNCHANGED <<program, card>>

\* The next command of the phase, queued by the program or in the driver.
u_fifo_queue ==
  /\ sent < Len(Stream)
  /\ Queue(Stream[sent + 1])
  /\ sent' = sent + 1
  /\ UNCHANGED <<program, run, phase, card>>

\* The flush inside VMODE and release.
vmode_flush ==
  /\ phase \in {"on", "off", "exit"} /\ sent = Len(Stream)
  /\ phase = "on" \/ OffFlushes
  /\ FlushBegin
  /\ UNCHANGED <<program, run, phase, sent, card>>

vmode_end ==
  /\ phase \in {"on", "off", "exit"}
  /\ FlushEnd
  /\ mode' = IF phase = "exit" THEN "closed" ELSE "open"
  /\ GoTo(CASE phase = "on" -> AfterOn [] phase = "off" -> "close" [] OTHER -> "start")
  /\ UNCHANGED <<program, run, card>>

\* lab4's graphics off, for VMODE and in release: what a killed program has not
\* flushed is dropped with the ring.
off_GraphicsMode_lab4 ==
  /\ ~OffFlushes
  /\ \/ phase = "off" /\ GoTo("close") /\ UNCHANGED vars
     \/ phase = "exit" /\ GoTo("start") /\ Close
  /\ UNCHANGED <<program, run, card>>

\* The program's own FIFO_FLUSH.
draw_end ==
  /\ phase = "draw" /\ sent = Len(Stream)
  /\ GoTo(AfterDraw)
  /\ UNCHANGED <<vars, program, run, card>>

flush_begin ==
  /\ phase \in {"reflush", "flush"} /\ FlushBegin
  /\ UNCHANGED <<program, run, phase, sent, card>>

flush_end ==
  /\ phase \in {"reflush", "flush"} /\ FlushEnd /\ mode' = "open"
  /\ GoTo(IF phase = "flush" THEN "shown" ELSE "draw")
  /\ UNCHANGED <<program, run, card>>

\* sleep, then VMODE again, then close.
sleep_end ==
  /\ phase = "shown"
  /\ GoTo("off")
  /\ UNCHANGED <<vars, program, run, card>>

\* The release of main.c's driver finds graphics off and frees the ring; the
\* labs' turns graphics off again.
close ==
  /\ phase = "close"
  /\ IF program = "main.c" THEN Close /\ GoTo("start")
                           ELSE UNCHANGED vars /\ GoTo("exit")
  /\ UNCHANGED <<program, run, card>>

\* A signal kills the program between two calls or in its sleep: release turns
\* graphics off, in main.c's driver because it is on.
kill ==
  /\ phase \in {"reflush", "draw", "flush", "shown"} /\ mode = "open"
  /\ GoTo("exit")
  /\ UNCHANGED <<vars, program, run, card>>

\* The card takes a command.
card_execute ==
  /\ Execute
  /\ LET c == Head(pending)
     IN  /\ latched' = IF c.register = "Vertex" THEN [latched EXCEPT ![c.arg] = c.vertex]
                                                ELSE latched
         /\ vertices' = CASE c.register = "CommandPrimitive" -> <<>>
                          [] c.register = "VertexEmit" -> Append(vertices, latched)
                          [] OTHER -> vertices
         /\ triangles' = CASE c.register = "RasterClear" -> <<>>
                           [] Len(vertices') = 3 /\ vertices' # vertices ->
                                Append(triangles, vertices')
                           [] OTHER -> triangles
  /\ UNCHANGED <<program, run, phase, sent>>

ProgramNext ==
  \/ start \/ u_fifo_queue \/ vmode_flush \/ vmode_end \/ off_GraphicsMode_lab4
  \/ draw_end \/ flush_begin \/ flush_end \/ sleep_end \/ close \/ kill
  \/ card_execute

ProgramSpec == ProgramInit /\ [][ProgramNext]_all

-----------------------------------------------------------------------------
(* Properties. *)

\* The vertex v of the current run, complete.
Whole(v) == [c \in Components |-> <<run, v>>]

ProgramTypeOK ==
  /\ mode \in {"closed", "open", "flushing"}
  /\ phase \in {"start", "on", "reflush", "draw", "flush", "shown", "off", "close",
               "exit"}
  /\ run \in 0 .. MaxRuns /\ sent \in 0 .. Len(Stream)
  /\ latched \in [Components -> (0 .. MaxRuns) \X (0 .. 3)]
  /\ Len(vertices) <= 3

\* While the program sleeps the card shows exactly its triangle, each vertex
\* with its own four colors and four coordinates: whatever a run killed before
\* it has left in the card.
TriangleShown == phase = "shown" => triangles = <<[v \in 1 .. 3 |-> Whole(v)]>>

\* Nothing of an earlier run is shown: a triangle the card draws is whole and of
\* the current run, even when it is drawn by the release of a killed program.
DrawsWhole ==
  [][Len(triangles') > Len(triangles)
       => triangles'[Len(triangles')] = [v \in 1 .. 3 |-> Whole(v)]]_all
=============================================================================
