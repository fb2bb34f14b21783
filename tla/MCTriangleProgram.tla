-------------------------- MODULE MCTriangleProgram --------------------------
(* TriangleProgram run twice, whole or killed.                                *)
EXTENDS TriangleProgram

MCCommands ==
  [register : {"Vertex", "VertexEmit", "CommandPrimitive", "RasterFlush", "RasterClear",
               "ClearColor"},
   arg : (0 .. 4) \cup Components, vertex : (0 .. MaxRuns) \X (0 .. 3)]
=============================================================================
