----------------------------- MODULE MCLabDriver -----------------------------
(* LabDriver with a ring of five entries and a client that opens the device   *)
(* more than once.                                                            *)
EXTENDS LabDriver
=============================================================================
