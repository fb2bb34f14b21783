---------------------------- MODULE MCKyouko3Fifo ----------------------------
(* Kyouko3Fifo on a ring one entry larger than a batch with graphics_on's    *)
(* commands behind it, and enough commands to go round it almost twice.      *)
EXTENDS Kyouko3Fifo
=============================================================================
