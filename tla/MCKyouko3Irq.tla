----------------------------- MODULE MCKyouko3Irq -----------------------------
(* Kyouko3Irq with three buffers: with two, START_DMA waits whenever the      *)
(* handler has something to resubmit.                                        *)
EXTENDS Kyouko3Irq
=============================================================================
