---------------------------- MODULE MCKyouko3Dma ----------------------------
(* Kyouko3Dma on small instances: ints are -4..3, a buffer holds 2 bytes.  *)
EXTENDS Kyouko3Dma

MCWord == 8
MCCounts == {-4, -1, 0, 1, 2, 3}
\* Two valid counts, for the longer runs.
MCValidCounts == {1, 2}
=============================================================================
