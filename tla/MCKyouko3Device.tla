--------------------------- MODULE MCKyouko3Device ---------------------------
(* Kyouko3Device with two buffers.                                            *)
EXTENDS Kyouko3Device
=============================================================================
