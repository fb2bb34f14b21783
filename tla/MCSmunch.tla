------------------------------- MODULE MCSmunch -------------------------------
(* Smunch with a handled signal and a fatal one on either side of SIGKILL.    *)
EXTENDS Smunch
=============================================================================
