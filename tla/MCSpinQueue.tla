---------------------------- MODULE MCSpinQueue ----------------------------
(* SpinQueue on a small instance *)
EXTENDS SpinQueue
=============================================================================
