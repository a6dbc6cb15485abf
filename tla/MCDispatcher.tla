---------------------------- MODULE MCDispatcher ----------------------------
(* Dispatcher for TLC: the constants come from the configurations.         *)
EXTENDS DispatcherInv
=============================================================================
