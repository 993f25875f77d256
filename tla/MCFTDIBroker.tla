---------------------------- MODULE MCFTDIBroker ----------------------------
(***************************************************************************)
(* Instances of FTDIBroker for TLC.  The bounds are in the configurations: *)
(* two transports and one receive loop beside the main thread, so that two *)
(* threads meet in one transport and a second one competes for the device; *)
(* one fault of the device and one change by the environment.              *)
(***************************************************************************)
EXTENDS FTDIBroker
=============================================================================
