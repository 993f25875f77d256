------------------------------ MODULE MCBroker ------------------------------
(***************************************************************************)
(* Instances of Broker for TLC: one client entity and one server entity.   *)
(***************************************************************************)
EXTENDS Broker
=============================================================================
