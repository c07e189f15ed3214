---------------------------- MODULE MCSupervisor ----------------------------
(* Instances of Supervisor for TLC. *)
EXTENDS Supervisor

CONSTANTS tasks, gateway, manager

ThreeServices == <<tasks, gateway, manager>>
=============================================================================
