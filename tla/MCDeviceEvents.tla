--------------------------- MODULE MCDeviceEvents ---------------------------
(* Instances of DeviceEvents: slots and interrupts are numbers. *)
EXTENDS DeviceEvents
=============================================================================
