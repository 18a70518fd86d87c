---------------------------- MODULE MCDeviceFiles ----------------------------
(* Small instances of the device files for TLC. *)
EXTENDS DeviceFiles

AllDevices == DOMAIN Device
TwoProcs == {"p", "q"}
=============================================================================
