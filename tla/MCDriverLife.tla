---------------------------- MODULE MCDriverLife -----------------------------
(* Small instances of the drivers' lives for TLC, which also decides here     *)
(* what DeviceFacts says of the drivers' files.                              *)
EXTENDS DriverLife, DeviceFacts

AllDrivers == DOMAIN Driver

\* A failed probe and a good one for the keys; for the slots a device that
\* comes back while another is bound, and one bind more than there are slots.
TwoToFour == [d \in DOMAIN Driver |->
                IF d \in {"led05", "button"} THEN 4
                ELSE IF d \in KeyDrivers THEN 2 ELSE 3]
=============================================================================
