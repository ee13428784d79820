----------------------------- MODULE MCUsbSupply -----------------------------
(* The supply side on small queues; see the .cfg files for the interrupts  *)
(* and the battery levels of each run.                                     *)
EXTENDS UsbSupply

AllInterrupts == {"CONNECT", "ENUMERATE", "SUSPEND", "RESUME", "DISCONNECT"}

=============================================================================
