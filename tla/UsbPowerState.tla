---------------------------- MODULE UsbPowerState ----------------------------
(* The USB supplies the power components tell one another about            *)
(* (Middlewares/Nemeio/PowerManager/usbPowerState.h).                      *)

USB_POWER_CONNECTION_STATE ==
    {"NONE", "PLUG_IN_PC", "PLUG_IN_PC_SUSPENDED",
     "PLUG_IN_POWER_SUPPLY_ONLY", "PLUG_OUT"}

(* NONE is only the value before the first report. *)
ReportedSupply == USB_POWER_CONNECTION_STATE \ {"NONE"}

isUsbConnected(connection) ==
    connection \in {"PLUG_IN_PC", "PLUG_IN_PC_SUSPENDED",
                    "PLUG_IN_POWER_SUPPLY_ONLY"}

=============================================================================
