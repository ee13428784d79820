--------------------------- MODULE MCPowerManager ---------------------------
(* The power manager with small queues. The delays are all finite or all   *)
(* infinite: MCPowerConnectivity tells the fields apart. The host is never *)
(* suspended here, so the timer daemon stays idle: its part is in the runs *)
(* of MCUsbSupply.                                                         *)
EXTENDS PowerManager

MCDelay == {"finite", "infinite"}
MCDefaultTimeouts == [f \in TimeoutFields |-> "infinite"]
MCSettings == [f \in TimeoutFields |-> "finite"]
MCTimeoutSets == {MCSettings}

MCSettingsRequest == [msgId |-> "UPDATE_TIMEOUTS", timeouts |-> MCSettings]

(* All requests. *)
MCAllRequests == {MCSettingsRequest} \cup PlainRequest

=============================================================================
