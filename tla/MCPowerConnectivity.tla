------------------------ MODULE MCPowerConnectivity ------------------------
(* The two tasks of the power manager, with one delay per timeout field,   *)
(* so that a delay taken from the wrong field, or left over, can be told   *)
(* apart.                                                                  *)
EXTENDS PowerConnectivity

MCDelay == TimeoutFields \cup {"0", "infinite"}

(* The member initialisers of struct Timeouts. *)
MCDefaultTimeouts ==
    [f \in TimeoutFields |-> IF f = "longInactiveTimeout"
                             THEN "0" ELSE "infinite"]

MCTimeoutSets == {[f \in TimeoutFields |-> f]}

=============================================================================
