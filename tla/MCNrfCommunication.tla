------------------------- MODULE MCNrfCommunication -------------------------
(* A configuration of two commands, or of one. *)
EXTENDS NrfCommunication

MCConfiguration == <<"setDeviceName", "reportMap">>
MCShortConfiguration == <<"setDeviceName">>
=============================================================================
