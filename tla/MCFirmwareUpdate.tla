-------------------------- MODULE MCFirmwareUpdate --------------------------
(***************************************************************************)
(* Updates between three versions, in a world that disturbs them for a     *)
(* while only: a power cut cannot be told from a reset by the firmware in  *)
(* a step, so a flag says that the last one is past.                       *)
(***************************************************************************)
EXTENDS FirmwareUpdate

\* The one installed, one to update to, and an older or newer one.
MCVersion == 1 .. 3

VARIABLE stable     \* no power cut and no recovery from here on

stableVars == <<updateVars, stable>>

StableInit == UpdateInit /\ stable \in BOOLEAN

FirmwareStep == (BootStep \/ UpdateStep) /\ UNCHANGED answering

StableNext ==
    \/ FirmwareStep /\ UNCHANGED stable
    \/ (initUpdate \/ EndDownload) /\ UNCHANGED <<answering, stable>>
    \/ ~stable /\ Disturbance /\ stable' \in BOOLEAN /\ UNCHANGED answering

\* One task runs the boot and the update to their end.
StableSpec ==
    /\ StableInit
    /\ [][StableNext]_stableVars
    /\ WF_stableVars(FirmwareStep /\ UNCHANGED stable)

\* An update under way ends, validated or rolled back: once power is stable no
\* boot, update or rollback resets the keyboard for ever, even when chips fail
\* to answer.
UpdateEnds == stable /\ pending ~> ~pending
=============================================================================
