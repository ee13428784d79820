---------------------- MODULE FirmwareEnvironmentStore ----------------------
(***************************************************************************)
(* What the firmware environment promises to SystemRuntime: one register   *)
(* in flash, written all at once or not at all.  A power cut at any moment *)
(* loses at most the write in progress, and what a reader sees is what the *)
(* last write that returned has stored.                                    *)
(***************************************************************************)
CONSTANTS Env, DefaultEnv, NoEnv

VARIABLES
    stored,     \* what the next boot will read, NoEnv before the first write
    writing,    \* the value being written, NoEnv when no write is in progress
    status      \* "off", "ready" or "busy"

storeVars == <<stored, writing, status>>

StoreInit ==
    /\ stored \in Env \cup {NoEnv}
    /\ writing = NoEnv
    /\ status = "off"

\* A boot finds the stored value, or stores the default one when there is none.
Boot ==
    /\ status = "off"
    /\ IF stored \in Env
         THEN status' = "ready" /\ writing' = NoEnv
         ELSE status' = "busy" /\ writing' = DefaultEnv
    /\ UNCHANGED stored

BeginWrite(env) ==
    /\ status = "ready"
    /\ status' = "busy"
    /\ writing' = env
    /\ UNCHANGED stored

EndWrite ==
    /\ status = "busy"
    /\ stored' = writing
    /\ writing' = NoEnv
    /\ status' = "ready"

PowerCut ==
    /\ status # "off"
    /\ status' = "off"
    /\ writing' = NoEnv
    /\ UNCHANGED stored

StoreNext ==
    \/ Boot
    \/ \E env \in Env : BeginWrite(env)
    \/ EndWrite
    \/ PowerCut

StoreSpec == StoreInit /\ [][StoreNext]_storeVars
=============================================================================
