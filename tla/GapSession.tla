----------------------------- MODULE GapSession ------------------------------
(***************************************************************************)
(* What CentralModeThread and the BLE dongle together promise, seen from   *)
(* above the serial line and the queues: the host brings the dongle up,    *)
(* searches, stops the search, asks for a link only when the radio has     *)
(* stopped scanning, and starts to pair only when the dongle has reported  *)
(* the outcome of that request.  A host that is started again may inherit  *)
(* the answer to an earlier request to stop; it then has no such promise.  *)
(***************************************************************************)
VARIABLES phase,      \* what the host has asked for last
          radio,      \* what the dongle is doing
          reported,   \* the dongle has reported a LINK_ESTABLISHED event
          inherited   \* this host was started with such an answer queued

vars == <<phase, radio, reported, inherited>>

Radio == {"off", "idle", "scanning", "connecting", "connected"}

Init == phase = "boot" /\ radio = "off" /\ reported = FALSE /\ inherited = FALSE

Search == phase \in {"boot", "search"} /\ phase' = "search" /\ UNCHANGED <<radio, reported, inherited>>
Stop   == phase = "search" /\ phase' = "stop" /\ UNCHANGED <<radio, reported, inherited>>
Link   == phase = "stop" /\ (radio # "scanning" \/ inherited) /\ phase' = "link"
          /\ UNCHANGED <<radio, reported, inherited>>
Bond   == phase = "link" /\ (reported \/ inherited) /\ phase' = "bond"
          /\ UNCHANGED <<radio, reported, inherited>>

\* The dongle follows requests that may be behind what the host has asked for
\* since, but it scans and connects only in the phases that allow it.
RadioStep ==
    /\ radio' \in Radio
    /\ radio' = "scanning" => phase \in {"search", "stop"} \/ inherited
    /\ radio' \in {"connecting", "connected"} => phase \in {"link", "bond"}
    /\ UNCHANGED <<phase, reported, inherited>>

Report == radio = "connecting" /\ radio' \in {"idle", "connected"} /\ reported' = TRUE
          /\ UNCHANGED <<phase, inherited>>

\* The host starts anew; the radio goes on with what it was doing.
Restart == /\ phase' = "boot" /\ reported' = FALSE /\ inherited' \in BOOLEAN
           /\ UNCHANGED radio

Next == Search \/ Stop \/ Link \/ Bond \/ RadioStep \/ Report \/ Restart

Spec == Init /\ [][Next]_vars
=============================================================================
