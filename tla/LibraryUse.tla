------------------------------ MODULE LibraryUse ------------------------------
(***************************************************************************)
(* How libmosquitto asks to be used: mosquitto_lib_init() comes first and  *)
(* mosquitto_lib_cleanup() last, once each; a client is made in between,   *)
(* connected once, and destroyed if it was connected; and a process that   *)
(* has initialised the library does not end before it has cleaned it up.   *)
(* Only a connected process may give that up and end as it is.             *)
(***************************************************************************)
VARIABLES lib,     \* the library: "down", "up" or "released"
          client,  \* the client: "none", "made", "connected" or "destroyed"
          ended    \* the process has ended

vars == <<lib, client, ended>>

Init == lib = "down" /\ client = "none" /\ ended = FALSE

LibInit == lib = "down" /\ ~ended /\ lib' = "up" /\ UNCHANGED <<client, ended>>
Make    == lib = "up" /\ client = "none" /\ client' = "made" /\ UNCHANGED <<lib, ended>>
Connect == lib = "up" /\ client = "made" /\ client' = "connected" /\ UNCHANGED <<lib, ended>>
Destroy == lib = "up" /\ client = "connected" /\ client' = "destroyed"
           /\ UNCHANGED <<lib, ended>>
Cleanup == /\ lib = "up" /\ client # "connected" /\ lib' = "released"
           /\ ended' \in BOOLEAN /\ UNCHANGED client
End     == lib # "up" /\ ended' = TRUE /\ UNCHANGED <<lib, client>>

Abandon == client = "connected" /\ ended' = TRUE /\ UNCHANGED <<lib, client>>

Next == LibInit \/ Make \/ Connect \/ Destroy \/ Cleanup \/ End \/ Abandon

Spec == Init /\ [][Next]_vars
=============================================================================
