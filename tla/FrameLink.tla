------------------------------ MODULE FrameLink ------------------------------
(***************************************************************************)
(* What the serial link to the BLE dongle promises the rest of the scanner *)
(* process: the events the dongle emits are handed over each once, in      *)
(* order and eventually, as what the link carries of them, which is all of *)
(* an event that fits it.  UartFraming is the byte-level receiver that has *)
(* to keep this promise.                                                   *)
(***************************************************************************)
EXTENDS Naturals, Sequences

CONSTANTS Frames,      \* the events the dongle may emit, as byte sequences
          Carried(_),  \* what the link carries of an event
          MaxFrames    \* bound: how many events are emitted

VARIABLES sent,        \* the events emitted so far
          got          \* the packets handed to the router so far

Init == sent = <<>> /\ got = <<>>

Send == /\ Len(sent) < MaxFrames
        /\ \E f \in Frames : sent' = Append(sent, f)
        /\ UNCHANGED got

Deliver == /\ Len(got) < Len(sent)
           /\ got' = Append(got, Carried(sent[Len(got) + 1]))
           /\ UNCHANGED sent

Next == Send \/ Deliver

Spec == Init /\ [][Next]_<<sent, got>> /\ WF_<<sent, got>>(Deliver)
=============================================================================
