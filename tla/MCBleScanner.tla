---------------------------- MODULE MCBleScanner -----------------------------
(***************************************************************************)
(* Small instances of BleScanner.                                          *)
(***************************************************************************)
EXTENDS BleScanner

\* Bytes a non-matching report leaves behind: the 1 looks like the end of a
\* scan, the 2 like a match.
AnyByte   == {0, 1, 2}
LooksDone == {0, 1}

\* What the peer of a link may do: all of it, or notify and ask for another MTU.
AnyEvent == {e.code : e \in PeerEvents}
Notifies == {EVENT_VS_ATT_HANDLE_VALUE_NOTIFICATION, EVENT_VS_ATT_EXCHANGE_MTU_REQUEST}

\* One run of the process with traffic on the link and a failing write, three
\* runs with what each leaves in the queues, two with a failing write, or two with
\* a link that outlives the first and more traffic than a queue of the peer holds.
OneRun == [adverts |-> 3, traffic |-> 2, faults |-> 1, restarts |-> 0,
           bytes |-> AnyByte, peer |-> AnyEvent]
Reruns == [adverts |-> 2, traffic |-> 0, faults |-> 0, restarts |-> 2,
           bytes |-> LooksDone, peer |-> {}]
FaultRerun == [adverts |-> 1, traffic |-> 0, faults |-> 1, restarts |-> 1,
               bytes |-> {0}, peer |-> {}]
LinkRerun == [adverts |-> 1, traffic |-> 3, faults |-> 0, restarts |-> 1,
              bytes |-> {0}, peer |-> Notifies]
RunBounds == {OneRun, Reruns, FaultRerun, LinkRerun}
=============================================================================
