---------------------------- MODULE MCForwarder -----------------------------
(***************************************************************************)
(* Small instances of Forwarder, with queues of one message.               *)
(***************************************************************************)
EXTENDS Forwarder

\* A status the code does not know.
Unknown == \h11

\* Two connections, of which one has to end before the loops run (Slave_Count);
\* every kind of status (DISCONNECTED is treated as SUCCESS is: one of them stands
\* for both); four messages at once, which is enough for every thread to wait; four
\* for the queues Central and the ping monitor read; and a restart over what the
\* first run left in the queues.
TwoLinks     == [links |-> 2, messages |-> 2, faults |-> 0, restarts |-> 0,
                 kinds |-> {"CLOUD", "WRITE_REQUEST", "TERMINATED"},
                 statuses |-> {SUCCESS, PENDING, Unknown}]
OddStatuses  == [links |-> 1, messages |-> 2, faults |-> 1, restarts |-> 0,
                 kinds |-> {"MONITOR", "WRITE_REQUEST"},
                 statuses |-> {PENDING, NO_RESOURCES, Unknown}]
FourMessages == [links |-> 1, messages |-> 4, faults |-> 0, restarts |-> 0,
                 kinds |-> {"MONITOR", "WRITE_REQUEST", "NOTIFICATION", "TERMINATED"},
                 statuses |-> {DISCONNECTED}]
Others       == [links |-> 1, messages |-> 4, faults |-> 0, restarts |-> 0,
                 kinds |-> {"MONITOR", "ANSWER", "PING", "FAILED"},
                 statuses |-> {DISCONNECTED}]
Rerun        == [links |-> 0, messages |-> 3, faults |-> 1, restarts |-> 1,
                 kinds |-> {"MONITOR", "ANSWER", "WRITE_REQUEST"},
                 statuses |-> {SUCCESS}]
AllBounds    == {TwoLinks, OddStatuses, FourMessages, Others, Rerun}
Quiet        == {TwoLinks}
=============================================================================
