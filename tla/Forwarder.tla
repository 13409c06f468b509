----------------------------- MODULE Forwarder -------------------------------
(***************************************************************************)
(* The forwarding threads of the scanner: pipe_0000_Thread turns what a    *)
(* peer sends into messages, Forward_MSG_Queue_Thread sends messages on to *)
(* the peers and waits in WRITE_RSP for the dongle's status of each.       *)
(*                                                                         *)
(*   line -- UartCmdRxThread --> pipe0 -- pipe_0000_Thread --> fwdq        *)
(*     ^        |  |                                             |         *)
(*     |        |  +---> rsp ------> Forward_MSG_Queue_Thread <--+         *)
(*     |        +--> comq --> CentralModeThread   |                        *)
(*     |        +--> pingq                |       |                        *)
(*   dongle <-------- cmds ---------------+-------+                        *)
(*                                                                         *)
(* The router serves every queue with one thread, so that it is held up    *)
(* for all of them by any that is full.  CentralModeThread reads comq      *)
(* until it goes to bond(), whose two writes are answered into rsp; the    *)
(* ping monitor, which the repository declares only, may read pingq.  The  *)
(* queues belong to the kernel and outlive the process.                    *)
(*                                                                         *)
(* main() of this build does not start the two forwarding threads.  They   *)
(* are modelled as they are written, with the connection table set by      *)
(* Update_Conn_Status as it would be by a build that does.                 *)
(***************************************************************************)
EXTENDS Integers, Sequences, FiniteSets

CONSTANTS
    MAX_NUM_PERIPHERALS,  \* entries of Conn_Device_List, 5 in the code
    RETRY_COUNT,          \* 4 in the code
    QCap,                 \* messages a System V queue holds
    Bounds                \* what may happen in a behaviour: records of Bound

\* How many links come up, how many messages are sent, how often a write() fails
\* and the process is started again; which messages those are (of the cloud, of the
\* ping monitor, of a peer), how a link ends, and what statuses the dongle answers
\* with.
PeerKinds == {"WRITE_REQUEST", "NOTIFICATION", "ANSWER", "PING"}
EndKinds  == {"TERMINATED", "FAILED"}
Bound == [links : Nat, messages : Nat, faults : Nat, restarts : Nat,
          kinds : SUBSET (PeerKinds \cup EndKinds \cup {"CLOUD", "MONITOR"}),
          statuses : SUBSET Nat]

ASSUME ForwarderAssumption ==
    /\ MAX_NUM_PERIPHERALS \in Nat \ {0} /\ RETRY_COUNT \in Nat \ {0}
    /\ QCap \in Nat \ {0}
    /\ \A b \in Bounds : b \in Bound

Handle == 0..(MAX_NUM_PERIPHERALS - 1)

VARIABLES
    conn,         \* Conn_Device_List[h].status
    Slave_Count,  \* BLE_Mode_Change.Slave_Count
    line,         \* what the dongle has sent and UartCmdRxThread has not read
    pipe0,        \* the queue of connection 0
    fwdq,         \* MESSAGE_SEND_TO_PEER_DEVICE
    rsp,          \* WRITE_RSP
    comq,         \* COMMANDRESP
    pingq,        \* PING_PKT_RSP
    cmds,         \* commands the dongle has not answered: the connection each is meant for
    central,      \* CentralModeThread: reading its queue, or where it is in bond()
    fwd,          \* Forward_MSG_Queue_Thread: where it is and its locals
    aside,        \* ghost: commands written, or old statuses, nobody waits for
    lost,         \* ghost: notifications that were waited for and not written
    left          \* what is left of the bounds

queues == <<line, pipe0, fwdq, rsp, comq, pingq>>
vars == <<conn, Slave_Count, line, pipe0, fwdq, rsp, comq, pingq, cmds, central, fwd, aside, lost, left>>

SUCCESS      == \h00
NO_RESOURCES == \h04
DISCONNECTED == \h14
PENDING      == \h16

\* What a message is from (buffer[0]) and, for a ping, its connection
\* (buffer[1]), or the direction of a peer's message (buffer[1] as well).
CLOUD == \hFF
PING  == \hEE
PEER  == \h00
Message == [from : {CLOUD, PING, PEER}, arg : Nat]

Idle == [at |-> "RECV", from |-> PEER, idz |-> 0, retry |-> 0]

\* The first start: the kernel has made the queues.  What a run finds in them
\* otherwise is what the run before has left there, see Restart.
Init ==
    /\ conn = [h \in Handle |-> FALSE] /\ Slave_Count = 0
    /\ line = <<>> /\ pipe0 = <<>> /\ fwdq = <<>> /\ rsp = <<>> /\ comq = <<>> /\ pingq = <<>>
    /\ cmds = <<>> /\ central = "READS" /\ fwd = Idle
    /\ aside = 0 /\ lost = 0 /\ left \in Bounds

\* Mutant of Room: a queue without a limit.
RoomAlways(queue) == TRUE

\* msgsnd() waits while the queue is full.
Room(queue) == Len(queue) < QCap

\* Mutant of Rest: a message that is read stays in the queue.
RestAll(queue) == queue

\* msgrcv() takes the first message.
Rest(queue) == Tail(queue)

Use(what) == left[what] > 0 /\ left' = [left EXCEPT ![what] = @ - 1]

-----------------------------------------------------------------------------
(* The rest of the system *)

\* A link comes up and is entered in the table.
Update_Conn_Status(h) ==
    /\ ~conn[h] /\ Use("links")
    /\ conn' = [conn EXCEPT ![h] = TRUE]
    /\ UNCHANGED <<Slave_Count, queues, cmds, central, fwd, aside, lost>>

\* The cloud binary, or the ping monitor, posts a message.
Post(m) ==
    /\ Room(fwdq) /\ Use("messages")
    /\ fwdq' = Append(fwdq, m)
    /\ UNCHANGED <<conn, Slave_Count, line, pipe0, rsp, comq, pingq, cmds, central, fwd, aside, lost>>

\* The ping monitor reads one of its messages, if it runs.
PingRead ==
    /\ pingq # <<>> /\ pingq' = Rest(pingq)
    /\ UNCHANGED <<conn, Slave_Count, line, pipe0, fwdq, rsp, comq, cmds, central, fwd, aside, lost, left>>

\* The dongle puts an event on the line: a write request or notification of the
\* peer of connection 0, one that answers Central or a ping; or the end of a
\* link, which failed (reason 3E, Central is told) or terminated.
Report(e) == line' = Append(line, e) /\ UNCHANGED <<pipe0, fwdq, rsp, comq, pingq>>
PeerSends ==
    /\ Use("messages")
    /\ \E kind \in PeerKinds \cap left.kinds : Report([kind |-> kind, of |-> 0])
    /\ UNCHANGED <<conn, Slave_Count, cmds, central, fwd, aside, lost>>
LinkEnds(h) ==
    /\ conn[h]
    /\ ~\E k \in 1..Len(line) : line[k].kind \in EndKinds /\ line[k].of = h
    /\ \E kind \in EndKinds \cap left.kinds : Report([kind |-> kind, of |-> h])
    /\ UNCHANGED <<conn, Slave_Count, cmds, central, fwd, aside, lost, left>>

\* The dongle answers a command.
Answer ==
    /\ cmds # <<>> /\ cmds' = Tail(cmds)
    /\ \E s \in left.statuses : Report([kind |-> "STATUS", of |-> s])
    /\ UNCHANGED <<conn, Slave_Count, central, fwd, aside, lost, left>>

\* A command whose status nobody waits for is written, or write() fails.
WriteAside == /\ \/ cmds' = Append(cmds, 0) /\ aside' = aside + 1 /\ UNCHANGED left
                 \/ Use("faults") /\ UNCHANGED <<cmds, aside>>
              /\ UNCHANGED lost

-----------------------------------------------------------------------------
(* CentralModeThread, as far as it shares queues with the others *)

\* Any message may be the one that makes Central start bond(): it then reads no
\* more, but writes twice (notify(), and data_led(), whose packet may be none).
CentralReads ==
    /\ central = "READS" /\ comq # <<>> /\ comq' = Rest(comq)
    /\ central' \in {"READS", "NOTIFY"}
    /\ UNCHANGED <<conn, Slave_Count, line, pipe0, fwdq, rsp, pingq, cmds, fwd, aside, lost, left>>
bond ==
    /\ \/ central = "NOTIFY" /\ central' = "DATA_LED" /\ WriteAside
       \/ central = "DATA_LED" /\ central' = "LOOP"
          /\ (WriteAside \/ UNCHANGED <<cmds, aside, lost, left>>)
    /\ UNCHANGED <<conn, Slave_Count, queues, fwd>>

CentralModeThread == CentralReads \/ bond

-----------------------------------------------------------------------------
(* UartCmdRxThread (EventRouter!Route) *)

\* Upadate_Disconnection: the only place Slave_Count is set.
Counted(table) == Cardinality({h \in Handle : table[h]})

\* A link that failed is taken out of the table before Central is told, and the
\* table counted only when that is done ("RECOUNT").
Routed(e) ==
    \/ /\ e.kind = "STATUS" /\ Room(rsp) /\ rsp' = Append(rsp, e.of)
       /\ UNCHANGED <<conn, Slave_Count, pipe0, comq, pingq>>
    \/ /\ e.kind \in {"WRITE_REQUEST", "NOTIFICATION"}
       /\ Room(pipe0) /\ pipe0' = Append(pipe0, e.kind)
       /\ UNCHANGED <<conn, Slave_Count, rsp, comq, pingq>>
    \/ /\ e.kind = "PING" /\ Room(pingq) /\ pingq' = Append(pingq, e.kind)
       /\ UNCHANGED <<conn, Slave_Count, pipe0, rsp, comq>>
    \/ /\ e.kind \in {"ANSWER", "RECOUNT"}
       /\ Room(comq) /\ comq' = Append(comq, e.kind)
       /\ Slave_Count' = IF e.kind = "RECOUNT" THEN Counted(conn) ELSE Slave_Count
       /\ UNCHANGED <<conn, pipe0, rsp, pingq>>
    \/ /\ e.kind = "TERMINATED"
       /\ conn' = [conn EXCEPT ![e.of] = FALSE]
       /\ Slave_Count' = Counted(conn')
       /\ UNCHANGED <<pipe0, rsp, comq, pingq>>
RouteNext ==
    /\ line # <<>>
    /\ \/ line' = Tail(line) /\ Routed(Head(line))
       \/ /\ Head(line).kind = "FAILED"
          /\ conn' = [conn EXCEPT ![Head(line).of] = FALSE]
          /\ line' = [line EXCEPT ![1].kind = "RECOUNT"]
          /\ UNCHANGED <<Slave_Count, pipe0, rsp, comq, pingq>>
    /\ UNCHANGED <<fwdq, cmds, central, fwd, aside, lost, left>>

\* The message of a write request has the direction 1, any other 0; the
\* connection is always written as 0.
pipe_0000_Thread ==
    /\ pipe0 # <<>> /\ pipe0' = Rest(pipe0)
    /\ Room(fwdq)
    /\ fwdq' = Append(fwdq, [from |-> PEER,
                             arg |-> IF Head(pipe0) = "WRITE_REQUEST" THEN 1 ELSE 0])
    /\ UNCHANGED <<conn, Slave_Count, line, rsp, comq, pingq, cmds, central, fwd, aside, lost, left>>

-----------------------------------------------------------------------------
(* Forward_MSG_Queue_Thread *)

Forwarding == UNCHANGED <<conn, Slave_Count, line, pipe0, comq, pingq, central>>

\* The next message.  One of the cloud, or of a peer, goes round the table only
\* if Slave_Count is not 0; a peer's own with direction 0 is dropped.
Take ==
    /\ fwd.at = "RECV" /\ fwdq # <<>> /\ fwdq' = Rest(fwdq)
    /\ LET m == Head(fwdq)
           Goto(at, idz) == fwd' = [at |-> at, from |-> m.from, idz |-> idz, retry |-> 0]
       IN  \/ m.from = CLOUD /\ Slave_Count > 0 /\ Goto("LOOP", 0)
           \/ m.from = PING  /\ Goto("SEND", m.arg)
           \/ m.from = PEER  /\ m.arg = 1 /\ Goto("NOTIFY", 0)
           \/ m.from = CLOUD /\ Slave_Count = 0 /\ UNCHANGED fwd
           \/ m.from = PEER  /\ m.arg # 1 /\ UNCHANGED fwd
    /\ Forwarding /\ UNCHANGED <<rsp, cmds, aside, lost, left>>

\* A peer's write goes back to connection 0, as a notification and a second
\* later as a write; the statuses of both stay in the queue.
Notify_back ==
    /\ fwd.at = "NOTIFY" /\ fwd' = [fwd EXCEPT !.at = "WRITE"]
    /\ WriteAside
    /\ Forwarding /\ UNCHANGED <<fwdq, rsp>>
GATT_WRITE_VALUE ==
    /\ fwd.at = "WRITE"
    /\ fwd' = [fwd EXCEPT !.at = IF Slave_Count > 0 THEN "LOOP" ELSE "RECV"]
    /\ WriteAside
    /\ Forwarding /\ UNCHANGED <<fwdq, rsp>>

\* The loop over the table; a peer's message is not for its own connection.
Addressed(h) == conn[h] /\ (fwd.from = PEER => h # 0)
Onward(idz) == [fwd EXCEPT !.at = "LOOP", !.idz = idz + 1]
Loop ==
    /\ fwd.at = "LOOP"
    /\ fwd' = IF fwd.idz \notin Handle THEN [fwd EXCEPT !.at = "RECV"]
              ELSE IF Addressed(fwd.idz) THEN [fwd EXCEPT !.at = "SEND", !.retry = 0]
              ELSE Onward(fwd.idz)
    /\ Forwarding /\ UNCHANGED <<fwdq, rsp, cmds, aside, lost, left>>

\* Mutant of Notified: the packet is written twice.
NotifiedTwice(idz) == <<0, 0>>

\* Notify_data writes connection 0 into the packet, whichever it is called for.
\* That write() failed is not looked at: the status is waited for all the same.
Notified(idz) == <<0>>
Notify_data ==
    /\ fwd.at = "SEND" /\ fwd' = [fwd EXCEPT !.at = "WAIT"]
    /\ \/ cmds' = cmds \o Notified(fwd.idz) /\ UNCHANGED <<lost, left>>
       \/ Use("faults") /\ lost' = lost + 1 /\ UNCHANGED cmds
    /\ Forwarding /\ UNCHANGED <<fwdq, rsp, aside>>

\* Mutant of Retried: a pending notification is never given up.
RetriedForEver(status, retry, from) ==
    CASE status \in {SUCCESS, DISCONNECTED} -> RETRY_COUNT
      [] status = NO_RESOURCES -> 0
      [] OTHER -> retry

\* retry_needed: a pending notification counts, but not one of the cloud, where
\* the increment is commented out; any other status changes nothing.
Retried(status, retry, from) ==
    CASE status \in {SUCCESS, DISCONNECTED} -> RETRY_COUNT
      [] status = PENDING /\ from # CLOUD -> retry + 1
      [] status = NO_RESOURCES -> 0
      [] OTHER -> retry

\* Whatever status is in the queue is taken for that of the last notification.
Await ==
    /\ fwd.at = "WAIT" /\ rsp # <<>> /\ rsp' = Rest(rsp)
    /\ LET retry == Retried(Head(rsp), fwd.retry, fwd.from)
       IN  fwd' = IF retry < RETRY_COUNT THEN [fwd EXCEPT !.at = "SEND", !.retry = retry]
                  ELSE IF fwd.from = PING THEN [fwd EXCEPT !.at = "RECV"]
                  ELSE Onward(fwd.idz)
    /\ Forwarding /\ UNCHANGED <<fwdq, cmds, aside, lost, left>>

Forward_MSG_Queue_Thread ==
    Take \/ Notify_back \/ GATT_WRITE_VALUE \/ Loop \/ Notify_data \/ Await

-----------------------------------------------------------------------------

\* The process ends and is started again.  Opening the port flushes it, so that
\* the commands the dongle has not read and the events on the line are gone; the
\* queues stay, and nobody waits for what is in WRITE_RSP.
Restart ==
    /\ Use("restarts")
    /\ conn' = [h \in Handle |-> FALSE] /\ Slave_Count' = 0
    /\ line' = <<>> /\ cmds' \in {<<>>, cmds}
    /\ central' = "READS" /\ fwd' = Idle
    /\ aside' = Len(rsp) + Len(cmds') /\ lost' = 0
    /\ UNCHANGED <<pipe0, fwdq, rsp, comq, pingq>>

Environment ==
    \/ \E h \in Handle : \/ Update_Conn_Status(h) \/ LinkEnds(h)
                         \/ "MONITOR" \in left.kinds /\ Post([from |-> PING, arg |-> h])
    \/ "CLOUD" \in left.kinds /\ Post([from |-> CLOUD, arg |-> 0])
    \/ PeerSends \/ PingRead

Next == \/ Environment \/ Answer \/ CentralModeThread \/ RouteNext \/ pipe_0000_Thread
        \/ Forward_MSG_Queue_Thread \/ Restart

\* The threads are scheduled and the dongle answers every command.
Spec == /\ Init /\ [][Next]_vars
        /\ WF_vars(Answer) /\ WF_vars(CentralModeThread) /\ WF_vars(RouteNext)
        /\ WF_vars(pipe_0000_Thread) /\ WF_vars(Forward_MSG_Queue_Thread)

-----------------------------------------------------------------------------
(* Properties *)

Kind == {"STATUS", "WRITE_REQUEST", "NOTIFICATION", "ANSWER", "PING", "TERMINATED", "FAILED",
         "RECOUNT"}

\* The variables keep to their types and the queues to their capacity.
TypeOK ==
    /\ conn \in [Handle -> BOOLEAN] /\ Slave_Count \in 0..MAX_NUM_PERIPHERALS
    /\ line \in Seq([kind : Kind, of : Nat])
    /\ pipe0 \in Seq({"WRITE_REQUEST", "NOTIFICATION"}) /\ fwdq \in Seq(Message)
    /\ rsp \in Seq(Nat) /\ comq \in Seq({"ANSWER", "RECOUNT"}) /\ pingq \in Seq({"PING"})
    /\ Len(pipe0) <= QCap /\ Len(fwdq) <= QCap /\ Len(rsp) <= QCap
    /\ Len(comq) <= QCap /\ Len(pingq) <= QCap
    /\ cmds \in Seq(Handle) /\ central \in {"READS", "NOTIFY", "DATA_LED", "LOOP"}
    /\ fwd \in [at : {"RECV", "NOTIFY", "WRITE", "LOOP", "SEND", "WAIT"},
                from : {CLOUD, PING, PEER}, idz : Nat, retry : 0..RETRY_COUNT]
    /\ aside \in Nat /\ lost \in Nat /\ left \in Bound

\* The statuses that are or will be in WRITE_RSP are that of the notification
\* which is waited for and those of the writes nobody waits for (bond()'s, a
\* peer's write that was sent back, and what an earlier run left behind), less
\* one for every notification that was waited for and not written: no status is
\* lost on the way and none is taken out but in Await.  The status Await reads
\* is that of the notification just sent only where the other two are 0.
IsStatus(e) == e.kind = "STATUS"
Places(events) == {i \in 1..Len(events) : IsStatus(events[i])}
StatusesToCome == Len(cmds) + Cardinality(Places(line)) + Len(rsp)
Awaited == IF fwd.at = "WAIT" THEN 1 ELSE 0
StatusesAccountedFor == StatusesToCome + lost = aside + Awaited

\* The router waits for room in a queue: that of the statuses, of the peer, of
\* Central, of the ping monitor.
Waits(queue, kinds) == line # <<>> /\ Head(line).kind \in kinds /\ ~Room(queue)
HeldByStatus  == Waits(rsp, {"STATUS"})
HeldByPeer    == Waits(pipe0, {"WRITE_REQUEST", "NOTIFICATION"})
HeldByCentral == Waits(comq, {"ANSWER", "RECOUNT"})
HeldByPing    == Waits(pingq, {"PING"})
Held == HeldByStatus \/ HeldByPeer \/ HeldByCentral \/ HeldByPing

\* It waits for good if nobody reads the queue any more: Central is in bond(), the
\* ping monitor does not run, or the forwarding thread has no message and so no
\* reason to read a status;
NotRead == (HeldByCentral /\ central # "READS") \/ HeldByPing
Starved == HeldByStatus /\ fwd.at = "RECV" /\ fwdq = <<>> /\ pipe0 = <<>>

\* or if everyone waits for everyone: it for the peer's queue, whose reader
\* waits for that of the forwarding thread, which waits for a status.
Circle == HeldByPeer /\ ~Room(fwdq) /\ fwd.at = "WAIT" /\ rsp = <<>>

\* Nothing else holds it up for good.
RouterHeldOnlyBy == Held ~> (~Held \/ NotRead \/ Starved \/ Circle)

\* No message of the ping monitor or of a peer holds the thread for good: it is
\* back for the next one after RETRY_COUNT pending answers per connection, unless
\* it is given statuses for ever that reset the count (NO_RESOURCES) or that the
\* code does not know and that leave the count as it is; unless the router does
\* not get on; or unless it waits for a status that nobody is going to send.
Uncounted == fwd.at = "WAIT" /\ rsp # <<>> /\ Head(rsp) \notin {SUCCESS, DISCONNECTED, PENDING}
RoundEnds ==
    []<>Uncounted \/ (fwd.from # CLOUD /\ fwd.at # "RECV"
        ~> \/ fwd.at = "RECV" \/ NotRead \/ Circle
           \/ fwd.at = "WAIT" /\ StatusesToCome = 0)

\* The comment on the loop: "This loop will forward the message to all the BLE
\* connections", that is, a notification sent in it is for the connection
\* the loop is at.
ForwardedToAll ==
    [][fwd.from = CLOUD /\ fwd.at = "SEND" /\ fwd'.at = "WAIT" /\ cmds' # cmds
       => cmds' = Append(cmds, fwd.idz)]_vars
=============================================================================
