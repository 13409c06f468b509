----------------------------- MODULE BleScanner ------------------------------
(***************************************************************************)
(* The scanner process (BLE_Scanner) at the level of whole events:         *)
(*                                                                         *)
(*   CentralModeThread --cmds--> dongle --tty--> UartCmdRxThread           *)
(*          ^                                          |                   *)
(*          +------------ mq["COMMANDRESP"] <----------+--> other queues   *)
(*                                                                         *)
(* The two threads are started by main(); both write to the serial port,   *)
(* and they meet in bounded System V queues whose msgsnd() and msgrcv()    *)
(* block.  The queues belong to the kernel: a restart of the process does  *)
(* not empty them.  That the byte loop turns the serial stream back into   *)
(* the dongle's events is UartFraming's subject; here tty holds events.    *)
(*                                                                         *)
(* Several functions of CentralModeThread end without a return statement.  *)
(* Their result is what the -O0 build leaves in %al, the low byte of the   *)
(* last value compared; the operators ...Result say which that is.         *)
(***************************************************************************)
EXTENDS EventRouter, Sequences

CONSTANTS
    QCap,            \* messages a System V queue holds (157 with the default limits)
    LineCap,         \* bound: events or commands on the serial line, each way
    Bounds           \* what may happen how often, see Bound

\* Bounds on the advertising reports, the events of an established link, the
\* write() calls that fail and the times the process is killed and started
\* again; the bytes a non-matching report may leave as the result, and the codes
\* of the events a peer may cause.
Bound == [adverts : Nat, traffic : Nat, faults : Nat, restarts : Nat,
          bytes : SUBSET (0..255), peer : SUBSET Nat]

ASSUME ScannerAssumption ==
    /\ QCap \in Nat /\ LineCap \in Nat /\ QCap > 0 /\ LineCap > 1
    /\ Bounds \subseteq Bound

VARIABLES
    central,     \* where CentralModeThread is
    scanned_mac, \* Scanned_MAC_Buff: has a device matched (in this run)?
    acking,      \* UartCmdRxThread still has a write request to acknowledge
    cmds,        \* commands written and not yet read by the dongle
    tty,         \* events sent by the dongle and not yet read
    mq,          \* the message queues
    radio,       \* what the dongle is doing
    left,        \* what is left of each bound
    reported,    \* ghost: LINK_ESTABLISHED was reported since the last start
    raced,       \* ghost: the dongle refused a scan cancel since the last start
    unready,     \* ghost: a scan request found the dongle neither idle nor scanning
    inherited,   \* ghost: this run began with an old end of a cancelled scan queued
    linked       \* ghost: this run began with a link up or coming up, or with what the
                 \* peer of an old one asked for still queued (see MtuAsked)

host == <<central, scanned_mac, acking>>
ghosts == <<reported, raced, unready, inherited, linked>>
vars == <<central, scanned_mac, acking, cmds, tty, mq, radio, left, reported, raced, unready,
          inherited, linked>>

BT_RESET == \h0C03
VS_GAP_DEVICE_INITIALIZATION    == \hFE00
VS_GAP_DEVICE_DISCOVERY_REQUEST == \hFE04
VS_GAP_DEVICE_DISCOVERY_CANCEL  == \hFE05
VS_GAP_ESTABLISH_LINK_REQUEST   == \hFE09
VS_GAP_AUTHENTICATE             == \hFE0B
VS_GAP_PASSKEY_UPDATE           == \hFE0C
VS_GAP_SET_PARAMETER            == \hFE30
GATT_WRITECHARVALUE             == \hFD92
VS_ATT_WRITE_RESPONSE           == \hFD13

Boot   == {"RESET", "DEVICE_INIT", "PARAM_UPDATE", "INIT"}
Bonding == {"BOND", "PASSKEY", "NOTIFY", "DATA_LED", "LOOP", "CRASHED"}

Init ==
    /\ central = "RESET" /\ scanned_mac = FALSE /\ acking = FALSE
    /\ cmds = <<>> /\ tty = <<>>
    /\ mq = [q \in Queues |-> <<>>]
    /\ radio = "off"
    /\ left \in Bounds
    /\ reported = FALSE /\ raced = FALSE /\ unready = FALSE /\ inherited = FALSE
    /\ linked = FALSE

Running == central # "CRASHED"

Use(what) == left[what] > 0 /\ left' = [left EXCEPT ![what] = @ - 1]

-----------------------------------------------------------------------------
(* The dongle (external): how it answers commands and what it reports *)

Event(code, status, arg, x) ==
    [evt |-> VENDOR, code |-> code, status |-> status, arg |-> arg, x |-> x]
CommandComplete == [evt |-> \h0E, code |-> 0, status |-> 0, arg |-> 0, x |-> 0]
CommandStatus(op, status) == Event(VS_COMMAND_STATUS, status, op, 0)
ScanDone(status) == Event(VS_GAP_DEVICE_DISCOVERY, status, 0, 0)

UUIDMatch == 256    \* in the place of a last byte: the service UUID matched
ScanCancelled == \h30
Refused == \h11

\* The dongle puts the events on the serial line.
Emit(events) == /\ Len(tty) + Len(events) <= LineCap
                /\ tty' = tty \o events

\* What the dongle does with a command: what it is doing next, its answers.
Reaction(op) ==
    CASE op = BT_RESET -> [radio |-> "off", events |-> <<CommandComplete>>]
      [] op = VS_GAP_DEVICE_INITIALIZATION ->
           [radio |-> "idle", events |-> <<CommandStatus(op, 0),
                                           Event(VS_GAP_DEVICE_INIT_DONE, 0, 0, 0)>>]
      [] op = VS_GAP_DEVICE_DISCOVERY_REQUEST /\ radio = "idle" ->
           [radio |-> "scanning", events |-> <<CommandStatus(op, 0)>>]
      [] op = VS_GAP_DEVICE_DISCOVERY_CANCEL /\ radio = "scanning" ->
           [radio |-> "idle", events |-> <<CommandStatus(op, 0), ScanDone(ScanCancelled)>>]
      [] op = VS_GAP_ESTABLISH_LINK_REQUEST /\ radio = "idle" ->
           [radio |-> "connecting", events |-> <<CommandStatus(op, 0)>>]
      [] \/ op \in {VS_GAP_SET_PARAMETER, VS_ATT_WRITE_RESPONSE}
         \/ /\ op \in {VS_GAP_AUTHENTICATE, VS_GAP_PASSKEY_UPDATE, GATT_WRITECHARVALUE}
            /\ radio = "connected" ->
           [radio |-> radio, events |-> <<CommandStatus(op, 0)>>]
      [] OTHER -> [radio |-> radio, events |-> <<CommandStatus(op, Refused)>>]

DongleCommand ==
    /\ cmds # <<>>
    /\ cmds' = Tail(cmds)
    /\ Emit(Reaction(Head(cmds)).events)
    /\ radio' = Reaction(Head(cmds)).radio
    /\ raced' = \/ raced
                \/ Head(cmds) = VS_GAP_DEVICE_DISCOVERY_CANCEL /\ radio # "scanning"
    /\ unready' = \/ unready
                  \/ /\ Head(cmds) = VS_GAP_DEVICE_DISCOVERY_REQUEST
                     /\ radio \notin {"idle", "scanning"}
    /\ UNCHANGED <<host, mq, left, reported, inherited, linked>>

Advertise ==
    /\ radio = "scanning" /\ Use("adverts")
    /\ \E b \in left.bytes \cup {UUIDMatch} : Emit(<<Event(VS_GAP_DEVICE_INFORMATION, 0, 0, b)>>)
    /\ UNCHANGED <<host, cmds, mq, radio, ghosts>>

ScanEnds ==
    /\ radio = "scanning" /\ radio' = "idle"
    /\ Emit(<<ScanDone(0)>>)
    /\ UNCHANGED <<host, cmds, mq, left, ghosts>>

\* The link comes up, is refused, or comes up and fails at once.
LinkOutcome ==
    /\ radio = "connecting"
    /\ \/ radio' = "connected" /\ Emit(<<Event(VS_GAP_LINK_ESTABLISHED, 0, 0, 0)>>)
                               /\ reported' = TRUE
       \/ radio' = "idle" /\ Emit(<<Event(VS_GAP_LINK_ESTABLISHED, Refused, 0, 0)>>)
                          /\ reported' = TRUE
       \/ radio' = "idle" /\ Emit(<<Event(VS_GAP_LINK_TERMINATED, 0, 0, \h3E)>>)
                          /\ UNCHANGED reported
    /\ UNCHANGED <<host, cmds, mq, left, raced, unready, inherited, linked>>

\* Notifications, write requests and other attribute requests of the peer (one
\* link: connection handle 0), or the loss of the link.
PeerEvents ==
    {Event(code, 0, 0, 0) : code \in {EVENT_VS_ATT_HANDLE_VALUE_NOTIFICATION,
        VS_ATT_WRITE_RESPONSE_EVENT, EVENT_VS_ATT_EXCHANGE_MTU_REQUEST, EVENT_VS_ATT_READ_REQUEST}}
    \cup {Event(EVENT_VS_ATT_WRITE_REQUEST, 0, 0, k) :
              k \in {Write01, WritePing, WriteData, WriteOther}}
LinkTraffic ==
    /\ radio = "connected" /\ Use("traffic")
    /\ \/ /\ radio' = radio
          /\ \E e \in PeerEvents : e.code \in left.peer /\ Emit(<<e>>)
       \/ /\ radio' = "idle"
          /\ \E reason \in {\h08, \h3E} :
                 Emit(<<Event(VS_GAP_LINK_TERMINATED, 0, 0, reason)>>)
    /\ UNCHANGED <<host, cmds, mq, ghosts>>

-----------------------------------------------------------------------------
(* UartCmdRxThread, one event *)

\* Mutant of Enqueue: a queue without a limit.
EnqueueUnbounded(q, e) == mq' = [mq EXCEPT ![q] = Append(@, e)]

\* sys_mq_send: msgsnd() waits while the queue is full.
Enqueue(q, e) == Len(mq[q]) < QCap /\ mq' = [mq EXCEPT ![q] = Append(@, e)]

\* The event goes to its queue, and while the queue is full the thread waits
\* with it.  The connection table the thread updates on LINK_TERMINATED is
\* constant here: nothing in this build ever sets an entry, as
\* Update_Conn_Status is not called.
RouteEvent ==
    /\ Running /\ ~acking /\ tty # <<>>
    /\ tty' = Tail(tty)
    /\ LET e == Head(tty)
       IN  /\ IF Route(e) = NoQueue THEN mq' = mq ELSE Enqueue(Route(e), e)
           /\ acking' = IsWrite(e)
    /\ UNCHANGED <<central, scanned_mac, cmds, radio, left, ghosts>>

\* BLECOMWrite succeeds, or write() fails and the command is lost.
Written(op) == /\ Len(cmds) < LineCap /\ cmds' = Append(cmds, op)
               /\ UNCHANGED left
NotWritten  == Use("faults") /\ UNCHANGED cmds

\* A write request is acknowledged, whatever became of it, by a command of
\* this thread's own.
data_ack ==
    /\ Running /\ acking /\ acking' = FALSE
    /\ Written(VS_ATT_WRITE_RESPONSE) \/ NotWritten
    /\ UNCHANGED <<central, scanned_mac, tty, mq, radio, ghosts>>

UartCmdRxThread == RouteEvent \/ data_ack

-----------------------------------------------------------------------------
(* CentralModeThread *)

\* A write whose result is not looked at.
Send(from, op, to) ==
    /\ central = from /\ central' = to
    /\ Written(op) \/ NotWritten
    /\ UNCHANGED <<scanned_mac, acking, tty, mq, radio, ghosts>>

\* A request that is repeated or abandoned when the write fails.
Request(from, op, to, otherwise) ==
    /\ central = from
    /\ \/ Written(op) /\ central' = to
       \/ NotWritten  /\ central' = otherwise
    /\ UNCHANGED <<scanned_mac, acking, tty, mq, radio, ghosts>>

\* sys_mq_recv(tCommandRespQId, ...) blocks until there is a message.
buffer  == Head(mq["COMMANDRESP"])
Receive == /\ mq["COMMANDRESP"] # <<>>
           /\ mq' = [mq EXCEPT !["COMMANDRESP"] = Tail(@)]
           /\ UNCHANGED <<acking, cmds, tty, radio, left, ghosts>>

HCI_Reset == Send("RESET", BT_RESET, "DEVICE_INIT")
HCI_Init  == Send("DEVICE_INIT", VS_GAP_DEVICE_INITIALIZATION, "PARAM_UPDATE")

\* Twelve SET_PARAM commands in the code; all their answers are only printed.
PARAM_UPDATE == Send("PARAM_UPDATE", VS_GAP_SET_PARAMETER, "INIT")

StateInit == /\ central = "INIT" /\ central' = "SCAN_REQ"
             /\ UNCHANGED <<scanned_mac, acking, cmds, tty, mq, radio, left, ghosts>>

\* Device_conn_count() is 0 in this build, so the request is always made.
Device_Scan_Req == Request("SCAN_REQ", VS_GAP_DEVICE_DISCOVERY_REQUEST, "SCAN_RSP", "INIT")

\* No return statement: the status of the right answer, the low byte of the
\* command another status answers, or the low byte of another event's code.
ScanRspResult(e) ==
    IF e.code # VS_COMMAND_STATUS THEN e.code % 256
    ELSE IF e.arg # VS_GAP_DEVICE_DISCOVERY_REQUEST THEN e.arg % 256
    ELSE e.status

Device_Scan_Rsp ==
    /\ central = "SCAN_RSP" /\ Receive
    /\ central' = IF ScanRspResult(buffer) = 0 THEN "SCAN_DATA" ELSE "INIT"
    /\ UNCHANGED scanned_mac

\* A report with the service UUID stores the address and returns 2; nothing
\* else returns: the last byte compared, or the low byte of the event's code
\* (1 for DEVICE_DISCOVERY, the end of the scan).
Matches(e) == e.code = VS_GAP_DEVICE_INFORMATION /\ e.x = UUIDMatch

\* Mutants of ScanDataResult: any report counts as a match; the end of the
\* scan is not recognised.
ScanDataNoUUID(e) == IF e.code = VS_GAP_DEVICE_INFORMATION THEN 2 ELSE e.code % 256
ScanDataNoEnd(e) == IF Matches(e) THEN 2
                    ELSE IF e.code = VS_GAP_DEVICE_INFORMATION THEN e.x ELSE 255

ScanDataResult(e) == IF Matches(e) THEN 2
                     ELSE IF e.code = VS_GAP_DEVICE_INFORMATION THEN e.x
                     ELSE e.code % 256

\* So that the low byte 2 of a peer's request for another MTU is a match too.
MtuAsked(e) == e.code = EVENT_VS_ATT_EXCHANGE_MTU_REQUEST

Device_Scan_Data ==
    /\ central = "SCAN_DATA" /\ Receive
    /\ central' = CASE ScanDataResult(buffer) = 1 -> "SCAN_REQ"
                     [] ScanDataResult(buffer) = 2 -> "SCAN_CANCEL"
                     [] OTHER                      -> "SCAN_DATA"
    /\ scanned_mac' = (scanned_mac \/ Matches(buffer))

Device_Scan_Cancel_Req ==
    Request("SCAN_CANCEL", VS_GAP_DEVICE_DISCOVERY_CANCEL, "SCAN_CANCEL_RSP", "SCAN_CANCEL")

\* Mutants of CancelDone: any message, or any end of a scan, will do.
CancelAssumed(e) == TRUE
CancelAnyEnd(e)  == e.code = VS_GAP_DEVICE_DISCOVERY

\* Only the end-of-scan event with the status "cancelled" counts.
CancelDone(e) == e.code = VS_GAP_DEVICE_DISCOVERY /\ e.status = ScanCancelled

Device_Scan_Cancel_Rsp ==
    /\ central = "SCAN_CANCEL_RSP" /\ Receive
    /\ central' = IF CancelDone(buffer) THEN "LINK_REQ" ELSE "SCAN_CANCEL_RSP"
    /\ UNCHANGED scanned_mac

Device_Establish_Link_Req ==
    Request("LINK_REQ", VS_GAP_ESTABLISH_LINK_REQUEST, "LINK_RSP", "LINK_REQ")

\* Mutant of LinkRspResult: the dongle's acceptance of the request is enough.
LinkRspAccepted(e) == IF e.code \in {VS_GAP_LINK_ESTABLISHED, VS_COMMAND_STATUS}
                      THEN e.status ELSE 255

\* The status of LINK_ESTABLISHED is not looked at.  Where no return statement
\* is reached the result is the reason, or byte 6, of the event.
LinkRspResult(e) ==
    CASE e.code = VS_GAP_LINK_ESTABLISHED -> 0
      [] e.code = VS_GAP_LINK_TERMINATED  -> IF e.x = \h3E THEN 2 ELSE e.x
      [] OTHER -> IF e.arg = \hFE08 THEN 3 ELSE e.arg % 256

Device_Establish_Link_Rsp ==
    /\ central = "LINK_RSP" /\ Receive
    /\ central' = IF LinkRspResult(buffer) = 0 THEN "BOND" ELSE "LINK_RSP"
    /\ scanned_mac' = (scanned_mac \/ buffer.code = VS_GAP_LINK_ESTABLISHED)

\* bond(): pairing, pass key and notification commands, each sent blindly.
bond == \/ Send("BOND", VS_GAP_AUTHENTICATE, "PASSKEY")
        \/ Send("PASSKEY", VS_GAP_PASSKEY_UPDATE, "NOTIFY")
        \/ Send("NOTIFY", GATT_WRITECHARVALUE, "DATA_LED")

\* data_led() indexes its packet with an uninitialised variable: the packet is
\* as intended, it is sent as bytes the dongle ignores, or the process dies.
data_led ==
    /\ central = "DATA_LED"
    /\ \/ central' = "LOOP" /\ (Written(GATT_WRITECHARVALUE) \/ NotWritten)
       \/ central' \in {"LOOP", "CRASHED"} /\ UNCHANGED <<cmds, left>>
    /\ UNCHANGED <<scanned_mac, acking, tty, mq, radio, ghosts>>

CentralModeThread ==
    \/ HCI_Reset \/ HCI_Init \/ PARAM_UPDATE \/ StateInit
    \/ Device_Scan_Req \/ Device_Scan_Rsp \/ Device_Scan_Data
    \/ Device_Scan_Cancel_Req \/ Device_Scan_Cancel_Rsp
    \/ Device_Establish_Link_Req \/ Device_Establish_Link_Rsp
    \/ bond \/ data_led

-----------------------------------------------------------------------------

\* The process ends (killed, or crashed) and is started again.  Opening the
\* port flushes both directions; the kernel's queues and the dongle go on.
Restart ==
    /\ Use("restarts")
    /\ central' = "RESET" /\ scanned_mac' = FALSE /\ acking' = FALSE
    /\ cmds' = <<>> /\ tty' = <<>>
    /\ reported' = FALSE /\ raced' = FALSE /\ unready' = FALSE
    /\ inherited' = \E i \in 1..Len(mq["COMMANDRESP"]) : CancelDone(mq["COMMANDRESP"][i])
    /\ linked' = \/ radio \in {"connecting", "connected"}
                 \/ \E i \in 1..Len(mq["COMMANDRESP"]) : MtuAsked(mq["COMMANDRESP"][i])
    /\ UNCHANGED <<mq, radio>>

Dongle == DongleCommand \/ Advertise \/ ScanEnds \/ LinkOutcome \/ LinkTraffic

Next == Dongle \/ UartCmdRxThread \/ CentralModeThread \/ Restart

\* The threads are scheduled; the dongle answers commands and its scans end.
Spec == /\ Init /\ [][Next]_vars
        /\ WF_vars(UartCmdRxThread) /\ WF_vars(CentralModeThread)
        /\ WF_vars(DongleCommand) /\ WF_vars(ScanEnds)

-----------------------------------------------------------------------------
(* Properties *)

EventSet == [evt : {VENDOR, \h0E}, code : Nat, status : Nat, arg : Nat, x : Nat]
CentralStates ==
    Boot \cup Bonding \cup {"SCAN_REQ", "SCAN_RSP", "SCAN_DATA", "SCAN_CANCEL",
                          "SCAN_CANCEL_RSP", "LINK_REQ", "LINK_RSP"}

\* Every variable keeps to its type and every queue to its capacity.
TypeOK ==
    /\ central \in CentralStates /\ scanned_mac \in BOOLEAN /\ acking \in BOOLEAN
    /\ cmds \in Seq(Nat) /\ tty \in Seq(EventSet) /\ mq \in [Queues -> Seq(EventSet)]
    /\ \A q \in Queues : Len(mq[q]) <= QCap
    /\ Len(cmds) <= LineCap /\ Len(tty) <= LineCap
    /\ radio \in {"off", "idle", "scanning", "connecting", "connected"}
    /\ reported \in BOOLEAN /\ raced \in BOOLEAN /\ unready \in BOOLEAN /\ inherited \in BOOLEAN
    /\ linked \in BOOLEAN

\* Central and the dongle, with everything between them, implement the session:
\* the link is requested only when the radio has stopped scanning and pairing
\* starts only after the dongle has reported on the link.  The one link
\* between the two is the order of the events Central reads.
phase ==
    CASE central \in {"RESET", "DEVICE_INIT", "PARAM_UPDATE"} -> "boot"
      [] central \in {"INIT", "SCAN_REQ", "SCAN_RSP", "SCAN_DATA", "SCAN_CANCEL"} -> "search"
      [] central \in {"SCAN_CANCEL_RSP", "LINK_REQ"} -> "stop"
      [] central = "LINK_RSP" -> "link"
      [] OTHER -> "bond"
Session == INSTANCE GapSession
FollowsSession == Session!Spec

\* Something Central will be given to read is on its way: a message in its
\* queue, an event for that queue on the line, or a command unanswered.
OnItsWay == \/ mq["COMMANDRESP"] # <<>>
            \/ \E i \in 1..Len(tty) : Route(tty[i]) = "COMMANDRESP"
            \/ \E i \in 1..Len(cmds) : cmds[i] \in
                   {VS_GAP_DEVICE_DISCOVERY_REQUEST, VS_GAP_DEVICE_DISCOVERY_CANCEL,
                    VS_GAP_ESTABLISH_LINK_REQUEST}

\* Central waits in msgrcv() for a message that nobody is going to send only in
\* three ways: it took an old answer for that of a scan the dongle refused, not
\* being ready (the write of GAP_DeviceInit failed); the scan ended by itself
\* before the cancel request reached the dongle; or the link it asked for came
\* to nothing.  Where the dongle was ready, the answers that are one message off
\* after the boot (the status of GAP_DeviceInit is read in the place of the
\* scan's) never leave it without one.  (A run misled by an inherited end of a
\* scan may ask for a link in any state of the dongle.)
WaitsForAnAnswer ==
    /\ central = "SCAN_RSP"        => OnItsWay
    /\ central = "SCAN_DATA"       => OnItsWay \/ radio = "scanning" \/ unready
    /\ central = "SCAN_CANCEL_RSP" => OnItsWay \/ raced
    /\ central = "LINK_RSP"        => OnItsWay \/ radio \in {"connecting", "idle"} \/ inherited

\* Across restarts the queues keep what the last run left unread, and Central
\* cannot tell old messages from new ones.  The one old message that misleads
\* it for good is the end of a cancelled scan: in a run that began without one
\* queued, Central starts to pair only on a link report of this run, and never
\* has a link request out while the radio scans.
BondsOnReport    == central \in Bonding => reported \/ inherited
NoScanWhileLinking == central = "LINK_RSP" => radio # "scanning" \/ inherited

\* A link is only ever requested to a device that advertised the service, unless
\* a report of some other device can leave a 2 behind (the result of a match), or
\* Central may read the MTU request of an old link's peer, whose low byte is 2.
LinkTargetMatched ==
    [][central = "LINK_REQ" /\ central' = "LINK_RSP"
       => scanned_mac \/ 2 \in left.bytes \/ linked]_vars

\* UartCmdRxThread waits for room in a queue.  Central empties one of them only:
\* what the peer of a link that outlived the last run sends goes to others.
Blocked == /\ tty # <<>> /\ Route(Head(tty)) \in Queues
           /\ Len(mq[Route(Head(tty))]) = QCap
HeldByPeer == linked /\ Blocked /\ Route(Head(tty)) # "COMMANDRESP"

\* The search does not get stuck in the middle: a scan that was started is left
\* for the next scan or for a device found, also when answers are refusals;
\* unless the dongle was not ready to scan, or its answers stand behind an event
\* of an old link's peer.
SearchGoesOn == central = "SCAN_DATA" ~> central # "SCAN_DATA" \/ unready \/ HeldByPeer

\* UartCmdRxThread is held up by a full queue only as long as Central still
\* reads: it gets on again, unless Central has gone on to bond() or the queue is
\* one for the events of a peer, still full from the run before.
RouterGetsOn == Blocked ~> (~Blocked \/ central \in Bonding \/ HeldByPeer)
=============================================================================
