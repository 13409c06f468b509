----------------------------- MODULE UartFraming -----------------------------
(***************************************************************************)
(* The byte-level receiver of the scanner process: the loop of             *)
(* UartCmdRxThread (BLE_Scanner/src/UartCmdRxThread.c), which reads the    *)
(* serial line one byte at a time and cuts the stream into HCI events      *)
(*      0x04 | event code | length | length payload bytes.                 *)
(*                                                                         *)
(* The dongle and the line are modelled by what they have emitted: `sent`  *)
(* are the frames, `taken` of them have left the line completely, and      *)
(* `pos` bytes of the next one have.  The unread input of the tty is       *)
(* therefore the rest of sent[taken+1] followed by the later frames.       *)
(*                                                                         *)
(* A packet is handed to the routing chain by appending it to `out`; what  *)
(* the chain does with it is the subject of BleScanner.                    *)
(***************************************************************************)
EXTENDS Integers, Sequences

CONSTANTS
    Byte,         \* the values of a byte (0..255 in the code)
    IndexMod,     \* `index` is a uint8_t: it wraps at 256 in the code
    Frames,       \* what the dongle may emit: byte sequences
    MaxFrames,    \* bound: frames emitted
    MaxFaults     \* bound: bytes lost on the line plus failed read() calls

BLE_EVT_PKT == 4
BLE_ASD_PKT == 2

ASSUME ByteAssumption ==
    Byte \subseteq Nat /\ {BLE_EVT_PKT, BLE_ASD_PKT} \subseteq Byte
ASSUME SizeAssumption ==
    IndexMod \in Nat /\ IndexMod > 3 /\ MaxFrames \in Nat /\ MaxFaults \in Nat
ASSUME FrameAssumption == Frames \subseteq Seq(Byte) \ {<<>>}

VARIABLES
    sent, taken, pos,       \* the dongle and the line, see above
    faults,                 \* faults so far
    current_state, index, count, rx_packet, rx_byte,   \* the thread's locals
    held,                   \* ghost: all bytes stored since the parser was idle
    out                     \* packets handed to the routing chain

line   == <<sent, taken, pos>>
parser == <<current_state, index, count, rx_packet, held>>
vars   == <<sent, taken, pos, faults, current_state, index, count, rx_packet,
            rx_byte, held, out>>

State_t == {"IDLE", "INIT", "EVENT_RESPONSE", "EVENT_LENGTH", "PACKET_WAIT",
            "ERROR"}

(* rx_byte and rx_packet are not initialised by the code: any contents.    *)
(* rx_packet is pinned to one byte value per behaviour to keep the initial *)
(* states few; no property reads a byte that was not stored.               *)
Init ==
    /\ sent = <<>> /\ taken = 0 /\ pos = 0 /\ faults = 0
    /\ current_state = "IDLE" /\ index = 0 /\ count = 0
    /\ rx_byte \in Byte
    /\ \E b \in Byte : rx_packet = [i \in 0..(IndexMod - 1) |-> b]
    /\ held = <<>> /\ out = <<>>

-----------------------------------------------------------------------------
(* The line *)

Unread == taken < Len(sent)
Frame  == sent[taken + 1]

\* One byte leaves the line.
Shift == /\ IF pos + 1 = Len(Frame)
            THEN taken' = taken + 1 /\ pos' = 0
            ELSE taken' = taken /\ pos' = pos + 1
         /\ sent' = sent

DongleSend == /\ Len(sent) < MaxFrames
              /\ \E f \in Frames : sent' = Append(sent, f)
              /\ UNCHANGED <<taken, pos, faults, parser, rx_byte, out>>

\* A byte is lost: UART overrun, or the tcflush() when the port is opened.
LoseByte == /\ Unread /\ faults < MaxFaults
            /\ Shift
            /\ faults' = faults + 1
            /\ UNCHANGED <<parser, rx_byte, out>>

-----------------------------------------------------------------------------
(* The switch on current_state, for the byte b in rx_byte *)

\* Mutant of Store: an index wider than the uint8_t of the code.
StoreWide(b) == /\ rx_packet' = [rx_packet EXCEPT ![index] = b]
                /\ index' = index + 1
                /\ held' = Append(held, b)

\* rx_packet[index++] = b
Store(b) == /\ rx_packet' = [rx_packet EXCEPT ![index] = b]
            /\ index' = (index + 1) % IndexMod
            /\ held' = Append(held, b)

\* Mutant of Seen: the test of the packet type byte is dropped.
SeenAnyByte(b) == IF index = 0 /\ current_state = "IDLE" THEN "INIT"
                  ELSE current_state

\* An idle parser that sees a packet type byte is in STATE_INIT when the
\* switch is reached.
Seen(b) ==
    IF index = 0 /\ current_state = "IDLE" /\ b \in {BLE_EVT_PKT, BLE_ASD_PKT}
    THEN "INIT" ELSE current_state

Idle(b) == /\ Seen(b) = "IDLE"
           /\ index' = 0 /\ count' = 0 /\ held' = <<>>
           /\ UNCHANGED <<current_state, rx_packet, out>>

InitEvent(b) == /\ Seen(b) = "INIT" /\ b = BLE_EVT_PKT
                /\ Store(b)
                /\ current_state' = "EVENT_RESPONSE"
                /\ UNCHANGED <<count, out>>

InitData(b) == /\ Seen(b) = "INIT" /\ b = BLE_ASD_PKT
               /\ Store(b)
               /\ current_state' = "INIT"
               /\ UNCHANGED <<count, out>>

InitOther(b) == /\ Seen(b) = "INIT" /\ b \notin {BLE_EVT_PKT, BLE_ASD_PKT}
                /\ current_state' = "ERROR"
                /\ UNCHANGED <<index, count, rx_packet, held, out>>

EventResponse(b) == /\ Seen(b) = "EVENT_RESPONSE"
                    /\ Store(b)
                    /\ current_state' = "EVENT_LENGTH"
                    /\ UNCHANGED <<count, out>>

\* Mutants of EventLength: the length is taken to count its own byte, or to
\* leave out the last one.
EventLengthLong(b) == /\ Seen(b) = "EVENT_LENGTH"
                      /\ Store(b)
                      /\ count' = b + 1
                      /\ current_state' = "PACKET_WAIT"
                      /\ UNCHANGED out

EventLengthShort(b) == /\ Seen(b) = "EVENT_LENGTH"
                       /\ Store(b)
                       /\ count' = IF b = 0 THEN 0 ELSE b - 1
                       /\ current_state' = "PACKET_WAIT"
                       /\ UNCHANGED out

EventLength(b) == /\ Seen(b) = "EVENT_LENGTH"
                  /\ Store(b)
                  /\ count' = b
                  /\ current_state' = "PACKET_WAIT"
                  /\ UNCHANGED out

PacketWait(b) == /\ Seen(b) = "PACKET_WAIT" /\ count - 1 > 0
                 /\ Store(b)
                 /\ count' = count - 1
                 /\ UNCHANGED <<current_state, out>>

\* Mutants of PacketDone: dispatch before the last byte is stored; the index is
\* not reset.
PacketDoneEarly(b) ==
    /\ Seen(b) = "PACKET_WAIT" /\ count - 1 <= 0
    /\ rx_packet' = [rx_packet EXCEPT ![index] = b]
    /\ out' = Append(out, [i \in 1..((index + 1) % IndexMod) |->
                               rx_packet[i - 1]])
    /\ current_state' = "IDLE" /\ index' = 0 /\ count' = 0 /\ held' = <<>>

PacketDoneNoReset(b) ==
    /\ Seen(b) = "PACKET_WAIT" /\ count - 1 <= 0
    /\ Store(b)
    /\ out' = Append(out, [i \in 1..((index + 1) % IndexMod) |->
                               rx_packet'[i - 1]])
    /\ current_state' = "IDLE" /\ count' = 0

\* The last byte: the packet goes to the routing chain, and from there to a queue
\* with size `index`.  `out` is the packet as it is sent, its first `index` bytes; the
\* conditions of the chain read rx_packet at fixed places, and behind the end of a
\* short packet find the bytes of an earlier one.
PacketDone(b) ==
    /\ Seen(b) = "PACKET_WAIT" /\ count - 1 <= 0
    /\ rx_packet' = [rx_packet EXCEPT ![index] = b]
    /\ out' = Append(out, [i \in 1..((index + 1) % IndexMod) |->
                               rx_packet'[i - 1]])
    /\ current_state' = "IDLE" /\ index' = 0 /\ count' = 0 /\ held' = <<>>

\* STATE_ERROR has no case in the switch.
Error(b) == Seen(b) = "ERROR" /\ UNCHANGED <<parser, out>>

Switch(b) ==
    \/ Idle(b) \/ InitEvent(b) \/ InitData(b) \/ InitOther(b)
    \/ EventResponse(b) \/ EventLength(b)
    \/ PacketWait(b) \/ PacketDone(b) \/ Error(b)

\* select() returns, read() delivers the next byte.
ReadByte == /\ Unread
            /\ rx_byte' = Frame[pos + 1]
            /\ Shift
            /\ Switch(Frame[pos + 1])
            /\ UNCHANGED faults

\* read() fails (its result is ignored): the previous rx_byte runs through
\* the switch once more.
ReadFails == /\ faults < MaxFaults
             /\ faults' = faults + 1
             /\ Switch(rx_byte)
             /\ UNCHANGED <<line, rx_byte>>

Next == DongleSend \/ LoseByte \/ ReadByte \/ ReadFails

\* The thread is never descheduled for good and select() reports input.
Spec == Init /\ [][Next]_vars /\ WF_vars(ReadByte)

-----------------------------------------------------------------------------
(* Properties *)

\* Every variable keeps to its type; index and count stay in the range of
\* the C objects they stand for.
TypeOK ==
    /\ sent \in Seq(Frames) /\ taken \in Nat /\ pos \in Nat /\ faults \in Nat
    /\ current_state \in State_t
    /\ index \in 0..(IndexMod - 1)
    /\ count \in Nat
    /\ rx_packet \in [0..(IndexMod - 1) -> Byte]
    /\ rx_byte \in Byte
    /\ held \in Seq(Byte)
    /\ out \in Seq(Seq(Byte))

\* An event as the HCI transport defines it and as the parser can hold it:
\* type byte, code, its own payload length, a payload, and no more bytes
\* than `index` can count.
WellFormed(f) == /\ Len(f) >= 4 /\ Len(f) < IndexMod
                 /\ f[1] = BLE_EVT_PKT
                 /\ f[3] = Len(f) - 3

\* The parser stands where the line stands: the bytes of the current frame
\* that have left the line are exactly the bytes it holds, and its state
\* and count are those of that position.
InSync ==
    /\ index = pos
    /\ pos > 0 => /\ Unread
                  /\ \A i \in 1..pos : rx_packet[i - 1] = Frame[i]
    /\ current_state = CASE pos = 0 -> "IDLE"
                          [] pos = 1 -> "EVENT_RESPONSE"
                          [] pos = 2 -> "EVENT_LENGTH"
                          [] OTHER   -> "PACKET_WAIT"
    /\ pos >= 3 => count = Len(Frame) - pos

\* A parser that has come back in step with the line stays in step through
\* well-formed events until the next fault: one lost byte costs packets, but
\* not forever once the parser is idle at a frame boundary.
StaysInSync ==
    [][InSync /\ faults' = faults /\ (Unread => WellFormed(Frame)) => InSync']_vars

\* A packet is delimited by its own length byte: possibly some 0x02 bytes,
\* 0x04, the event code, the length n, then n bytes (one if n is 0).
SelfDelimited(p) ==
    \E n \in 0..(Len(p) - 4) :
        /\ \A i \in 1..n : p[i] = BLE_ASD_PKT
        /\ p[n + 1] = BLE_EVT_PKT
        /\ Len(p) = n + 3 + (IF p[n + 3] = 0 THEN 1 ELSE p[n + 3])

\* What the 8-bit index may leave of the bytes q stored for a packet: all of
\* them if it can count them, and else some of the last ones.
Remains(q, p) ==
    \E n \in 0..(IndexMod - 1) :
        /\ p = SubSeq(q, Len(q) - n + 1, Len(q))
        /\ Len(q) < IndexMod => n = Len(q)

\* Whatever bytes the line loses, the bytes the parser takes for a packet agree
\* with the packet's own length byte, and the router is given those bytes, in
\* order and without one of another packet (the last case of the switch).
OnlySelfDelimited ==
    [][out' # out => LET q == Append(held, rx_byte')
                     IN  /\ SelfDelimited(q)
                         /\ out' = Append(out, out'[Len(out')])
                         /\ Remains(q, out'[Len(out')])]_vars

\* The parser is stuck in STATE_ERROR only behind a 0x02: an event frame alone
\* (0x04 first) never wedges it, whatever bytes follow and whatever is lost.
WedgedBehind02 ==
    current_state = "ERROR" =>
        /\ rx_packet[0] = BLE_ASD_PKT
        /\ \A i \in 0..(index - 1) : rx_packet[i] = BLE_ASD_PKT

\* What the 8-bit index leaves of a frame that is too long for it: the bytes
\* past IndexMod, stored over the head of rx_packet, and a size taken modulo
\* IndexMod (sizes 253..255 of an event in the code).
Wrapped(f) == IF Len(f) < IndexMod THEN f ELSE SubSeq(f, IndexMod + 1, Len(f))

\* On a clean line the router gets the dongle's events once and in order, whole
\* if they fit the index; one that does not reaches it as its last bytes only,
\* and disturbs no event before or after it (UartCmdRxThread, the byte loop).
Delivered ==
    faults = 0 =>
        /\ Len(out) = taken
        /\ \A k \in 1..taken : out[k] = Wrapped(sent[k])

\* The receiver implements the link the rest of the process relies on.
Link == INSTANCE FrameLink WITH got <- out, Carried <- Wrapped
ImplementsLink == Link!Spec
=============================================================================
