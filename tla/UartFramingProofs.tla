-------------------------- MODULE UartFramingProofs --------------------------
(***************************************************************************)
(* What holds of the byte-level receiver for every byte alphabet, index    *)
(* width, set of frames and number of faults.                              *)
(***************************************************************************)
EXTENDS UartFraming, TLAPS

\* index++ on the unsigned 8-bit index: one more, or back to 0.
LEMMA WrapStep ==
    ASSUME NEW M \in Nat, M > 3, NEW i \in 0..(M - 1)
    PROVE  /\ (i + 1) % M \in 0..(M - 1)
           /\ i + 1 < M => (i + 1) % M = i + 1
           /\ i + 1 = M => (i + 1) % M = 0
<1>1. CASE i + 1 < M  BY <1>1
<1>2. CASE i + 1 = M  BY <1>2
<1> QED BY <1>1, <1>2

\* Storing one byte of the line keeps the buffer and the index in their types.
LEMMA StoreType ==
    ASSUME TypeOK, NEW b \in Byte
    PROVE  /\ [rx_packet EXCEPT ![index] = b] \in [0..(IndexMod - 1) -> Byte]
           /\ (index + 1) % IndexMod \in 0..(IndexMod - 1)
BY WrapStep, SizeAssumption DEF TypeOK

\* One pass through the switch keeps the thread's locals in their types.
LEMMA SwitchType ==
    ASSUME TypeOK, NEW b \in Byte, Switch(b)
    PROVE  /\ current_state' \in State_t
           /\ index' \in 0..(IndexMod - 1)
           /\ count' \in Nat
           /\ rx_packet' \in [0..(IndexMod - 1) -> Byte]
           /\ held' \in Seq(Byte)
           /\ out' \in Seq(Seq(Byte))
<1> USE DEF TypeOK, State_t, parser
<1>0. /\ [rx_packet EXCEPT ![index] = b] \in [0..(IndexMod - 1) -> Byte]
      /\ (index + 1) % IndexMod \in 0..(IndexMod - 1)
      /\ b \in Nat /\ 0 \in 0..(IndexMod - 1)
      /\ Append(held, b) \in Seq(Byte) /\ <<>> \in Seq(Byte)
  BY StoreType, ByteAssumption, SizeAssumption
<1>1. CASE Idle(b)           BY <1>0, <1>1 DEF Idle
<1>2. CASE InitEvent(b)      BY <1>0, <1>2 DEF InitEvent, Store
<1>3. CASE InitData(b)       BY <1>0, <1>3 DEF InitData, Store
<1>4. CASE InitOther(b)      BY <1>0, <1>4 DEF InitOther
<1>5. CASE EventResponse(b)  BY <1>0, <1>5 DEF EventResponse, Store
<1>6. CASE EventLength(b)    BY <1>0, <1>6 DEF EventLength, Store
<1>7. CASE PacketWait(b)     BY <1>0, <1>7 DEF PacketWait, Store
<1>8. CASE PacketDone(b)
  <2> DEFINE n == (index + 1) % IndexMod
             packet == [i \in 1..n |-> rx_packet'[i - 1]]
  <2>1. rx_packet' \in [0..(IndexMod - 1) -> Byte]  BY <1>0, <1>8 DEF PacketDone
  <2>2. n \in Nat /\ \A i \in 1..n : i - 1 \in 0..(IndexMod - 1)
    BY <1>0, SizeAssumption
  <2>3. packet \in Seq(Byte)
    <3> HIDE DEF n
    <3>1. \A i \in 1..n : rx_packet'[i - 1] \in Byte
      BY <2>1, <2>2
    <3> QED BY <2>2, <3>1
  <2>4. out' = Append(out, packet)  BY <1>8 DEF PacketDone
  <2>5. out' \in Seq(Seq(Byte))
    <3> HIDE DEF packet
    <3> QED BY <2>3, <2>4
  <2> QED BY <2>1, <2>5, <1>0, <1>8 DEF PacketDone
<1>9. CASE Error(b)          BY <1>9 DEF Error
<1> QED BY <1>1, <1>2, <1>3, <1>4, <1>5, <1>6, <1>7, <1>8, <1>9 DEF Switch

\* The byte at the head of the line exists whenever something is unread.
LineOK == Unread => pos < Len(Frame)

\* The frame that is read next is a sequence of bytes.
LEMMA FrameType ==
    ASSUME TypeOK, Unread
    PROVE  /\ taken + 1 \in 1..Len(sent)
           /\ Frame \in Seq(Byte) /\ Len(Frame) \in Nat /\ Len(Frame) > 0
<1>1. taken + 1 \in 1..Len(sent)  BY DEF TypeOK, Unread
<1>2. Frame \in Frames            BY <1>1 DEF TypeOK, Frame
<1> QED BY <1>1, <1>2, FrameAssumption

\* Between frames nothing is half read.
TypeInv == /\ TypeOK
           /\ LineOK
           /\ taken <= Len(sent)
           /\ ~Unread => pos = 0

\* The line moves by one byte and stays within the frames that were sent.
LEMMA ShiftType ==
    ASSUME TypeInv, Unread, Shift
    PROVE  /\ sent' = sent /\ taken' \in Nat /\ pos' \in Nat
           /\ taken' <= Len(sent) /\ LineOK' /\ (~Unread' => pos' = 0)
<1>1. /\ taken + 1 \in 1..Len(sent) /\ taken \in Nat /\ pos \in Nat
      /\ Len(Frame) \in Nat /\ pos < Len(Frame)
  BY FrameType DEF TypeInv, TypeOK, LineOK
<1>2. CASE pos + 1 = Len(Frame)
  <2>1. sent' = sent /\ taken' = taken + 1 /\ pos' = 0  BY <1>2 DEF Shift
  <2>2. ASSUME Unread' PROVE Len(Frame') > 0
    <3>1. taken' + 1 \in 1..Len(sent)  BY <1>1, <2>1, <2>2 DEF Unread
    <3>2. sent[taken' + 1] \in Frames  BY <3>1 DEF TypeInv, TypeOK
    <3> QED BY <2>1, <3>2, FrameAssumption DEF Frame
  <2> QED BY <1>1, <2>1, <2>2 DEF LineOK
<1>3. CASE pos + 1 # Len(Frame)
  <2>1. sent' = sent /\ taken' = taken /\ pos' = pos + 1  BY <1>3 DEF Shift
  <2> QED BY <1>1, <1>3, <2>1 DEF LineOK, Frame, Unread
<1> QED BY <1>2, <1>3

\* A new frame behind the others moves nothing.
LEMMA SendLine ==
    ASSUME TypeInv, DongleSend
    PROVE  /\ sent' \in Seq(Frames) /\ Len(sent') = Len(sent) + 1
           /\ \A k \in 1..Len(sent) : sent'[k] = sent[k]
           /\ taken' = taken /\ pos' = pos
           /\ Unread => Unread' /\ Frame' = Frame
<1>1. PICK f \in Frames : sent' = Append(sent, f)  BY DEF DongleSend
<1>2. sent \in Seq(Frames) /\ taken \in Nat  BY DEF TypeInv, TypeOK
<1>3. taken' = taken /\ pos' = pos             BY DEF DongleSend
<1>4. /\ sent' \in Seq(Frames) /\ Len(sent') = Len(sent) + 1
      /\ \A k \in 1..Len(sent) : sent'[k] = sent[k]
  BY <1>1, <1>2
<1>5. Unread => taken + 1 \in 1..Len(sent)  BY <1>2 DEF Unread
<1> QED BY <1>2, <1>3, <1>4, <1>5 DEF Unread, Frame

\* The types hold initially, in every step, and on every behaviour.
LEMMA TypeInvInit == Init => TypeInv
<1> SUFFICES ASSUME Init PROVE TypeInv  OBVIOUS
<1>1. sent = <<>> /\ taken = 0 /\ pos = 0 /\ out = <<>>  BY DEF Init
<1>2. ~Unread  BY <1>1 DEF Unread
<1>3. rx_packet \in [0..(IndexMod - 1) -> Byte]  BY DEF Init
<1> QED BY <1>1, <1>2, <1>3, SizeAssumption DEF Init, TypeInv, TypeOK, LineOK, State_t

LEMMA TypeInvNext == TypeInv /\ [Next]_vars => TypeInv'
<1> SUFFICES ASSUME TypeInv, [Next]_vars PROVE TypeInv'  OBVIOUS
<1> USE DEF TypeInv
<1>1. CASE DongleSend
  <2>1. sent' \in Seq(Frames) /\ taken' <= Len(sent')
    BY SendLine, <1>1 DEF TypeOK
  <2>2. TypeOK'  BY <1>1, <2>1 DEF DongleSend, TypeOK, parser
  <2>3. LineOK'
    <3>1. CASE Unread   BY <3>1, SendLine, <1>1 DEF LineOK
    <3>2. CASE ~Unread
      <4>1. Unread' => Frame' \in Frames
        BY <2>1, SendLine, <1>1 DEF Unread, Frame, TypeOK
      <4> QED BY <3>2, <4>1, SendLine, <1>1, FrameAssumption DEF LineOK
    <3> QED BY <3>1, <3>2
  <2>4. ~Unread' => pos' = 0  BY SendLine, <1>1
  <2> QED BY <2>1, <2>2, <2>3, <2>4
<1>2. CASE LoseByte
  <2>1. Unread /\ Shift  BY <1>2 DEF LoseByte
  <2>2. TypeOK'  BY <1>2, <2>1, ShiftType DEF LoseByte, TypeOK, parser
  <2> QED BY <2>1, <2>2, ShiftType
<1>3. CASE ReadByte
  <2>1. Unread /\ Shift  BY <1>3 DEF ReadByte
  <2>2. Frame[pos + 1] \in Byte  BY <2>1, FrameType DEF LineOK, TypeOK
  <2>3. Switch(Frame[pos + 1]) /\ rx_byte' = Frame[pos + 1] /\ faults' = faults
    BY <1>3 DEF ReadByte
  <2>4. TypeOK'
    <3> HIDE DEF TypeInv
    <3>1. sent' \in Seq(Frames) /\ taken' \in Nat /\ pos' \in Nat
      BY <2>1, ShiftType DEF TypeInv, TypeOK
    <3> QED BY <2>2, <2>3, <3>1, SwitchType DEF TypeInv, TypeOK
  <2> QED BY <2>1, <2>4, ShiftType
<1>4. CASE ReadFails
  <2>1. TypeOK'  BY <1>4, SwitchType DEF ReadFails, TypeOK, line
  <2> QED BY <1>4, <2>1 DEF ReadFails, line, LineOK, Unread, Frame
<1>5. CASE UNCHANGED vars
  BY <1>5 DEF vars, TypeOK, LineOK, Unread, Frame
<1> QED BY <1>1, <1>2, <1>3, <1>4, <1>5 DEF Next

LEMMA TypeInvariant == Spec => []TypeInv
<1>1. Init => TypeInv                    BY TypeInvInit
<1>2. TypeInv /\ [Next]_vars => TypeInv'  BY TypeInvNext
<1> QED BY <1>1, <1>2, PTL DEF Spec

\* UartCmdRxThread's locals keep to the ranges of their C types, whatever is on
\* the line, which is never read past what the dongle has emitted.
THEOREM TypeCorrect == Spec => []TypeOK
<1>1. TypeInv => TypeOK  BY DEF TypeInv
<1> QED BY <1>1, TypeInvariant, PTL

-----------------------------------------------------------------------------
(* STATE_ERROR is entered behind a 0x02 only *)

\* An idle parser has index 0; one that is collecting leading 0x02 bytes, or
\* was wedged while doing so, holds nothing else.  STATE_INIT has to be part of
\* the invariant because it is from there that STATE_ERROR is entered.
Leading02 ==
    /\ current_state = "IDLE" => index = 0
    /\ current_state \in {"INIT", "ERROR"} =>
           /\ rx_packet[0] = BLE_ASD_PKT
           /\ \A i \in 0..(index - 1) : rx_packet[i] = BLE_ASD_PKT

\* The receiver keeps what is known of leading 0x02 bytes.
LEMMA SwitchLeading02 ==
    ASSUME TypeOK, Leading02, NEW b \in Byte, Switch(b)
    PROVE  Leading02'
<1> USE SizeAssumption
<1>0. /\ index \in 0..(IndexMod - 1) /\ rx_packet \in [0..(IndexMod - 1) -> Byte]
      /\ current_state \in State_t
  BY DEF TypeOK
<1>1. CASE Idle(b)           BY <1>0, <1>1 DEF Idle, Seen, Leading02, State_t
<1>2. CASE InitEvent(b)      BY <1>0, <1>2 DEF InitEvent, Leading02
<1>3. CASE InitData(b)
  <2>1. /\ rx_packet' = [rx_packet EXCEPT ![index] = b] /\ b = BLE_ASD_PKT
        /\ index' = (index + 1) % IndexMod /\ current_state' = "INIT"
    BY <1>3 DEF InitData, Store
  <2>2. index' = index + 1 \/ index' = 0
    <3>1. /\ index + 1 < IndexMod => (index + 1) % IndexMod = index + 1
          /\ index + 1 = IndexMod => (index + 1) % IndexMod = 0
      BY <1>0, WrapStep
    <3>2. index + 1 < IndexMod \/ index + 1 = IndexMod  BY <1>0
    <3> QED BY <2>1, <3>1, <3>2
  <2>3. current_state = "INIT" \/ (current_state = "IDLE" /\ index = 0)
    BY <1>3 DEF InitData, Seen, Leading02
  <2> QED BY <1>0, <2>1, <2>2, <2>3 DEF Leading02
<1>4. CASE InitOther(b)
  BY <1>0, <1>4 DEF InitOther, Seen, Leading02
<1>5. CASE EventResponse(b)  BY <1>0, <1>5 DEF EventResponse, Leading02
<1>6. CASE EventLength(b)    BY <1>0, <1>6 DEF EventLength, Leading02
<1>7. CASE PacketWait(b)     BY <1>0, <1>7 DEF PacketWait, Seen, Leading02
<1>8. CASE PacketDone(b)     BY <1>0, <1>8 DEF PacketDone, Leading02
<1>9. CASE Error(b)          BY <1>9 DEF Error, parser, Leading02
<1> QED BY <1>1, <1>2, <1>3, <1>4, <1>5, <1>6, <1>7, <1>8, <1>9 DEF Switch

\* However many bytes are lost or read() calls fail, UartCmdRxThread gets
\* stuck in STATE_ERROR only on a byte that follows a 0x02 in the place of a
\* packet type: a stream of events alone cannot wedge it at a boundary.
THEOREM WedgedOnlyBehind02 == Spec => []WedgedBehind02
<1>1. Init => Leading02  BY DEF Init, Leading02
<1>2. TypeInv /\ Leading02 /\ [Next]_vars => Leading02'
  <2> SUFFICES ASSUME TypeInv, Leading02, [Next]_vars PROVE Leading02'
    OBVIOUS
  <2>1. CASE DongleSend  BY <2>1 DEF DongleSend, parser, Leading02
  <2>2. CASE LoseByte    BY <2>2 DEF LoseByte, parser, Leading02
  <2>3. CASE ReadByte
    <3>1. Frame[pos + 1] \in Byte /\ Switch(Frame[pos + 1])
      BY <2>3, FrameType DEF ReadByte, TypeInv, LineOK, TypeOK
    <3> QED BY <3>1, SwitchLeading02 DEF TypeInv
  <2>4. CASE ReadFails
    BY <2>4, SwitchLeading02 DEF ReadFails, TypeInv, TypeOK
  <2>5. CASE UNCHANGED vars  BY <2>5 DEF vars, Leading02
  <2> QED BY <2>1, <2>2, <2>3, <2>4, <2>5 DEF Next
<1>3. Leading02 => WedgedBehind02  BY DEF Leading02, WedgedBehind02
<1> QED BY <1>1, <1>2, <1>3, TypeInvariant, PTL DEF Spec

-----------------------------------------------------------------------------
(* Only self-delimited packets reach the router *)

\* The buffer holds the last `index` bytes of the packet, and all of them as
\* long as `index` can count them.
Stored == /\ index <= Len(held)
          /\ Len(held) < IndexMod => index = Len(held)
          /\ \A i \in 1..index : rx_packet[i - 1] = held[Len(held) - index + i]

\* The first n bytes of s are 0x02.
Led(s, n) == \A i \in 1..n : s[i] = BLE_ASD_PKT

\* What the state and `count` say of the bytes stored.  In STATE_ERROR nothing is
\* stored any more and nothing is promised.
Parsed ==
    LET L == Len(held)
    IN  /\ current_state = "IDLE" => held = <<>>
        /\ current_state = "INIT" => Led(held, L)
        /\ current_state = "EVENT_RESPONSE" =>
               L >= 1 /\ Led(held, L - 1) /\ held[L] = BLE_EVT_PKT
        /\ current_state = "EVENT_LENGTH" =>
               L >= 2 /\ Led(held, L - 2) /\ held[L - 1] = BLE_EVT_PKT
        /\ current_state = "PACKET_WAIT" =>
               \E n \in 0..(L - 3) : /\ Led(held, n) /\ held[n + 1] = BLE_EVT_PKT
                                     /\ L + count = n + 3 + held[n + 3]
                                     /\ count = 0 => held[n + 3] = 0

\* Holding one byte more.
LEMMA AppendByte ==
    ASSUME NEW s \in Seq(Byte), NEW b \in Byte
    PROVE  /\ Append(s, b) \in Seq(Byte) /\ Len(Append(s, b)) = Len(s) + 1
           /\ Append(s, b)[Len(s) + 1] = b
           /\ \A i \in 1..Len(s) : Append(s, b)[i] = s[i]
OBVIOUS

\* Storing a byte keeps what is known of rx_packet.
LEMMA StoreStored ==
    ASSUME TypeOK, Stored, NEW b \in Byte, Store(b)
    PROVE  Stored'
<1>1. /\ rx_packet' = [rx_packet EXCEPT ![index] = b]
      /\ index' = (index + 1) % IndexMod /\ held' = Append(held, b)
  BY DEF Store
<1>2. /\ rx_packet \in [0..(IndexMod - 1) -> Byte] /\ index \in 0..(IndexMod - 1)
      /\ IndexMod \in Nat /\ IndexMod > 3 /\ Len(held) \in Nat
  BY SizeAssumption DEF TypeOK
<1>3. /\ Len(held') = Len(held) + 1 /\ held'[Len(held) + 1] = b
      /\ \A i \in 1..Len(held) : held'[i] = held[i]
  BY <1>1, AppendByte DEF TypeOK
<1>4. /\ index + 1 < IndexMod => index' = index + 1
      /\ index + 1 = IndexMod => index' = 0
  BY <1>1, <1>2, WrapStep
<1>5. /\ index <= Len(held) /\ (Len(held) < IndexMod => index = Len(held))
      /\ \A i \in 1..index : rx_packet[i - 1] = held[Len(held) - index + i]
  BY DEF Stored
<1>6. CASE index + 1 = IndexMod
  <2>1. index' = 0  BY <1>4, <1>6
  <2> QED BY <2>1, <1>2, <1>3, <1>5, <1>6 DEF Stored
<1>7. CASE index + 1 < IndexMod
  <2>1. index' = index + 1  BY <1>4, <1>7
  <2>2. ASSUME NEW i \in 1..(index + 1)
        PROVE  rx_packet'[i - 1] = held'[Len(held) - index + i]
    <3>1. CASE i = index + 1
      <4>1. rx_packet'[index] = b  BY <1>1, <1>2
      <4>2. Len(held) - index + i = Len(held) + 1 /\ i - 1 = index
        BY <1>2, <3>1
      <4> QED BY <4>1, <4>2, <1>3
    <3>2. CASE i # index + 1
      <4>1. i \in 1..index /\ i - 1 \in 0..(IndexMod - 1) /\ i - 1 # index
        BY <1>2, <3>2
      <4>2. rx_packet'[i - 1] = rx_packet[i - 1]  BY <1>1, <1>2, <4>1
      <4>3. Len(held) - index + i \in 1..Len(held)  BY <1>2, <1>5, <4>1
      <4> QED BY <1>3, <1>5, <4>1, <4>2, <4>3
    <3> QED BY <3>1, <3>2
  <2>3. index' <= Len(held') /\ (Len(held') < IndexMod => index' = Len(held'))
    BY <2>1, <1>2, <1>3, <1>5
  <2>4. Len(held') - index' = Len(held) - index  BY <2>1, <1>2, <1>3
  <2> QED BY <2>1, <2>2, <2>3, <2>4 DEF Stored
<1> QED BY <1>2, <1>6, <1>7

\* One more 0x02, or any byte, leaves the leading ones what they are.
LEMMA StoreLed ==
    ASSUME TypeOK, NEW b \in Byte, Store(b)
    PROVE  /\ held' \in Seq(Byte) /\ Len(held') = Len(held) + 1
           /\ Len(held) \in Nat /\ held'[Len(held) + 1] = b
           /\ \A i \in 1..Len(held) : held'[i] = held[i]
           /\ \A n \in 0..Len(held) : Led(held, n) => Led(held', n)
<1>1. held' = Append(held, b) /\ held \in Seq(Byte)  BY DEF Store, TypeOK
<1>2. /\ held' \in Seq(Byte) /\ Len(held') = Len(held) + 1
      /\ Len(held) \in Nat /\ held'[Len(held) + 1] = b
      /\ \A i \in 1..Len(held) : held'[i] = held[i]
  BY <1>1, AppendByte
<1> QED BY <1>2 DEF Led

\* The receiver keeps what it has collected and what it makes of it.
LEMMA SwitchCollects ==
    ASSUME TypeOK, Leading02, Stored, Parsed, NEW b \in Byte, Switch(b)
    PROVE  Stored' /\ Parsed'
<1> DEFINE L == Len(held)
<1>0. /\ held \in Seq(Byte) /\ L \in Nat /\ current_state \in State_t
      /\ index \in 0..(IndexMod - 1) /\ Byte \subseteq Nat /\ count \in Nat
      /\ current_state = "IDLE" => index = 0
  BY ByteAssumption DEF TypeOK, Leading02
<1>1. CASE Idle(b)
  <2>1. /\ index' = 0 /\ held' = <<>> /\ current_state' = current_state
        /\ current_state = "IDLE"
    BY <1>0, <1>1 DEF Idle, Seen, State_t
  <2>2. Stored'  BY <2>1, SizeAssumption DEF Stored
  <2> QED BY <2>1, <2>2 DEF Parsed
<1>2. CASE InitEvent(b)
  <2>1. Store(b) /\ b = BLE_EVT_PKT /\ current_state' = "EVENT_RESPONSE"
    BY <1>2 DEF InitEvent
  <2>2. Led(held, L)
    <3>1. current_state \in {"IDLE", "INIT"}  BY <1>2 DEF InitEvent, Seen
    <3> QED BY <3>1 DEF Parsed, Led
  <2>3. /\ Len(held') = L + 1 /\ held'[L + 1] = b /\ Led(held', L)
    BY <2>1, <2>2, <1>0, StoreLed
  <2>4. Len(held') - 1 = L /\ Len(held') >= 1  BY <1>0, <2>3
  <2>5. Led(held', Len(held') - 1)  BY <2>3, <2>4 DEF Led
  <2> QED BY <2>1, <2>3, <2>4, <2>5, StoreStored DEF Parsed
<1>3. CASE InitData(b)
  <2>1. Store(b) /\ b = BLE_ASD_PKT /\ current_state' = "INIT"
    BY <1>3 DEF InitData
  <2>2. Led(held, L)
    <3>1. current_state \in {"IDLE", "INIT"}  BY <1>3 DEF InitData, Seen
    <3> QED BY <3>1 DEF Parsed, Led
  <2>3. /\ Len(held') = L + 1 /\ held'[L + 1] = b /\ Led(held', L)
    BY <2>1, <2>2, <1>0, StoreLed
  <2>4. Led(held', Len(held'))  BY <1>0, <2>1, <2>3 DEF Led
  <2> QED BY <2>1, <2>4, StoreStored DEF Parsed
<1>4. CASE InitOther(b)
  <2>1. current_state' = "ERROR" /\ UNCHANGED <<index, rx_packet, held>>
    BY <1>4 DEF InitOther
  <2> QED BY <2>1 DEF Stored, Parsed
<1>5. CASE EventResponse(b)
  <2>1. Store(b) /\ current_state' = "EVENT_LENGTH"  BY <1>5 DEF EventResponse
  <2>2. L >= 1 /\ Led(held, L - 1) /\ held[L] = BLE_EVT_PKT
    <3>1. current_state = "EVENT_RESPONSE"  BY <1>5 DEF EventResponse, Seen
    <3> QED BY <3>1 DEF Parsed
  <2>3. /\ Len(held') = L + 1 /\ held'[L] = BLE_EVT_PKT /\ Led(held', L - 1)
    <3>1. L - 1 \in 0..L /\ L \in 1..L  BY <1>0, <2>2
    <3>2. \A i \in 1..L : held'[i] = held[i]          BY <2>1, StoreLed
    <3>3. \A n \in 0..L : Led(held, n) => Led(held', n)           BY <2>1, StoreLed
    <3>4. Len(held') = L + 1                          BY <2>1, StoreLed
    <3> QED BY <2>2, <3>1, <3>2, <3>3, <3>4
  <2>4. Len(held') - 1 = L /\ Len(held') - 2 = L - 1 /\ Len(held') >= 2
    BY <1>0, <2>2, <2>3
  <2>5. Led(held', Len(held') - 2) /\ held'[Len(held') - 1] = BLE_EVT_PKT
    BY <2>3, <2>4 DEF Led
  <2> QED BY <2>1, <2>4, <2>5, StoreStored DEF Parsed
<1>6. CASE EventLength(b)
  <2>1. Store(b) /\ current_state' = "PACKET_WAIT" /\ count' = b
    BY <1>6 DEF EventLength
  <2>2. L >= 2 /\ Led(held, L - 2) /\ held[L - 1] = BLE_EVT_PKT
    <3>1. current_state = "EVENT_LENGTH"  BY <1>6 DEF EventLength, Seen
    <3> QED BY <3>1 DEF Parsed
  <2> DEFINE n == L - 2
  <2>3. /\ n \in 0..L /\ n + 1 = L - 1 /\ n + 1 \in 1..L /\ n + 3 = L + 1
    BY <1>0, <2>2
  <2>4. /\ Len(held') = L + 1 /\ held'[L + 1] = b /\ Led(held', n)
        /\ held'[n + 1] = BLE_EVT_PKT
    <3>1. \A i \in 1..L : held'[i] = held[i]          BY <2>1, StoreLed
    <3>2. \A m \in 0..L : Led(held, m) => Led(held', m)           BY <2>1, StoreLed
    <3>3. Len(held') = L + 1 /\ held'[L + 1] = b      BY <2>1, StoreLed
    <3> QED BY <2>2, <2>3, <3>1, <3>2, <3>3
  <2>5. /\ n \in 0..(Len(held') - 3) /\ b \in Nat
        /\ Len(held') + count' = n + 3 + held'[n + 3]
        /\ count' = 0 => held'[n + 3] = 0
    BY <1>0, <2>1, <2>3, <2>4
  <2> HIDE DEF n
  <2> QED BY <2>1, <2>4, <2>5, StoreStored DEF Parsed
<1>7. CASE PacketWait(b)
  <2>1. /\ Store(b) /\ current_state' = "PACKET_WAIT" /\ count' = count - 1
        /\ count - 1 > 0 /\ current_state = "PACKET_WAIT"
    BY <1>7 DEF PacketWait, Seen
  <2>2. PICK n \in 0..(L - 3) : /\ Led(held, n) /\ held[n + 1] = BLE_EVT_PKT
                                /\ L + count = n + 3 + held[n + 3]
    BY <2>1 DEF Parsed
  <2>3. n \in 0..L /\ n + 1 \in 1..L /\ n + 3 \in 1..L  BY <1>0, <2>2
  <2>4. /\ Len(held') = L + 1 /\ Led(held', n) /\ held'[n + 1] = BLE_EVT_PKT
        /\ held'[n + 3] = held[n + 3] /\ held[n + 3] \in Nat
    <3>1. \A i \in 1..L : held'[i] = held[i]          BY <2>1, StoreLed
    <3>2. \A m \in 0..L : Led(held, m) => Led(held', m)           BY <2>1, StoreLed
    <3>3. Len(held') = L + 1                          BY <2>1, StoreLed
    <3>4. held[n + 3] \in Byte                        BY <1>0, <2>3
    <3> QED BY <1>0, <2>2, <2>3, <3>1, <3>2, <3>3, <3>4
  <2>5. /\ n \in 0..(Len(held') - 3)
        /\ Len(held') + count' = n + 3 + held'[n + 3]
        /\ count' # 0
    BY <1>0, <2>1, <2>2, <2>3, <2>4
  <2> QED BY <2>1, <2>4, <2>5, StoreStored DEF Parsed
<1>8. CASE PacketDone(b)
  <2>1. current_state' = "IDLE" /\ index' = 0 /\ held' = <<>>
    BY <1>8 DEF PacketDone
  <2>2. Stored'  BY <2>1, SizeAssumption DEF Stored
  <2> QED BY <2>1, <2>2 DEF Parsed
<1>9. CASE Error(b)
  BY <1>9 DEF Error, parser, Stored, Parsed, Led
<1> QED BY <1>1, <1>2, <1>3, <1>4, <1>5, <1>6, <1>7, <1>8, <1>9 DEF Switch

\* The bytes taken for a packet are delimited by the length byte among them.
LEMMA DoneSelfDelimited ==
    ASSUME TypeOK, Parsed, NEW b \in Byte, PacketDone(b)
    PROVE  SelfDelimited(Append(held, b))
<1> DEFINE L == Len(held)
           q == Append(held, b)
<1>1. /\ held \in Seq(Byte) /\ L \in Nat /\ Byte \subseteq Nat /\ count \in Nat
      /\ current_state = "PACKET_WAIT" /\ count - 1 <= 0
  BY ByteAssumption DEF TypeOK, PacketDone, Seen
<1>2. PICK n \in 0..(L - 3) : /\ Led(held, n) /\ held[n + 1] = BLE_EVT_PKT
                              /\ L + count = n + 3 + held[n + 3]
                              /\ count = 0 => held[n + 3] = 0
  BY <1>1 DEF Parsed
<1>3. Len(q) = L + 1 /\ \A i \in 1..L : q[i] = held[i]  BY <1>1, AppendByte
<1> HIDE DEF q
<1>4. n + 1 \in 1..L /\ n + 3 \in 1..L  BY <1>1, <1>2
<1>5. held[n + 3] \in Nat
  <2>1. held[n + 3] \in Byte  BY <1>1, <1>4
  <2> QED BY <1>1, <2>1
<1>6. /\ n \in 0..(Len(q) - 4) /\ q[n + 1] = BLE_EVT_PKT
      /\ \A i \in 1..n : q[i] = BLE_ASD_PKT
  <2>1. \A i \in 1..n : i \in 1..L  BY <1>1, <1>2
  <2> QED BY <1>1, <1>2, <1>3, <1>4, <2>1 DEF Led
<1>7. q[n + 3] = held[n + 3]  BY <1>3, <1>4
<1>8. Len(q) = n + 3 + (IF q[n + 3] = 0 THEN 1 ELSE q[n + 3])
  <2>1. CASE count = 0  BY <2>1, <1>1, <1>2, <1>3, <1>5, <1>7
  <2>2. CASE count = 1  BY <2>2, <1>1, <1>2, <1>3, <1>5, <1>7
  <2>3. count = 0 \/ count = 1  BY <1>1
  <2> QED BY <2>1, <2>2, <2>3
<1>9. SelfDelimited(q)  BY <1>6, <1>8 DEF SelfDelimited
<1> QED BY <1>9 DEF q

\* What the router is given are the last bytes of them, all if the index counts
\* them.
LEMMA DoneRemains ==
    ASSUME TypeOK, Stored, NEW b \in Byte, PacketDone(b)
    PROVE  \E p : out' = Append(out, p) /\ Remains(Append(held, b), p)
<1> DEFINE L == Len(held)
           q == Append(held, b)
           n == (index + 1) % IndexMod
           p == [i \in 1..n |-> rx_packet'[i - 1]]
<1>1. /\ out' = Append(out, p)
      /\ rx_packet' = [rx_packet EXCEPT ![index] = b]
  BY DEF PacketDone
<1>2. /\ rx_packet \in [0..(IndexMod - 1) -> Byte] /\ index \in 0..(IndexMod - 1)
      /\ IndexMod \in Nat /\ IndexMod > 3 /\ L \in Nat /\ held \in Seq(Byte)
  BY SizeAssumption DEF TypeOK
<1>3. /\ Len(q) = L + 1 /\ q[L + 1] = b /\ q \in Seq(Byte)
      /\ \A i \in 1..L : q[i] = held[i]
  BY <1>2, AppendByte
<1> HIDE DEF q
<1>4. /\ n \in 0..(IndexMod - 1)
      /\ index + 1 < IndexMod => n = index + 1
      /\ index + 1 = IndexMod => n = 0
  BY <1>2, WrapStep
<1>5. /\ index <= L /\ (L < IndexMod => index = L)
      /\ \A i \in 1..index : rx_packet[i - 1] = held[L - index + i]
  BY DEF Stored
<1>6. n <= L + 1 /\ (L + 1 < IndexMod => n = L + 1)
  <2> HIDE DEF n
  <2> QED BY <1>2, <1>4, <1>5
<1>7. ASSUME NEW i \in 1..n
      PROVE  rx_packet'[i - 1] = q[L + 1 - n + i]
  <2> HIDE DEF n
  <2>1. n = index + 1  BY <1>2, <1>4, <1>7
  <2>2. CASE i = index + 1
    <3>1. rx_packet'[index] = b                     BY <1>1, <1>2
    <3>2. L + 1 - n + i = L + 1 /\ i - 1 = index    BY <1>2, <2>1, <2>2
    <3> QED BY <3>1, <3>2, <1>3
  <2>3. CASE i # index + 1
    <3>1. i \in 1..index /\ i - 1 \in 0..(IndexMod - 1) /\ i - 1 # index
      BY <1>2, <2>1, <2>3
    <3>2. rx_packet'[i - 1] = rx_packet[i - 1]  BY <1>1, <1>2, <3>1
    <3>3. L + 1 - n + i = L - index + i /\ L - index + i \in 1..L
      BY <1>2, <1>5, <2>1, <3>1
    <3> QED BY <1>3, <1>5, <3>1, <3>2, <3>3
  <2> QED BY <2>2, <2>3
<1>8. p = SubSeq(q, Len(q) - n + 1, Len(q))
  <2> DEFINE t == SubSeq(q, Len(q) - n + 1, Len(q))
  <2>1. n \in Nat /\ n <= Len(q) /\ Len(q) \in Nat
    <3> HIDE DEF n
    <3> QED BY <1>2, <1>3, <1>4, <1>6
  <2>2. t = [i \in 1..n |-> q[Len(q) - n + i]]
    <3> HIDE DEF n
    <3> QED BY <1>3, <2>1
  <2> HIDE DEF t, n
  <2>3. \A i \in 1..n : rx_packet'[i - 1] = q[Len(q) - n + i]
    <3>1. L \in Nat /\ L + 1 = Len(q)  BY <1>2, <1>3
    <3> HIDE DEF L
    <3>2. \A i \in 1..n : L + 1 - n + i = Len(q) - n + i  BY <2>1, <3>1
    <3> QED BY <1>7, <3>2
  <2>4. p = t  BY <2>2, <2>3
  <2> QED BY <2>4 DEF t
<1>9. Remains(q, p)
  <2>1. Len(q) < IndexMod => n = Len(q)  BY <1>3, <1>6
  <2> HIDE DEF p, n
  <2> QED BY <1>4, <1>8, <2>1 DEF Remains
<1> HIDE DEF p
<1> QED BY <1>1, <1>9 DEF q

\* Whatever the line loses and whatever lengths stand in it, UartCmdRxThread
\* gives the router the bytes of one packet as that packet's own length byte
\* delimits it, all of them as long as the 8-bit index can count them.
THEOREM SelfDelimitedOnly == Spec => OnlySelfDelimited
<1> DEFINE Collected == Leading02 /\ Stored /\ Parsed
<1>1. Init => Collected
  BY SizeAssumption DEF Init, Leading02, Stored, Parsed
<1>2. TypeInv /\ Collected /\ [Next]_vars => Collected'
  <2> SUFFICES ASSUME TypeInv, Collected, [Next]_vars PROVE Collected'
    OBVIOUS
  <2>1. CASE DongleSend
    BY <2>1 DEF DongleSend, parser, Leading02, Stored, Parsed, Led
  <2>2. CASE LoseByte
    BY <2>2 DEF LoseByte, parser, Leading02, Stored, Parsed, Led
  <2>3. CASE ReadByte
    <3>1. Frame[pos + 1] \in Byte /\ Switch(Frame[pos + 1])
      BY <2>3, FrameType DEF ReadByte, TypeInv, LineOK, TypeOK
    <3> QED BY <3>1, SwitchLeading02, SwitchCollects DEF TypeInv
  <2>4. CASE ReadFails
    <3>1. rx_byte \in Byte /\ Switch(rx_byte)
      BY <2>4 DEF ReadFails, TypeInv, TypeOK
    <3> QED BY <3>1, SwitchLeading02, SwitchCollects DEF TypeInv
  <2>5. CASE UNCHANGED vars
    BY <2>5 DEF vars, Leading02, Stored, Parsed, Led
  <2> QED BY <2>1, <2>2, <2>3, <2>4, <2>5 DEF Next
<1>3. TypeInv /\ Collected /\ [Next]_vars =>
        [out' # out => LET q == Append(held, rx_byte')
                       IN  /\ SelfDelimited(q)
                           /\ out' = Append(out, out'[Len(out')])
                           /\ Remains(q, out'[Len(out')])]_vars
  <2> SUFFICES ASSUME TypeInv, Collected, Next, out' # out
               PROVE  /\ SelfDelimited(Append(held, rx_byte'))
                      /\ out' = Append(out, out'[Len(out')])
                      /\ Remains(Append(held, rx_byte'), out'[Len(out')])
    BY DEF vars
  <2>1. rx_byte' \in Byte /\ Switch(rx_byte')
    <3>1. CASE ReadByte
      BY <3>1, FrameType DEF ReadByte, TypeInv, LineOK, TypeOK
    <3>2. CASE ReadFails  BY <3>2 DEF ReadFails, TypeInv, TypeOK
    <3> QED BY <3>1, <3>2 DEF Next, DongleSend, LoseByte
  <2>2. PacketDone(rx_byte')
    BY <2>1 DEF Switch, Idle, InitEvent, InitData, InitOther, EventResponse,
       EventLength, PacketWait, Error
  <2>3. SelfDelimited(Append(held, rx_byte'))
    BY <2>1, <2>2, DoneSelfDelimited DEF TypeInv
  <2>4. PICK p : out' = Append(out, p) /\ Remains(Append(held, rx_byte'), p)
    BY <2>1, <2>2, DoneRemains DEF TypeInv
  <2>5. out'[Len(out')] = p
    <3>1. out \in Seq(Seq(Byte))  BY DEF TypeInv, TypeOK
    <3> QED BY <2>4, <3>1
  <2> QED BY <2>3, <2>4, <2>5
<1> HIDE DEF Collected
<1> QED BY <1>1, <1>2, <1>3, TypeInvariant, PTL DEF Spec, OnlySelfDelimited

-----------------------------------------------------------------------------
(* A parser in step with the line stays in step *)

\* The bytes of the current frame, as the parser's position enumerates them.
LEMMA InSyncStep ==
    ASSUME TypeInv, InSync, ReadByte, WellFormed(Frame)
    PROVE  /\ InSync'
           /\ out' = IF pos + 1 = Len(Frame) THEN Append(out, Frame) ELSE out
<1> DEFINE b == Frame[pos + 1]
           L == Len(Frame)
<1>1. /\ Unread /\ Shift /\ Switch(b) /\ sent' = sent
  BY DEF ReadByte, Shift
<1>a. /\ pos \in Nat /\ L \in Nat /\ pos < L /\ Frame \in Seq(Byte)
      /\ taken + 1 \in 1..Len(sent) /\ index = pos /\ taken \in Nat
      /\ rx_packet \in [0..(IndexMod - 1) -> Byte]
  BY <1>1, FrameType DEF TypeInv, TypeOK, LineOK, InSync
<1>2. /\ pos \in Nat /\ L \in Nat /\ pos < L /\ Frame \in Seq(Byte)
      /\ taken + 1 \in 1..Len(sent) /\ b \in Byte
      /\ index = pos /\ taken \in Nat
      /\ rx_packet \in [0..(IndexMod - 1) -> Byte]
      /\ IndexMod \in Nat /\ L >= 4 /\ L < IndexMod
      /\ Frame[1] = 4 /\ Frame[3] = L - 3
  BY <1>a, SizeAssumption DEF WellFormed, BLE_EVT_PKT
<1>3. ASSUME pos + 1 # L
      PROVE  taken' = taken /\ pos' = pos + 1 /\ Frame' = Frame /\ Unread'
  BY <1>1, <1>3 DEF Shift, Frame, Unread
<1>4. pos + 1 < IndexMod /\ (pos + 1) % IndexMod = pos + 1
  BY <1>2, WrapStep, SizeAssumption
<1>5. \A i \in 1..pos : rx_packet[i - 1] = Frame[i]
  <2>1. pos \in Nat
    BY <1>2
  <2>2. pos > 0 => \A i \in 1..pos : rx_packet[i - 1] = Frame[i]
    BY DEF InSync
  <2> QED BY <2>1, <2>2
<1>6. ASSUME pos + 1 # L, index' = pos + 1, rx_packet' = [rx_packet EXCEPT ![index] = b]
      PROVE  \A i \in 1..pos' : rx_packet'[i - 1] = Frame'[i]
  <2> SUFFICES ASSUME NEW i \in 1..(pos + 1)
               PROVE rx_packet'[i - 1] = Frame[i]
    BY <1>3, <1>6
  <2>1. CASE i = pos + 1  BY <2>1, <1>2, <1>6
  <2>2. CASE i # pos + 1  BY <2>2, <1>2, <1>5, <1>6
  <2> QED BY <2>1, <2>2
<1>7. CASE pos = 0
  <2>1. current_state = "IDLE" /\ b = 4  BY <1>7, <1>2 DEF InSync
  <2>2. Seen(b) = "INIT"  BY <2>1, <1>2, <1>7 DEF Seen, BLE_EVT_PKT
  <2>3. InitEvent(b)
    BY <1>1, <2>1, <2>2 DEF Switch, Idle, InitData, InitOther, EventResponse,
       EventLength, PacketWait, PacketDone, Error, BLE_EVT_PKT, BLE_ASD_PKT
  <2>4. /\ index' = pos + 1 /\ rx_packet' = [rx_packet EXCEPT ![index] = b]
        /\ current_state' = "EVENT_RESPONSE" /\ out' = out /\ pos + 1 # L
    BY <2>3, <1>2, <1>4, <1>7 DEF InitEvent, Store
  <2>5. pos' = 1 /\ Frame' = Frame /\ Unread'  BY <1>3, <1>7, <2>4
  <2>6. \A i \in 1..pos' : rx_packet'[i - 1] = Frame'[i]  BY <1>6, <2>4
  <2>7. InSync'
    <3> HIDE DEF b, L
    <3> QED BY <1>7, <2>4, <2>5, <2>6 DEF InSync
  <2> QED BY <2>4, <2>7
<1>8. CASE pos = 1
  <2>1. Seen(b) = "EVENT_RESPONSE"  BY <1>8, <1>2 DEF InSync, Seen
  <2>2. EventResponse(b)
    BY <1>1, <2>1 DEF Switch, Idle, InitEvent, InitData, InitOther,
       EventLength, PacketWait, PacketDone, Error
  <2>3. /\ index' = pos + 1 /\ rx_packet' = [rx_packet EXCEPT ![index] = b]
        /\ current_state' = "EVENT_LENGTH" /\ out' = out /\ pos + 1 # L
    <3> HIDE DEF b, L
    <3>1. /\ index' = (pos + 1) % IndexMod
          /\ rx_packet' = [rx_packet EXCEPT ![index] = b]
          /\ current_state' = "EVENT_LENGTH" /\ out' = out
      BY <2>2, <1>2 DEF EventResponse, Store
    <3>2. index' = pos + 1  BY <3>1, <1>4
    <3>3. pos + 1 # L       BY <1>2, <1>8
    <3> QED BY <3>1, <3>2, <3>3
  <2>4. pos' = 2 /\ Frame' = Frame /\ Unread'  BY <1>3, <1>8, <2>3
  <2>5. \A i \in 1..pos' : rx_packet'[i - 1] = Frame'[i]  BY <1>6, <2>3
  <2>6. InSync'
    <3> HIDE DEF b, L
    <3> QED BY <1>8, <2>3, <2>4, <2>5 DEF InSync
  <2> QED BY <2>3, <2>6
<1>9. CASE pos = 2
  <2>1. Seen(b) = "EVENT_LENGTH"  BY <1>9, <1>2 DEF InSync, Seen
  <2>2. EventLength(b)
    BY <1>1, <2>1 DEF Switch, Idle, InitEvent, InitData, InitOther,
       EventResponse, PacketWait, PacketDone, Error
  <2>3. /\ index' = pos + 1 /\ rx_packet' = [rx_packet EXCEPT ![index] = b]
        /\ current_state' = "PACKET_WAIT" /\ count' = L - 3
        /\ out' = out /\ pos + 1 # L
    <3> HIDE DEF b, L
    <3>1. b = L - 3
      <4>1. b = Frame[3]  BY <1>9 DEF b
      <4> QED BY <1>2, <4>1
    <3>2. /\ index' = (pos + 1) % IndexMod /\ count' = b
          /\ rx_packet' = [rx_packet EXCEPT ![index] = b]
          /\ current_state' = "PACKET_WAIT" /\ out' = out
      BY <2>2, <1>2 DEF EventLength, Store
    <3>3. index' = pos + 1
      <4>1. index' = (pos + 1) % IndexMod  BY <3>2
      <4> QED BY <4>1, <1>4
    <3>4. pos + 1 # L       BY <1>2, <1>9
    <3> QED BY <3>1, <3>2, <3>3, <3>4
  <2>4. pos' = 3 /\ Frame' = Frame /\ Unread' /\ Len(Frame') - pos' = L - 3
    BY <1>3, <1>9, <2>3
  <2>5. \A i \in 1..pos' : rx_packet'[i - 1] = Frame'[i]
    BY <1>6, <2>3
  <2>6. InSync'
    BY <1>9, <2>3, <2>4, <2>5 DEF InSync
  <2> QED BY <2>3, <2>6
<1>10. CASE pos >= 3
  <2>1. Seen(b) = "PACKET_WAIT" /\ count = L - pos
    <3>1. current_state = "PACKET_WAIT" /\ count = L - pos
      <4>1. pos \in Nat
        BY <1>2
      <4>2. ~(pos = 0) /\ ~(pos = 1) /\ ~(pos = 2)
        BY <1>10, <4>1
      <4>3. current_state = CASE pos = 0 -> "IDLE" [] pos = 1 -> "EVENT_RESPONSE"
                              [] pos = 2 -> "EVENT_LENGTH" [] OTHER -> "PACKET_WAIT"
        BY DEF InSync
      <4> QED BY <1>10, <4>2, <4>3 DEF InSync
    <3> QED BY <3>1 DEF Seen
  <2>2. PacketWait(b) \/ PacketDone(b)
    BY <1>1, <2>1 DEF Switch, Idle, InitEvent, InitData, InitOther,
       EventResponse, EventLength, Error
  <2>3. CASE pos + 1 # L
    <3>1. PacketWait(b)  BY <2>1, <2>2, <2>3, <1>2 DEF PacketDone
    <3>2. /\ index' = pos + 1 /\ rx_packet' = [rx_packet EXCEPT ![index] = b]
          /\ current_state' = "PACKET_WAIT" /\ count' = L - (pos + 1)
          /\ out' = out
      BY <3>1, <2>1, <1>2, <1>4 DEF PacketWait, Store, Seen
    <3>3. \A i \in 1..pos' : rx_packet'[i - 1] = Frame'[i]
      BY <3>2, <2>3, <1>6
    <3>4. pos' = pos + 1 /\ Frame' = Frame /\ Unread'  BY <2>3, <1>3
    <3>5. count' = Len(Frame') - pos'  BY <3>2, <3>4
    <3>6. pos' \in Nat /\ pos' > 3 /\ index' = pos'  BY <3>2, <3>4, <1>2, <1>10
    <3>7. current_state' = CASE pos' = 0 -> "IDLE"
                             [] pos' = 1 -> "EVENT_RESPONSE"
                             [] pos' = 2 -> "EVENT_LENGTH"
                             [] OTHER   -> "PACKET_WAIT"
      BY <3>2, <3>6
    <3>8. InSync'  BY <3>3, <3>4, <3>5, <3>6, <3>7, Zenon DEF InSync
    <3> QED BY <3>2, <3>8, <2>3
  <2>4. CASE pos + 1 = L
    <3>1. PacketDone(b)  BY <2>1, <2>2, <2>4, <1>2 DEF PacketWait
    <3>2. /\ rx_packet' = [rx_packet EXCEPT ![index] = b]
          /\ current_state' = "IDLE" /\ index' = 0
          /\ out' = Append(out, [i \in 1..L |-> rx_packet'[i - 1]])
      BY <3>1, <2>4, <1>2, <1>4 DEF PacketDone
    <3>3. \A i \in 1..L : rx_packet'[i - 1] = Frame[i]
      <4> SUFFICES ASSUME NEW i \in 1..L PROVE rx_packet'[i - 1] = Frame[i]
        OBVIOUS
      <4>1. CASE i = L  BY <4>1, <3>2, <2>4, <1>2
      <4>2. CASE i # L  BY <4>2, <3>2, <2>4, <1>2, <1>5
      <4> QED BY <4>1, <4>2
    <3>4. [i \in 1..L |-> rx_packet'[i - 1]] = Frame
      <4>1. Frame = [i \in 1..L |-> Frame[i]]  BY <1>2
      <4> QED BY <3>3, <4>1
    <3>5. pos' = 0  BY <1>1, <2>4 DEF Shift
    <3> QED BY <3>2, <3>4, <3>5, <2>4 DEF InSync
  <2> QED BY <2>3, <2>4
<1> QED BY <1>2, <1>7, <1>8, <1>9, <1>10

\* A frame put on the line behind the current one does not disturb it.
LEMMA InSyncSend ==
    ASSUME TypeInv, InSync, DongleSend
    PROVE  InSync'
<1>1. /\ taken' = taken /\ pos' = pos
      /\ Unread => Unread' /\ Frame' = Frame
  BY SendLine
<1>2. UNCHANGED <<current_state, index, count, rx_packet>>
  BY DEF DongleSend, parser
<1>3. pos \in Nat  BY DEF TypeInv, TypeOK
<1>4. CASE pos = 0  BY <1>1, <1>2, <1>3, <1>4 DEF InSync
<1>5. CASE pos > 0
  <2>1. Unread /\ Unread' /\ Frame' = Frame  BY <1>1, <1>5 DEF InSync
  <2> QED BY <1>1, <1>2, <1>3, <1>5, <2>1 DEF InSync
<1> QED BY <1>3, <1>4, <1>5

\* However the parser came to be in step with the line, and whatever frames
\* are not well formed elsewhere, it delivers the well-formed event it is at and
\* is in step at the next one, unless a byte is lost or a read() fails.
THEOREM ResyncLasts == Spec => StaysInSync
<1>1. TypeInv /\ [Next]_vars =>
        [InSync /\ faults' = faults /\ (Unread => WellFormed(Frame)) => InSync']_vars
  <2> SUFFICES ASSUME TypeInv, Next, InSync, faults' = faults,
                      Unread => WellFormed(Frame)
               PROVE  InSync'
    BY DEF vars
  <2>1. CASE DongleSend  BY <2>1, InSyncSend
  <2>2. CASE LoseByte    BY <2>2 DEF LoseByte, TypeInv, TypeOK
  <2>3. CASE ReadByte    BY <2>3, InSyncStep DEF ReadByte
  <2>4. CASE ReadFails   BY <2>4 DEF ReadFails, TypeInv, TypeOK
  <2> QED BY <2>1, <2>2, <2>3, <2>4 DEF Next
<1> QED BY <1>1, TypeInvariant, PTL DEF Spec, StaysInSync

-----------------------------------------------------------------------------
(* Events arrive whole, once and in order *)

AllWellFormed == \A f \in Frames : WellFormed(f)

\* Until the first fault the parser is in step and has delivered exactly the
\* frames that have left the line.
Faithful ==
    faults = 0 => /\ InSync
                  /\ Len(out) = taken
                  /\ \A k \in 1..taken : out[k] = sent[k]

\* The receiver is in step with the sender initially, and stays so.
LEMMA FaithfulInit == Init => Faithful
BY DEF Init, Faithful, InSync

LEMMA FaithfulNext ==
    ASSUME AllWellFormed, TypeInv, Faithful, [Next]_vars
    PROVE  Faithful'
<1> SUFFICES ASSUME faults' = 0
             PROVE  /\ InSync'
                    /\ Len(out') = taken'
                    /\ \A k \in 1..taken' : out'[k] = sent'[k]
  BY DEF Faithful
<1>0. /\ out \in Seq(Seq(Byte)) /\ taken \in Nat /\ faults \in Nat
      /\ taken <= Len(sent) /\ sent \in Seq(Frames)
  BY DEF TypeInv, TypeOK
<1>1. CASE DongleSend
  <2>1. /\ faults = 0 /\ out' = out /\ taken' = taken
    BY <1>1 DEF DongleSend
  <2>2. \A k \in 1..Len(sent) : sent'[k] = sent[k]  BY <1>1, SendLine
  <2>3. InSync'  BY <1>1, <2>1, InSyncSend DEF Faithful
  <2>4. Len(out) = taken /\ \A k \in 1..taken : out[k] = sent[k]
    BY <2>1 DEF Faithful
  <2>5. \A k \in 1..taken : k \in 1..Len(sent)  BY <1>0
  <2> QED BY <2>1, <2>2, <2>3, <2>4, <2>5
<1>2. CASE LoseByte   BY <1>0, <1>2 DEF LoseByte
<1>3. CASE ReadByte
  <2>1. /\ faults = 0 /\ Unread /\ Shift /\ sent' = sent
        /\ Frame = sent[taken + 1]
    BY <1>3 DEF ReadByte, Shift, Frame
  <2>2. WellFormed(Frame)
    BY <2>1, FrameType DEF AllWellFormed, TypeInv, TypeOK
  <2>3. /\ InSync'
        /\ out' = IF pos + 1 = Len(Frame) THEN Append(out, Frame) ELSE out
    BY <1>3, <2>1, <2>2, InSyncStep DEF Faithful
  <2>4. Len(out) = taken /\ \A k \in 1..taken : out[k] = sent[k]
    BY <2>1 DEF Faithful
  <2>5. Frame \in Seq(Byte)  BY <2>1, FrameType DEF TypeInv
  <2>6. CASE pos + 1 = Len(Frame)
    BY <1>0, <2>1, <2>3, <2>4, <2>5, <2>6 DEF Shift
  <2>7. CASE pos + 1 # Len(Frame)
    BY <2>1, <2>3, <2>4, <2>7 DEF Shift
  <2> QED BY <2>6, <2>7
<1>4. CASE ReadFails  BY <1>0, <1>4 DEF ReadFails
<1>5. CASE UNCHANGED vars
  BY <1>5 DEF vars, Faithful, InSync, Unread, Frame
<1> QED BY <1>1, <1>2, <1>3, <1>4, <1>5 DEF Next

\* A well-formed frame is carried as it is.
LEMMA WellFormedCarried ==
    ASSUME NEW f \in Seq(Byte), WellFormed(f)
    PROVE  Wrapped(f) = f
BY DEF WellFormed, Wrapped

\* As long as no byte is lost and no read() fails, UartCmdRxThread hands the
\* router the events of the dongle whole, unaltered, each once and in order,
\* provided every event has a payload and fits the 8-bit index.
THEOREM WholeDelivery ==
    ASSUME AllWellFormed
    PROVE  Spec => []Delivered
<1>1. TypeInv /\ Faithful /\ [Next]_vars => Faithful'  BY FaithfulNext
<1>2. TypeInv /\ Faithful => Delivered
  <2> SUFFICES ASSUME TypeInv, Faithful, faults = 0, NEW k \in 1..taken
               PROVE  Len(out) = taken /\ out[k] = Wrapped(sent[k])
    BY DEF Delivered, Faithful
  <2>1. Len(out) = taken /\ out[k] = sent[k]  BY DEF Faithful
  <2>2. sent[k] \in Frames  BY DEF TypeInv, TypeOK
  <2>3. sent[k] \in Seq(Byte) /\ WellFormed(sent[k])
    BY <2>2, FrameAssumption DEF AllWellFormed
  <2> QED BY <2>1, <2>3, WellFormedCarried
<1> QED BY <1>1, <1>2, FaithfulInit, TypeInvariant, PTL DEF Spec

LinkSafe == Link!Init /\ [][Link!Next]_<<sent, out>>

\* The safety half of ImplementsLink: on a line without faults every step of
\* the receiver is a send or a delivery of the abstract link, or changes
\* neither.  (That every event is delivered eventually is checked by TLC.)
THEOREM LinkRefined ==
    ASSUME AllWellFormed, MaxFaults = 0
    PROVE  Spec => LinkSafe
<1>1. Init => Link!Init  BY DEF Init, Link!Init
<1>2. TypeInv /\ Faithful /\ faults = 0 /\ [Next]_vars => [Link!Next]_<<sent, out>>
  <2> SUFFICES ASSUME TypeInv, Faithful, faults = 0, [Next]_vars
               PROVE  [Link!Next]_<<sent, out>>
    OBVIOUS
  <2>1. CASE DongleSend
    BY <2>1 DEF DongleSend, Link!Next, Link!Send
  <2>2. CASE LoseByte   BY <2>2 DEF LoseByte, TypeInv, TypeOK
  <2>3. CASE ReadByte
    <3>1. Unread /\ Shift /\ sent' = sent /\ Frame = sent[taken + 1]
      BY <2>3 DEF ReadByte, Shift, Frame
    <3>2. taken + 1 \in 1..Len(sent) /\ WellFormed(Frame)
      BY <3>1, FrameType DEF AllWellFormed, TypeInv, TypeOK
    <3>3. out' = IF pos + 1 = Len(Frame) THEN Append(out, Frame) ELSE out
      BY <2>3, <3>2, InSyncStep DEF Faithful
    <3>4. Len(out) = taken  BY DEF Faithful
    <3>5. Wrapped(Frame) = Frame
      BY <3>1, <3>2, FrameType, WellFormedCarried DEF TypeInv
    <3> QED BY <3>1, <3>2, <3>3, <3>4, <3>5 DEF Link!Next, Link!Deliver
  <2>4. CASE ReadFails  BY <2>4 DEF ReadFails, TypeInv, TypeOK
  <2>5. CASE UNCHANGED vars  BY <2>5 DEF vars
  <2> QED BY <2>1, <2>2, <2>3, <2>4, <2>5 DEF Next
<1>3. TypeInv /\ faults = 0 /\ [Next]_vars => (faults = 0)'
  BY DEF TypeInv, TypeOK, Next, DongleSend, LoseByte, ReadByte, ReadFails, vars
<1>4. Init => faults = 0  BY DEF Init
<1>5. TypeInv /\ Faithful /\ [Next]_vars => Faithful'  BY FaithfulNext
<1>6. Spec => [](TypeInv /\ Faithful /\ faults = 0)
  BY <1>3, <1>4, <1>5, FaithfulInit, TypeInvariant, PTL DEF Spec
<1>7. Spec => [][Link!Next]_<<sent, out>>
  BY <1>2, <1>6, PTL DEF Spec
<1>8. Spec => Link!Init  BY <1>1, PTL DEF Spec
<1> QED BY <1>7, <1>8 DEF LinkSafe
=============================================================================
