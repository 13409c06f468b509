-------------------------- MODULE BleScannerProofs ---------------------------
(***************************************************************************)
(* Theorems about the scanner process, for every capacity of the queues    *)
(* and of the line and every bound: the variables keep to their types, no  *)
(* link request is out while the radio scans, pairing starts only on a     *)
(* report, and a link is requested only to a device that matched.          *)
(***************************************************************************)
EXTENDS BleScanner, SequenceTheorems, TLAPS

\* What is in a sequence, and what is in it behind an element of C.
Elems(s) == {s[i] : i \in 1..Len(s)}
Behind(s, C) == {s[j] : j \in {k \in 1..Len(s) : \E i \in 1..(k - 1) : s[i] \in C}}

\* Taking the first element, as a thread that reads a queue does.
LEMMA TailElems ==
    ASSUME NEW S, NEW s \in Seq(S), s # <<>>, NEW C
    PROVE  /\ Head(s) \in S /\ Tail(s) \in Seq(S) /\ Len(Tail(s)) = Len(s) - 1
           /\ Elems(s) = {Head(s)} \cup Elems(Tail(s))
           /\ Behind(Tail(s), C) \subseteq Behind(s, C)
           /\ Head(s) \in C => Elems(Tail(s)) \subseteq Behind(s, C)
<1> DEFINE t == Tail(s)
<1>1. /\ Head(s) \in S /\ t \in Seq(S) /\ Len(t) = Len(s) - 1 /\ Len(t) \in Nat
      /\ \A i \in 1..Len(t) : t[i] = s[i + 1]
  BY HeadTailProperties, LenProperties
<1>2. Len(s) \in Nat /\ Len(s) >= 1 /\ Head(s) = s[1]
  BY <1>1
<1> HIDE DEF t
<1>3. Elems(s) = {Head(s)} \cup Elems(t)
  <2>1. ASSUME NEW i \in 1..Len(s) PROVE s[i] = Head(s) \/ s[i] \in Elems(t)
    <3>1. CASE i = 1
      BY <1>2, <3>1
    <3>2. CASE i # 1
      <4>1. i - 1 \in 1..Len(t) /\ t[i - 1] = s[(i - 1) + 1] /\ (i - 1) + 1 = i
        BY <1>1, <1>2, <3>2
      <4> QED BY <4>1 DEF Elems
    <3> QED BY <3>1, <3>2
  <2>2. ASSUME NEW i \in 1..Len(t) PROVE t[i] \in Elems(s)
    <3>1. i + 1 \in 1..Len(s) /\ t[i] = s[i + 1]
      BY <1>1, <1>2
    <3> QED BY <3>1 DEF Elems
  <2>3. Head(s) \in Elems(s)
    BY <1>2 DEF Elems
  <2> QED BY <2>1, <2>2, <2>3 DEF Elems
<1>4. Behind(t, C) \subseteq Behind(s, C)
  <2> SUFFICES ASSUME NEW k \in 1..Len(t), NEW i \in 1..(k - 1), t[i] \in C
               PROVE  t[k] \in Behind(s, C)
    BY DEF Behind
  <2>1. k \in Nat /\ i \in Nat /\ i >= 1 /\ i <= k - 1 /\ k <= Len(t)
    BY <1>1
  <2>2. /\ k + 1 \in 1..Len(s) /\ i \in 1..Len(t)
        /\ i + 1 \in 1..((k + 1) - 1)
    BY <1>1, <1>2, <2>1
  <2>3. t[k] = s[k + 1] /\ t[i] = s[i + 1]
    BY <1>1, <2>2
  <2> QED BY <2>2, <2>3 DEF Behind
<1>5. ASSUME Head(s) \in C, NEW k \in 1..Len(t) PROVE t[k] \in Behind(s, C)
  <2>1. /\ k + 1 \in 1..Len(s) /\ t[k] = s[k + 1] /\ 1 \in 1..((k + 1) - 1) /\ s[1] \in C
    BY <1>1, <1>2, <1>5
  <2> QED BY <2>1 DEF Behind
<1> QED BY <1>1, <1>3, <1>4, <1>5 DEF Elems, t

\* Putting elements behind the others, as the sender of messages does.
LEMMA ConcatElems ==
    ASSUME NEW S, NEW s \in Seq(S), NEW u \in Seq(S), NEW C
    PROVE  /\ s \o u \in Seq(S) /\ Len(s \o u) = Len(s) + Len(u)
           /\ Elems(s \o u) = Elems(s) \cup Elems(u)
           /\ Behind(s \o u, C) \subseteq Behind(s, C) \cup Elems(u)
           /\ Elems(s) \cap C = {} => Behind(s \o u, C) \subseteq Behind(u, C)
<1> DEFINE t == s \o u
<1>1. /\ t \in Seq(S) /\ Len(t) = Len(s) + Len(u) /\ Len(s) \in Nat /\ Len(u) \in Nat
      /\ \A i \in 1..Len(s) + Len(u) : t[i] = IF i <= Len(s) THEN s[i] ELSE u[i - Len(s)]
  BY ConcatProperties, LenProperties
<1> HIDE DEF t
<1>2. \A i \in 1..Len(s) : i \in 1..Len(t) /\ t[i] = s[i]
  BY <1>1
<1>3. \A i \in 1..Len(u) : Len(s) + i \in 1..Len(t) /\ t[Len(s) + i] = u[i]
  <2> TAKE i \in 1..Len(u)
  <2>1. Len(s) + i \in 1..Len(t) /\ ~(Len(s) + i <= Len(s)) /\ (Len(s) + i) - Len(s) = i
    BY <1>1
  <2> QED BY <1>1, <2>1
<1>4. \A i \in 1..Len(t) : \/ i \in 1..Len(s) /\ t[i] = s[i]
                           \/ i - Len(s) \in 1..Len(u) /\ t[i] = u[i - Len(s)]
  BY <1>1
<1>5. Elems(t) = Elems(s) \cup Elems(u)
  <2>1. \A i \in 1..Len(t) : t[i] \in Elems(s) \cup Elems(u)
    BY <1>4 DEF Elems
  <2>2. \A i \in 1..Len(s) : s[i] \in Elems(t)
    BY <1>2 DEF Elems
  <2>3. \A i \in 1..Len(u) : u[i] \in Elems(t)
    BY <1>3 DEF Elems
  <2> QED BY <2>1, <2>2, <2>3 DEF Elems
<1>6. ASSUME NEW k \in 1..Len(t), NEW i \in 1..(k - 1), t[i] \in C
      PROVE  /\ t[k] \in Behind(s, C) \cup Elems(u)
             /\ Elems(s) \cap C = {} => t[k] \in Behind(u, C)
  <2>1. i \in 1..Len(t) /\ i < k
    BY <1>1
  <2>2. CASE k \in 1..Len(s)
    <3>1. t[k] = s[k] /\ i \in 1..Len(s) /\ t[i] = s[i]
      BY <1>1, <1>2, <2>1, <2>2
    <3> QED BY <1>6, <2>2, <3>1 DEF Behind, Elems
  <2>3. CASE k - Len(s) \in 1..Len(u) /\ t[k] = u[k - Len(s)]
    <3>1. t[k] \in Elems(u)
      BY <2>3 DEF Elems
    <3>2. ASSUME Elems(s) \cap C = {} PROVE t[k] \in Behind(u, C)
      <4>1. ~(i \in 1..Len(s))
        BY <1>2, <1>6, <3>2 DEF Elems
      <4>2. i - Len(s) \in 1..((k - Len(s)) - 1) /\ t[i] = u[i - Len(s)]
        BY <1>1, <1>4, <2>1, <2>3, <4>1
      <4> QED BY <1>6, <2>3, <4>2 DEF Behind
    <3> QED BY <3>1, <3>2
  <2> QED BY <1>4, <2>2, <2>3
<1>7. Behind(t, C) \subseteq Behind(s, C) \cup Elems(u)
  BY <1>6 DEF Behind
<1>8. Elems(s) \cap C = {} => Behind(t, C) \subseteq Behind(u, C)
  BY <1>6 DEF Behind
<1> QED BY <1>1, <1>5, <1>7, <1>8 DEF t

\* One element more, and none at all.
LEMMA AppendElems ==
    ASSUME NEW S, NEW s \in Seq(S), NEW e \in S, NEW C
    PROVE  /\ Append(s, e) \in Seq(S) /\ Len(Append(s, e)) = Len(s) + 1
           /\ Elems(Append(s, e)) = Elems(s) \cup {e}
           /\ Behind(Append(s, e), C) \subseteq Behind(s, C) \cup {e}
           /\ Elems(s) \cap C = {} => Behind(Append(s, e), C) = {}
<1>1. Append(s, e) = s \o <<e>> /\ <<e>> \in Seq(S)
  BY AppendIsConcat
<1>2. Len(<<e>>) = 1 /\ <<e>>[1] = e
  OBVIOUS
<1>3. Elems(<<e>>) = {e} /\ Behind(<<e>>, C) = {}
  BY <1>2 DEF Elems, Behind
<1>4. /\ s \o <<e>> \in Seq(S) /\ Len(s \o <<e>>) = Len(s) + Len(<<e>>)
      /\ Elems(s \o <<e>>) = Elems(s) \cup Elems(<<e>>)
      /\ Behind(s \o <<e>>, C) \subseteq Behind(s, C) \cup Elems(<<e>>)
      /\ Elems(s) \cap C = {} => Behind(s \o <<e>>, C) \subseteq Behind(<<e>>, C)
  BY <1>1, ConcatElems
<1> QED BY <1>1, <1>2, <1>3, <1>4

\* No events: nothing among them and nothing behind any.
LEMMA NoElems == Elems(<<>>) = {} /\ \A C : Behind(<<>>, C) = {}
BY DEF Elems, Behind

-----------------------------------------------------------------------------
(* Types *)

Radio == {"off", "idle", "scanning", "connecting", "connected"}

TypeInv == TypeOK /\ left \in Bound

\* What is counted down stays a bound, and the bytes stay the same.
LEMMA UseType ==
    ASSUME left \in Bound, NEW what \in {"adverts", "traffic", "faults", "restarts"}, Use(what)
    PROVE  left' \in Bound /\ left'.bytes = left.bytes
BY DEF Use, Bound

\* The bytes left in a buffer are bytes.
LEMMA BytesType == left \in Bound => left.bytes \subseteq 0..255 /\ left.bytes \subseteq Nat
BY DEF Bound

\* The events the dongle makes have the type of events.
LEMMA EventType ==
    ASSUME NEW code \in Nat, NEW status \in Nat, NEW arg \in Nat, NEW x \in Nat
    PROVE  /\ Event(code, status, arg, x) \in EventSet
           /\ Event(code, status, arg, x).evt = VENDOR /\ Event(code, status, arg, x).code = code
           /\ Event(code, status, arg, x).status = status /\ Event(code, status, arg, x).arg = arg
           /\ Event(code, status, arg, x).x = x
BY DEF Event, EventSet

\* One event, and two, as a sequence.
LEMMA SingleEvent ==
    ASSUME NEW e \in EventSet
    PROVE  <<e>> \in Seq(EventSet) /\ Len(<<e>>) = 1 /\ Elems(<<e>>) = {e}
<1>1. <<e>> \in Seq(EventSet) /\ Len(<<e>>) = 1 /\ <<e>>[1] = e
  OBVIOUS
<1> QED BY <1>1 DEF Elems

LEMMA TwoEvents ==
    ASSUME NEW e \in EventSet, NEW f \in EventSet
    PROVE  <<e, f>> \in Seq(EventSet) /\ Elems(<<e, f>>) = {e, f}
<1>1. <<e, f>> \in Seq(EventSet) /\ Len(<<e, f>>) = 2 /\ <<e, f>>[1] = e /\ <<e, f>>[2] = f
  OBVIOUS
<1>2. 1..2 = {1, 2}
  OBVIOUS
<1> QED BY <1>1, <1>2 DEF Elems

\* What the dongle answers: the events, and the radio that results.
LEMMA ReactionType ==
    ASSUME NEW op \in Nat, radio \in Radio
    PROVE  Reaction(op).radio \in Radio /\ Reaction(op).events \in Seq(EventSet)
<1>1. CommandComplete \in EventSet /\ Event(VS_GAP_DEVICE_INIT_DONE, 0, 0, 0) \in EventSet
  BY DEF CommandComplete, EventSet, Event, VENDOR, VS_GAP_DEVICE_INIT_DONE
<1>2. CommandStatus(op, 0) \in EventSet /\ CommandStatus(op, Refused) \in EventSet
  BY EventType DEF CommandStatus, VS_COMMAND_STATUS, Refused
<1>3. ScanDone(ScanCancelled) \in EventSet
  BY EventType DEF ScanDone, VS_GAP_DEVICE_DISCOVERY, ScanCancelled
<1>4. /\ <<CommandComplete>> \in Seq(EventSet)
      /\ <<CommandStatus(op, 0), Event(VS_GAP_DEVICE_INIT_DONE, 0, 0, 0)>> \in Seq(EventSet)
      /\ <<CommandStatus(op, 0)>> \in Seq(EventSet) /\ <<CommandStatus(op, Refused)>> \in Seq(EventSet)
      /\ <<CommandStatus(op, 0), ScanDone(ScanCancelled)>> \in Seq(EventSet)
  BY <1>1, <1>2, <1>3, SingleEvent, TwoEvents
<1> HIDE DEF CommandComplete, CommandStatus, Event, ScanDone
<1> QED BY <1>4 DEF Reaction, Radio

\* The line takes the events if they fit, behind those it holds.
LEMMA EmitType ==
    ASSUME TypeInv, NEW events \in Seq(EventSet), Emit(events)
    PROVE  tty' \in Seq(EventSet) /\ Len(tty') <= LineCap /\ Len(tty') \in Nat
BY ConcatElems, LenProperties DEF Emit, TypeInv, TypeOK

\* Writing one event keeps the line within its type and length.
LEMMA EmitOneType ==
    ASSUME TypeInv, NEW code \in Nat, NEW status \in Nat, NEW x \in Nat,
           Emit(<<Event(code, status, 0, x)>>)
    PROVE  tty' \in Seq(EventSet) /\ Len(tty') <= LineCap
<1>1. Event(code, status, 0, x) \in EventSet
  BY EventType
<1> QED BY <1>1, SingleEvent, EmitType

\* A command is written behind the others, or lost.
LEMMA WriteType ==
    ASSUME TypeInv, NEW op \in Nat, Written(op) \/ NotWritten
    PROVE  cmds' \in Seq(Nat) /\ Len(cmds') <= LineCap /\ left' \in Bound /\ left'.bytes = left.bytes
<1>1. CASE Written(op)
  BY <1>1, AppendElems, LenProperties, ScannerAssumption DEF Written, TypeInv, TypeOK
<1>2. CASE NotWritten
  BY <1>2, UseType DEF NotWritten, TypeInv, TypeOK
<1> QED BY <1>1, <1>2

\* What Central reads has the type of an event; its queue is one shorter.
LEMMA ReceiveType ==
    ASSUME TypeInv, Receive
    PROVE  /\ buffer \in EventSet
           /\ mq' \in [Queues -> Seq(EventSet)] /\ \A q \in Queues : Len(mq'[q]) <= QCap
           /\ mq'["COMMANDRESP"] = Tail(mq["COMMANDRESP"])
<1> DEFINE answers == mq["COMMANDRESP"]
<1>1. mq \in [Queues -> Seq(EventSet)] /\ "COMMANDRESP" \in Queues
  BY DEF TypeInv, TypeOK, Queues
<1>2. answers \in Seq(EventSet) /\ answers # <<>> /\ Len(answers) <= QCap
  BY <1>1 DEF Receive, TypeInv, TypeOK
<1>3. /\ Head(answers) \in EventSet /\ Tail(answers) \in Seq(EventSet)
      /\ Len(Tail(answers)) = Len(answers) - 1 /\ Len(answers) \in Nat
  BY <1>2, TailElems, LenProperties
<1>4. mq' = [mq EXCEPT !["COMMANDRESP"] = Tail(answers)]
  BY DEF Receive
<1>5. Len(Tail(answers)) <= QCap
  BY <1>2, <1>3, ScannerAssumption
<1> QED BY <1>1, <1>3, <1>4, <1>5 DEF buffer, TypeInv, TypeOK

LEMMA TypeInit == Init => TypeInv
<1> SUFFICES ASSUME Init PROVE TypeInv
  OBVIOUS
<1>1. cmds \in Seq(Nat) /\ tty \in Seq(EventSet) /\ Len(cmds) = 0 /\ Len(tty) = 0
  BY DEF Init
<1>2. mq \in [Queues -> Seq(EventSet)] /\ \A q \in Queues : Len(mq[q]) <= QCap
  BY ScannerAssumption DEF Init
<1>3. left \in Bound
  BY ScannerAssumption DEF Init
<1>4. central \in CentralStates /\ radio \in {"off", "idle", "scanning", "connecting", "connected"}
  BY DEF Init, CentralStates, Boot
<1>5. /\ scanned_mac \in BOOLEAN /\ acking \in BOOLEAN /\ reported \in BOOLEAN
      /\ raced \in BOOLEAN /\ unready \in BOOLEAN /\ inherited \in BOOLEAN /\ linked \in BOOLEAN
  BY DEF Init
<1> QED BY <1>1, <1>2, <1>3, <1>4, <1>5, ScannerAssumption DEF TypeInv, TypeOK

\* What a peer may cause, and that its link is lost.
PeerCodes == {1282, 1298, 1299, 1290, 1307, VS_GAP_LINK_TERMINATED}
LEMMA TrafficEvent ==
    ASSUME LinkTraffic
    PROVE  \E code \in PeerCodes, x \in Nat : Emit(<<Event(code, 0, 0, x)>>)
<1> USE DEF EVENT_VS_ATT_HANDLE_VALUE_NOTIFICATION, VS_ATT_WRITE_RESPONSE_EVENT,
        EVENT_VS_ATT_EXCHANGE_MTU_REQUEST, EVENT_VS_ATT_READ_REQUEST, EVENT_VS_ATT_WRITE_REQUEST
<1>1. CASE \E e \in PeerEvents : Emit(<<e>>)
  <2>1. PICK e \in PeerEvents : Emit(<<e>>)
    BY <1>1
  <2>2. \E code \in PeerCodes, x \in Nat : e = Event(code, 0, 0, x)
    BY DEF PeerEvents, PeerCodes, Write01, WritePing, WriteData, WriteOther
  <2> QED BY <2>1, <2>2
<1>2. CASE \E reason \in {\h08, \h3E} : Emit(<<Event(VS_GAP_LINK_TERMINATED, 0, 0, reason)>>)
  BY <1>2 DEF PeerCodes
<1> QED BY <1>1, <1>2 DEF LinkTraffic

\* The dongle's steps: events on the line, its radio, the bounds and the ghosts.
LEMMA DongleType == TypeInv /\ Dongle => TypeInv'
<1> SUFFICES ASSUME TypeInv, Dongle PROVE TypeInv'
  OBVIOUS
<1> USE DEF Radio
<1>1. /\ tty' \in Seq(EventSet) /\ Len(tty') <= LineCap
      /\ radio' \in Radio /\ left' \in Bound /\ cmds' \in Seq(Nat) /\ Len(cmds') <= LineCap
  <2>1. CASE DongleCommand
    <3>1. Head(cmds) \in Nat /\ Tail(cmds) \in Seq(Nat) /\ Len(Tail(cmds)) <= LineCap
      BY <2>1, TailElems, LenProperties, ScannerAssumption DEF DongleCommand, TypeInv, TypeOK
    <3>2. Reaction(Head(cmds)).radio \in Radio /\ Reaction(Head(cmds)).events \in Seq(EventSet)
      BY <3>1, ReactionType DEF TypeInv, TypeOK
    <3> QED BY <2>1, <3>1, <3>2, EmitType DEF DongleCommand, TypeInv
  <2>2. CASE Advertise
    <3>1. PICK b \in left.bytes \cup {UUIDMatch} :
                Emit(<<Event(VS_GAP_DEVICE_INFORMATION, 0, 0, b)>>)
      BY <2>2 DEF Advertise
    <3>2. b \in Nat
      BY BytesType DEF UUIDMatch, TypeInv
    <3>3. tty' \in Seq(EventSet) /\ Len(tty') <= LineCap
      BY <3>1, <3>2, EmitOneType DEF VS_GAP_DEVICE_INFORMATION
    <3> QED BY <2>2, <3>3, UseType DEF Advertise, TypeInv, TypeOK
  <2>3. CASE ScanEnds
    <3>1. tty' \in Seq(EventSet) /\ Len(tty') <= LineCap
      BY <2>3, EmitOneType DEF ScanEnds, ScanDone, VS_GAP_DEVICE_DISCOVERY
    <3> QED BY <2>3, <3>1 DEF ScanEnds, TypeInv, TypeOK
  <2>4. CASE LinkOutcome
    <3>1. \/ Emit(<<Event(VS_GAP_LINK_ESTABLISHED, 0, 0, 0)>>)
          \/ Emit(<<Event(VS_GAP_LINK_ESTABLISHED, Refused, 0, 0)>>)
          \/ Emit(<<Event(VS_GAP_LINK_TERMINATED, 0, 0, \h3E)>>)
      BY <2>4 DEF LinkOutcome
    <3>2. tty' \in Seq(EventSet) /\ Len(tty') <= LineCap
      BY <3>1, EmitOneType DEF VS_GAP_LINK_ESTABLISHED, VS_GAP_LINK_TERMINATED, Refused
    <3>3. /\ radio' \in {"off", "idle", "scanning", "connecting", "connected"}
          /\ UNCHANGED <<host, cmds, mq, left, raced, unready, inherited, linked>>
      BY <2>4 DEF LinkOutcome
    <3>4. reported' \in BOOLEAN
      BY <2>4, Zenon DEF LinkOutcome, TypeInv, TypeOK
    <3> QED BY <3>2, <3>3, <3>4 DEF host, TypeInv, TypeOK
  <2>5. CASE LinkTraffic
    <3>1. PICK code \in Nat, x \in Nat : Emit(<<Event(code, 0, 0, x)>>)
      BY <2>5, TrafficEvent DEF PeerCodes, VS_GAP_LINK_TERMINATED
    <3>2. tty' \in Seq(EventSet) /\ Len(tty') <= LineCap
      BY <3>1, EmitOneType
    <3> QED BY <2>5, <3>2, UseType DEF LinkTraffic, TypeInv, TypeOK
  <2> QED BY <2>1, <2>2, <2>3, <2>4, <2>5 DEF Dongle
<1>2. reported' \in BOOLEAN /\ raced' \in BOOLEAN /\ unready' \in BOOLEAN
      /\ inherited' = inherited /\ linked' = linked
  BY Zenon DEF TypeInv, TypeOK, Dongle, DongleCommand, Advertise, ScanEnds, LinkOutcome,
               LinkTraffic, ghosts
<1>3. UNCHANGED <<central, scanned_mac, acking, mq>>
  BY DEF Dongle, DongleCommand, Advertise, ScanEnds, LinkOutcome, LinkTraffic, host
<1> QED BY <1>1, <1>2, <1>3 DEF TypeInv, TypeOK

\* Each thread, and a restart, keeps the types.
LEMMA RouterType == TypeInv /\ UartCmdRxThread => TypeInv'
<1> SUFFICES ASSUME TypeInv, UartCmdRxThread PROVE TypeInv'
  OBVIOUS
<1>1. CASE RouteEvent
  <2> DEFINE e == Head(tty)  q == Route(e)
  <2>1. e \in EventSet /\ Tail(tty) \in Seq(EventSet) /\ Len(Tail(tty)) <= LineCap
    BY <1>1, TailElems, LenProperties, ScannerAssumption DEF RouteEvent, TypeInv, TypeOK
  <2> HIDE DEF e
  <2>2. mq' \in [Queues -> Seq(EventSet)] /\ \A p \in Queues : Len(mq'[p]) <= QCap
    <3>1. CASE mq' = mq
      BY <3>1 DEF TypeInv, TypeOK
    <3>2. CASE Enqueue(q, e)
      <4>1. CASE q \in Queues
        <5>1. mq[q] \in Seq(EventSet) /\ Len(mq[q]) < QCap /\ Len(mq[q]) \in Nat
          BY <3>2, <4>1, LenProperties DEF Enqueue, TypeInv, TypeOK
        <5>2. Append(mq[q], e) \in Seq(EventSet) /\ Len(Append(mq[q], e)) <= QCap
          BY <2>1, <5>1, AppendElems, ScannerAssumption
        <5> HIDE DEF q
        <5> QED BY <3>2, <4>1, <5>2 DEF Enqueue, TypeInv, TypeOK
      <4>2. CASE q \notin Queues
        <5> HIDE DEF q
        <5> QED BY <3>2, <4>2 DEF Enqueue, TypeInv, TypeOK
      <4> QED BY <4>1, <4>2
    <3> QED BY <1>1, <3>1, <3>2 DEF RouteEvent, e
  <2>3. acking' \in BOOLEAN
    <3>1. acking' = IsWrite(Head(tty))
      BY <1>1, Zenon DEF RouteEvent
    <3> QED BY <3>1 DEF IsWrite
  <2> QED BY <1>1, <2>1, <2>2, <2>3 DEF RouteEvent, ghosts, TypeInv, TypeOK
<1>2. CASE data_ack
  <2>1. cmds' \in Seq(Nat) /\ Len(cmds') <= LineCap /\ left' \in Bound
    BY <1>2, WriteType DEF data_ack, VS_ATT_WRITE_RESPONSE
  <2> QED BY <1>2, <2>1 DEF data_ack, ghosts, TypeInv, TypeOK
<1> QED BY <1>1, <1>2 DEF UartCmdRxThread

\* A step of Central that writes a command, or does not, and goes on.
LEMMA CentralWritesType ==
    ASSUME TypeInv, NEW op \in Nat, Written(op) \/ NotWritten \/ UNCHANGED <<cmds, left>>,
           central' \in CentralStates, UNCHANGED <<scanned_mac, acking, tty, mq, radio, ghosts>>
    PROVE  TypeInv'
<1>1. cmds' \in Seq(Nat) /\ Len(cmds') <= LineCap /\ left' \in Bound
  BY WriteType DEF TypeInv, TypeOK
<1> QED BY <1>1 DEF ghosts, TypeInv, TypeOK

\* A step of Central that reads a message and goes on.
LEMMA CentralReadsType ==
    ASSUME TypeInv, Receive, central' \in CentralStates, scanned_mac' \in BOOLEAN
    PROVE  TypeInv'
BY ReceiveType DEF Receive, ghosts, TypeInv, TypeOK

LEMMA CentralType == TypeInv /\ CentralModeThread => TypeInv'
<1> SUFFICES ASSUME TypeInv, CentralModeThread PROVE TypeInv'
  OBVIOUS
<1> USE DEF CentralStates, Boot, Bonding
<1>1. CASE HCI_Reset
  BY <1>1, CentralWritesType DEF HCI_Reset, Send, BT_RESET
<1>2. CASE HCI_Init
  BY <1>2, CentralWritesType DEF HCI_Init, Send, VS_GAP_DEVICE_INITIALIZATION
<1>3. CASE PARAM_UPDATE
  BY <1>3, CentralWritesType DEF PARAM_UPDATE, Send, VS_GAP_SET_PARAMETER
<1>4. CASE StateInit
  BY <1>4 DEF StateInit, ghosts, TypeInv, TypeOK
<1>5. CASE Device_Scan_Req
  BY <1>5, CentralWritesType DEF Device_Scan_Req, Request, VS_GAP_DEVICE_DISCOVERY_REQUEST
<1>6. CASE Device_Scan_Rsp
  <2>1. scanned_mac' \in BOOLEAN /\ central' \in CentralStates /\ Receive
    BY <1>6 DEF Device_Scan_Rsp, TypeInv, TypeOK
  <2> QED BY <2>1, CentralReadsType
<1>7. CASE Device_Scan_Data
  <2>1. scanned_mac' \in BOOLEAN
    <3>1. scanned_mac' = (scanned_mac \/ Matches(buffer))
      BY <1>7, Zenon DEF Device_Scan_Data
    <3> QED BY <3>1
  <2>2. central' \in CentralStates /\ Receive
    BY <1>7 DEF Device_Scan_Data
  <2> QED BY <2>1, <2>2, CentralReadsType
<1>8. CASE Device_Scan_Cancel_Req
  BY <1>8, CentralWritesType DEF Device_Scan_Cancel_Req, Request, VS_GAP_DEVICE_DISCOVERY_CANCEL
<1>9. CASE Device_Scan_Cancel_Rsp
  <2>1. scanned_mac' \in BOOLEAN /\ central' \in CentralStates /\ Receive
    BY <1>9 DEF Device_Scan_Cancel_Rsp, TypeInv, TypeOK
  <2> QED BY <2>1, CentralReadsType
<1>10. CASE Device_Establish_Link_Req
  BY <1>10, CentralWritesType DEF Device_Establish_Link_Req, Request, VS_GAP_ESTABLISH_LINK_REQUEST
<1>11. CASE Device_Establish_Link_Rsp
  <2>1. scanned_mac' \in BOOLEAN
    <3>1. scanned_mac' = (scanned_mac \/ buffer.code = VS_GAP_LINK_ESTABLISHED)
      BY <1>11, Zenon DEF Device_Establish_Link_Rsp
    <3> QED BY <3>1
  <2>2. central' \in CentralStates /\ Receive
    BY <1>11 DEF Device_Establish_Link_Rsp
  <2> QED BY <2>1, <2>2, CentralReadsType
<1>12. CASE bond
  BY <1>12, CentralWritesType
     DEF bond, Send, VS_GAP_AUTHENTICATE, VS_GAP_PASSKEY_UPDATE, GATT_WRITECHARVALUE
<1>13. CASE data_led
  BY <1>13, CentralWritesType DEF data_led, GATT_WRITECHARVALUE
<1> QED
  BY <1>1, <1>2, <1>3, <1>4, <1>5, <1>6, <1>7, <1>8, <1>9, <1>10, <1>11, <1>12, <1>13
     DEF CentralModeThread

LEMMA RestartType == TypeInv /\ Restart => TypeInv'
<1> SUFFICES ASSUME TypeInv, Restart PROVE TypeInv'
  OBVIOUS
<1>1. cmds' \in Seq(Nat) /\ tty' \in Seq(EventSet) /\ Len(cmds') = 0 /\ Len(tty') = 0
  BY DEF Restart
<1>2. left' \in Bound
  BY UseType DEF Restart, TypeInv
<1>3. inherited' \in BOOLEAN
  <2>1. inherited' = \E i \in 1..Len(mq["COMMANDRESP"]) : CancelDone(mq["COMMANDRESP"][i])
    BY Zenon DEF Restart
  <2> QED BY <2>1, Zenon
<1>6. linked' \in BOOLEAN
  <2>1. linked' = \/ radio \in {"connecting", "connected"}
                  \/ \E i \in 1..Len(mq["COMMANDRESP"]) : MtuAsked(mq["COMMANDRESP"][i])
    BY Zenon DEF Restart
  <2> QED BY <2>1, Zenon
<1>4. central' \in CentralStates /\ mq' = mq /\ radio' = radio
  BY DEF Restart, CentralStates, Boot
<1>5. /\ scanned_mac' \in BOOLEAN /\ acking' \in BOOLEAN
      /\ reported' \in BOOLEAN /\ raced' \in BOOLEAN /\ unready' \in BOOLEAN
  BY DEF Restart
<1> QED BY <1>1, <1>2, <1>3, <1>4, <1>5, <1>6, ScannerAssumption DEF TypeInv, TypeOK

LEMMA TypeNext == TypeInv /\ [Next]_vars => TypeInv'
<1> SUFFICES ASSUME TypeInv, [Next]_vars PROVE TypeInv'
  OBVIOUS
<1>1. CASE UNCHANGED vars
  BY <1>1 DEF vars, TypeInv, TypeOK
<1> QED BY <1>1, DongleType, RouterType, CentralType, RestartType DEF Next

\* Every variable keeps to its type, and neither the serial line nor a queue
\* ever holds more than its capacity: sys_mq_send() and Emit wait.
THEOREM TypeCorrect == Spec => []TypeOK
<1>1. Spec => []TypeInv
  BY TypeInit, TypeNext, PTL DEF Spec
<1>2. TypeInv => TypeOK
  BY DEF TypeInv
<1> QED BY <1>1, <1>2, PTL

-----------------------------------------------------------------------------
(* What is under way between Central and the dongle *)

Asked   == Elems(cmds)
Sent    == Elems(tty)
Answers == Elems(mq["COMMANDRESP"])

\* The states in which the scan was asked to stop, in which it has stopped, and
\* in which the link was asked for.
Stopping == {"SCAN_CANCEL_RSP", "LINK_REQ", "LINK_RSP"} \cup Bonding
Stopped  == {"LINK_REQ", "LINK_RSP"} \cup Bonding
Linking  == {"LINK_RSP"} \cup Bonding

\* The commands of the time after the scan; those that start the dongle.
Later    == {VS_ATT_WRITE_RESPONSE, VS_GAP_ESTABLISH_LINK_REQUEST, VS_GAP_AUTHENTICATE,
             VS_GAP_PASSKEY_UPDATE, GATT_WRITECHARVALUE}
Starting == {BT_RESET, VS_GAP_DEVICE_INITIALIZATION}

\* Which commands are under way, and in which order, follows from where Central is.
CommandInv ==
    /\ central \in {"RESET", "DEVICE_INIT", "PARAM_UPDATE"} =>
           VS_GAP_DEVICE_DISCOVERY_REQUEST \notin Asked
    /\ central \notin Stopping => VS_GAP_DEVICE_DISCOVERY_CANCEL \notin Asked
    /\ central \notin Linking => VS_GAP_ESTABLISH_LINK_REQUEST \notin Asked
    /\ Behind(cmds, {VS_GAP_DEVICE_DISCOVERY_CANCEL}) \subseteq Later
    /\ Behind(cmds, {VS_GAP_DEVICE_DISCOVERY_REQUEST}) \cap Starting = {}

\* The end of a cancelled scan, which Central has yet to read.
Ends      == {e \in EventSet : CancelDone(e)}
EndUnread == (Answers \cup Sent) \cap Ends # {}

\* Once such an end is under way nothing makes the radio scan again, so that it
\* does not scan when Central has read it and asks for the link.
EndInv == ~inherited =>
    /\ EndUnread => central \in Stopping
    /\ EndUnread \/ central \in Stopped =>
           /\ Asked \subseteq Later /\ radio \notin {"scanning", "off"}
           /\ central \notin Linking => radio = "idle"

\* Events that Central, waiting for the link report, does not take for one;
\* and those that it will not be given, or that are such.
Quiet == {e \in EventSet : LinkRspResult(e) # 0}
Noise == {e \in EventSet : Route(e) = "COMMANDRESP" => e \in Quiet}

\* Until the dongle reports on a link everything behind the end of a cancelled
\* scan is quiet, in the queue, on the line, and on the way between them.
AnswerInv == ~inherited /\ ~reported =>
    /\ EndUnread \/ central \in Stopped => radio \in {"idle", "connecting"}
    /\ Behind(mq["COMMANDRESP"], Ends) \subseteq Quiet /\ Behind(tty, Ends) \subseteq Noise
    /\ Answers \cap Ends # {} \/ central \in Stopped => Sent \subseteq Noise
    /\ central \in Stopped => Answers \subseteq Quiet
    /\ central \notin Bonding

\* In a run that began without a link there is none, nor what a peer asks for,
\* before Central has asked for one.
LinkInv == ~linked /\ central \notin Linking =>
    /\ radio \notin {"connecting", "connected"}
    /\ \A e \in Answers \cup Sent : ~MtuAsked(e)

\* A 2 in the place of a match comes from a report that left one behind, or from
\* a peer's request for another MTU, which only a run that began with a link reads.
MatchInv ==
    /\ \A e \in Answers \cup Sent :
           ScanDataResult(e) = 2 => Matches(e) \/ 2 \in left.bytes \/ MtuAsked(e)
    /\ central \in {"SCAN_CANCEL", "SCAN_CANCEL_RSP", "LINK_REQ"} =>
           scanned_mac \/ 2 \in left.bytes \/ linked

\* What Central waits for is under way: C stands for events of some kind.
Coming(C) == Answers \cap C # {} \/ \E e \in Sent : e \in C /\ Route(e) = "COMMANDRESP"
ScanEnd   == {e \in EventSet : e.code = VS_GAP_DEVICE_DISCOVERY}
LinkUp    == {e \in EventSet : e.code = VS_GAP_LINK_ESTABLISHED}
WaitInv ==
    /\ central = "SCAN_RSP" => VS_GAP_DEVICE_DISCOVERY_REQUEST \in Asked \/ Coming(EventSet)
    /\ central \in {"SCAN_RSP", "SCAN_DATA"} =>
           /\ \/ VS_GAP_DEVICE_DISCOVERY_REQUEST \in Asked \/ Coming(ScanEnd)
              \/ radio = "scanning" \/ unready
           /\ Asked \cap Starting # {} => VS_GAP_DEVICE_DISCOVERY_REQUEST \in Asked
    /\ central = "SCAN_CANCEL_RSP" =>
           VS_GAP_DEVICE_DISCOVERY_CANCEL \in Asked \/ Coming(Ends) \/ raced
    /\ central = "LINK_RSP" /\ ~inherited => radio \in {"idle", "connecting"} \/ Coming(LinkUp)

\* What is behind nothing of C when C does not occur.
LEMMA NothingBehind ==
    ASSUME NEW S, NEW s \in Seq(S), NEW C, Elems(s) \cap C = {}
    PROVE  Behind(s, C) = {}
<1> SUFFICES ASSUME NEW k \in 1..Len(s), NEW i \in 1..(k - 1), s[i] \in C PROVE FALSE
  BY DEF Behind
<1>1. i \in 1..Len(s)
  BY LenProperties
<1> QED BY <1>1 DEF Elems

\* A status: Central's results of it, and where it goes.
LEMMA StatusFacts ==
    ASSUME NEW op \in Nat, NEW status \in Nat, NEW e, e = CommandStatus(op, status)
    PROVE  /\ e \in EventSet /\ ~CancelDone(e) /\ ScanDataResult(e) = 127
           /\ e.code = VS_COMMAND_STATUS /\ LinkRspResult(e) = IF op = \hFE08 THEN 3 ELSE op % 256
           /\ op \notin {\hFC06, \hFC21} => Route(e) = StatusQueue(op)
<1>1. e \in EventSet /\ e.evt = VENDOR /\ e.code = VS_COMMAND_STATUS /\ e.arg = op
  <2>1. VS_COMMAND_STATUS \in Nat /\ 0 \in Nat
    BY DEF VS_COMMAND_STATUS
  <2>2. e = Event(VS_COMMAND_STATUS, status, op, 0)
    BY DEF CommandStatus
  <2> QED BY <2>1, <2>2, EventType
<1>2. ~CancelDone(e)
  BY <1>1 DEF CancelDone, VS_COMMAND_STATUS, VS_GAP_DEVICE_DISCOVERY
<1>3. ScanDataResult(e) = 127
  BY <1>1 DEF ScanDataResult, Matches, VS_COMMAND_STATUS, VS_GAP_DEVICE_INFORMATION
<1>4. LinkRspResult(e) = IF op = \hFE08 THEN 3 ELSE op % 256
  BY <1>1 DEF LinkRspResult, VS_COMMAND_STATUS, VS_GAP_LINK_ESTABLISHED, VS_GAP_LINK_TERMINATED
<1>5. ASSUME op \notin {\hFC06, \hFC21} PROVE Route(e) = StatusQueue(op)
  <2>1. e.code \notin ToCommandResp
    BY <1>1 DEF VS_COMMAND_STATUS, ToCommandResp, EVENT_VS_ATT_READ_BY_TYPE_REQUEST,
        EVENT_VS_ATT_READ_BY_GROUP_TYPE_REQUEST, EVENT_VS_ATT_READ_REQUEST,
        EVENT_VS_ATT_EXCHANGE_MTU_REQUEST, VS_GAP_DEVICE_INFORMATION, VS_GAP_LINK_ESTABLISHED,
        VS_GAP_DEVICE_DISCOVERY, VS_TI_ATT_READ_BY_TYPE_RESPONSE
  <2>2. /\ e.code # VS_GAP_LINK_TERMINATED /\ e.code # EVENT_VS_ATT_HANDLE_VALUE_NOTIFICATION
        /\ ~IsWrite(e)
    BY <1>1 DEF VS_COMMAND_STATUS, VS_GAP_LINK_TERMINATED, IsWrite, EVENT_VS_ATT_WRITE_REQUEST,
        EVENT_VS_ATT_HANDLE_VALUE_NOTIFICATION, EVENT_VS_ATT_PREPARE_WRITE_REQUEST
  <2> QED BY <1>1, <1>5, <2>1, <2>2 DEF Route
<1> QED BY <1>1, <1>2, <1>3, <1>4, <1>5

\* Events that are always given to Central: scans, links and their ends.
LEMMA RoutedToCentral ==
    ASSUME NEW e \in EventSet, e.evt = VENDOR, e.arg = 0, e.code \in ToCommandResp
    PROVE  Route(e) = "COMMANDRESP"
<1>1. /\ e.code # VS_COMMAND_STATUS /\ e.code # VS_GAP_LINK_TERMINATED /\ ~IsWrite(e)
      /\ e.code # EVENT_VS_ATT_HANDLE_VALUE_NOTIFICATION
  BY DEF ToCommandResp, EVENT_VS_ATT_READ_BY_TYPE_REQUEST, EVENT_VS_ATT_READ_BY_GROUP_TYPE_REQUEST,
      EVENT_VS_ATT_READ_REQUEST, EVENT_VS_ATT_EXCHANGE_MTU_REQUEST, VS_GAP_DEVICE_INFORMATION,
      VS_GAP_LINK_ESTABLISHED, VS_GAP_DEVICE_DISCOVERY, VS_TI_ATT_READ_BY_TYPE_RESPONSE,
      VS_COMMAND_STATUS, VS_GAP_LINK_TERMINATED, EVENT_VS_ATT_HANDLE_VALUE_NOTIFICATION,
      IsWrite, EVENT_VS_ATT_WRITE_REQUEST, EVENT_VS_ATT_PREPARE_WRITE_REQUEST
<1> QED BY <1>1 DEF Route

\* What a command makes of the radio when it is one the dongle takes.
Answered(op) == IF op = VS_GAP_DEVICE_DISCOVERY_REQUEST /\ radio = "idle" THEN "scanning"
                ELSE IF op = VS_GAP_ESTABLISH_LINK_REQUEST /\ radio = "idle" THEN "connecting"
                ELSE radio

\* The commands that start the dongle, the one that ends a scan, and the others,
\* which are answered by a status alone.
LEMMA ReactionCases ==
    ASSUME NEW op \in Nat, radio \in Radio, NEW r, r = Reaction(op)
    PROVE  \/ op = BT_RESET /\ r.radio = "off" /\ r.events = <<CommandComplete>>
           \/ /\ op = VS_GAP_DEVICE_INITIALIZATION /\ r.radio = "idle"
              /\ r.events = <<CommandStatus(op, 0), Event(VS_GAP_DEVICE_INIT_DONE, 0, 0, 0)>>
           \/ /\ op = VS_GAP_DEVICE_DISCOVERY_CANCEL /\ radio = "scanning" /\ r.radio = "idle"
              /\ r.events = <<CommandStatus(op, 0), ScanDone(ScanCancelled)>>
           \/ /\ op \notin Starting /\ r.radio = Answered(op)
              /\ ~(op = VS_GAP_DEVICE_DISCOVERY_CANCEL /\ radio = "scanning")
              /\ \E status \in {0, Refused} : r.events = <<CommandStatus(op, status)>>
<1> USE DEF BT_RESET, VS_GAP_DEVICE_INITIALIZATION, VS_GAP_DEVICE_DISCOVERY_REQUEST,
      VS_GAP_DEVICE_DISCOVERY_CANCEL, VS_GAP_ESTABLISH_LINK_REQUEST, VS_GAP_AUTHENTICATE,
      VS_GAP_PASSKEY_UPDATE, VS_GAP_SET_PARAMETER, GATT_WRITECHARVALUE, VS_ATT_WRITE_RESPONSE
<1>1. CASE op \in Starting
  BY <1>1 DEF Starting, Reaction
<1>2. CASE op = VS_GAP_DEVICE_DISCOVERY_CANCEL /\ radio = "scanning"
  BY <1>2 DEF Reaction
<1>3. CASE op \notin Starting /\ ~(op = VS_GAP_DEVICE_DISCOVERY_CANCEL /\ radio = "scanning")
  BY <1>3 DEF Starting, Reaction, Answered
<1> QED BY <1>1, <1>2, <1>3

\* The events of a reaction: only a cancel that ends a scan makes one of Ends,
\* the status of a later command is noise, and none looks like a match.
LEMMA ReactionEvents ==
    ASSUME NEW op \in Nat, radio \in Radio, NEW r, r = Reaction(op)
    PROVE  /\ \A e \in Elems(r.events) : ScanDataResult(e) # 2
           /\ Behind(r.events, Ends) = {}
           /\ Elems(r.events) \cap Ends # {} =>
                  op = VS_GAP_DEVICE_DISCOVERY_CANCEL /\ radio = "scanning" /\ r.radio = "idle"
           /\ op \in Later => Elems(r.events) \subseteq Noise
<1>1. CASE op = BT_RESET /\ r.events = <<CommandComplete>>
  <2>1. CommandComplete \in EventSet /\ CommandComplete.code = 0
    BY DEF CommandComplete, EventSet
  <2>2. ScanDataResult(CommandComplete) # 2 /\ CommandComplete \notin Ends
    BY <2>1 DEF ScanDataResult, Matches, VS_GAP_DEVICE_INFORMATION, Ends, CancelDone,
                VS_GAP_DEVICE_DISCOVERY
  <2>3. r.events \in Seq(EventSet) /\ Elems(r.events) = {CommandComplete}
    BY <1>1, <2>1, SingleEvent
  <2>4. op \notin Later
    BY <1>1 DEF Later, BT_RESET, VS_ATT_WRITE_RESPONSE, VS_GAP_ESTABLISH_LINK_REQUEST,
                VS_GAP_AUTHENTICATE, VS_GAP_PASSKEY_UPDATE, GATT_WRITECHARVALUE
  <2> QED BY <2>2, <2>3, <2>4, NothingBehind
<1>2. CASE /\ op = VS_GAP_DEVICE_INITIALIZATION
           /\ r.events = <<CommandStatus(op, 0), Event(VS_GAP_DEVICE_INIT_DONE, 0, 0, 0)>>
  <2> DEFINE s == CommandStatus(op, 0)  d == Event(VS_GAP_DEVICE_INIT_DONE, 0, 0, 0)
  <2>1. s \in EventSet /\ ScanDataResult(s) = 127 /\ ~CancelDone(s)
    BY StatusFacts
  <2>2. d \in EventSet /\ d.code = 1536
    BY EventType DEF VS_GAP_DEVICE_INIT_DONE
  <2> HIDE DEF s, d
  <2>3. ScanDataResult(d) # 2 /\ ~CancelDone(d)
    BY <2>2 DEF ScanDataResult, Matches, VS_GAP_DEVICE_INFORMATION, CancelDone,
                VS_GAP_DEVICE_DISCOVERY
  <2>4. r.events = <<s, d>> /\ r.events \in Seq(EventSet) /\ Elems(r.events) = {s, d}
    <3>1. r.events = <<s, d>>
      BY <1>2 DEF s, d
    <3>2. <<s, d>> \in Seq(EventSet) /\ Elems(<<s, d>>) = {s, d}
      BY <2>1, <2>2, TwoEvents
    <3> QED BY <3>1, <3>2
  <2>5. op \notin Later
    BY <1>2 DEF Later, VS_GAP_DEVICE_INITIALIZATION, VS_ATT_WRITE_RESPONSE,
        VS_GAP_ESTABLISH_LINK_REQUEST, VS_GAP_AUTHENTICATE, VS_GAP_PASSKEY_UPDATE, GATT_WRITECHARVALUE
  <2>6. Elems(r.events) \cap Ends = {}
    BY <2>1, <2>3, <2>4 DEF Ends
  <2>7. Behind(r.events, Ends) = {}
    BY <2>4, <2>6, NothingBehind
  <2>8. \A e \in Elems(r.events) : ScanDataResult(e) # 2
    BY <2>1, <2>3, <2>4
  <2> QED BY <2>5, <2>6, <2>7, <2>8
<1>3. CASE /\ op = VS_GAP_DEVICE_DISCOVERY_CANCEL /\ radio = "scanning" /\ r.radio = "idle"
           /\ r.events = <<CommandStatus(op, 0), ScanDone(ScanCancelled)>>
  <2> DEFINE s == CommandStatus(op, 0)  d == ScanDone(ScanCancelled)
  <2>1. s \in EventSet /\ ScanDataResult(s) = 127 /\ ~CancelDone(s)
    BY StatusFacts
  <2>2. d \in EventSet /\ d.code = 1537
    BY EventType DEF ScanDone, VS_GAP_DEVICE_DISCOVERY, ScanCancelled
  <2> HIDE DEF s, d
  <2>3. ScanDataResult(d) # 2
    BY <2>2 DEF ScanDataResult, Matches, VS_GAP_DEVICE_INFORMATION
  <2>4. r.events = <<s, d>> /\ r.events \in Seq(EventSet) /\ Elems(r.events) = {s, d}
    <3>1. r.events = <<s, d>>
      BY <1>3 DEF s, d
    <3>2. <<s, d>> \in Seq(EventSet) /\ Elems(<<s, d>>) = {s, d}
      BY <2>1, <2>2, TwoEvents
    <3> QED BY <3>1, <3>2
  <2>5. Behind(r.events, Ends) = {}
    <3>1. Len(r.events) = 2 /\ r.events[1] = s
      BY <2>4
    <3>2. ASSUME NEW k \in 1..Len(r.events), NEW i \in 1..(k - 1) PROVE r.events[i] \notin Ends
      <4>1. i = 1
        BY <3>1
      <4> QED BY <2>1, <3>1, <4>1 DEF Ends
    <3> QED BY <3>2 DEF Behind
  <2>6. op \notin Later
    BY <1>3 DEF Later, VS_GAP_DEVICE_DISCOVERY_CANCEL, VS_ATT_WRITE_RESPONSE,
        VS_GAP_ESTABLISH_LINK_REQUEST, VS_GAP_AUTHENTICATE, VS_GAP_PASSKEY_UPDATE, GATT_WRITECHARVALUE
  <2> QED BY <1>3, <2>1, <2>3, <2>4, <2>5, <2>6
<1>4. ASSUME NEW status \in {0, Refused}, r.events = <<CommandStatus(op, status)>>
      PROVE  /\ \A e \in Elems(r.events) : ScanDataResult(e) # 2
             /\ Behind(r.events, Ends) = {} /\ Elems(r.events) \cap Ends = {}
             /\ op \in Later => Elems(r.events) \subseteq Noise
  <2> DEFINE s == CommandStatus(op, status)
  <2>1. /\ s \in EventSet /\ ScanDataResult(s) = 127 /\ ~CancelDone(s)
        /\ LinkRspResult(s) = IF op = \hFE08 THEN 3 ELSE op % 256
        /\ op \notin {\hFC06, \hFC21} => Route(s) = StatusQueue(op)
    BY StatusFacts DEF Refused
  <2> HIDE DEF s
  <2>2. r.events \in Seq(EventSet) /\ Elems(r.events) = {s}
    BY <1>4, <2>1, SingleEvent DEF s
  <2>3. Elems(r.events) \cap Ends = {}
    BY <2>1, <2>2 DEF Ends
  <2>4. ASSUME op \in Later PROVE s \in Noise
    <3>1. \/ Route(s) # "COMMANDRESP"
          \/ op \in {VS_GAP_ESTABLISH_LINK_REQUEST, VS_GAP_AUTHENTICATE, VS_GAP_PASSKEY_UPDATE}
      BY <2>1, <2>4 DEF Later, StatusQueue, PrintedStatus, VS_ATT_WRITE_RESPONSE,
                        GATT_WRITECHARVALUE, NoQueue
    <3>2. CASE op \in {VS_GAP_ESTABLISH_LINK_REQUEST, VS_GAP_AUTHENTICATE, VS_GAP_PASSKEY_UPDATE}
      <4>1. op # \hFE08 /\ op % 256 # 0
        BY <3>2 DEF VS_GAP_ESTABLISH_LINK_REQUEST, VS_GAP_AUTHENTICATE, VS_GAP_PASSKEY_UPDATE
      <4> QED BY <2>1, <4>1 DEF Noise, Quiet
    <3> QED BY <2>1, <3>1, <3>2 DEF Noise
  <2> QED BY <2>1, <2>2, <2>3, <2>4, NothingBehind
<1> QED BY <1>1, <1>2, <1>3, <1>4, ReactionCases

\* The dongle takes the first command: what is left of them.
LEMMA CommandElems ==
    ASSUME TypeInv, cmds # <<>>, cmds' = Tail(cmds), NEW C
    PROVE  /\ Head(cmds) \in Nat /\ Asked = {Head(cmds)} \cup Asked'
           /\ Behind(cmds', C) \subseteq Behind(cmds, C)
           /\ Head(cmds) \in C => Asked' \subseteq Behind(cmds, C)
BY TailElems DEF TypeInv, TypeOK, Asked

\* The dongle puts events on the line.
LEMMA EmitElems ==
    ASSUME TypeInv, NEW events \in Seq(EventSet), Emit(events), NEW C
    PROVE  /\ Sent' = Sent \cup Elems(events)
           /\ Behind(tty', C) \subseteq Behind(tty, C) \cup Elems(events)
           /\ Sent \cap C = {} => Behind(tty', C) \subseteq Behind(events, C)
BY ConcatElems DEF TypeInv, TypeOK, Sent, Emit

\* A command is written, or lost, or none is written.
LEMMA WriteElems ==
    ASSUME TypeInv, NEW op \in Nat, Written(op) \/ NotWritten \/ UNCHANGED <<cmds, left>>, NEW C
    PROVE  /\ Asked' = Asked \cup {op} \/ Asked' = Asked
           /\ Written(op) => Asked' = Asked \cup {op}
           /\ Behind(cmds', C) \subseteq Behind(cmds, C) \cup {op}
           /\ Asked \cap C = {} => Behind(cmds', C) = {}
<1>1. cmds \in Seq(Nat)
  BY DEF TypeInv, TypeOK
<1>2. CASE Written(op)
  <2>1. cmds' = Append(cmds, op)
    BY <1>2 DEF Written
  <2>2. /\ Elems(Append(cmds, op)) = Elems(cmds) \cup {op}
        /\ Behind(Append(cmds, op), C) \subseteq Behind(cmds, C) \cup {op}
        /\ Elems(cmds) \cap C = {} => Behind(Append(cmds, op), C) = {}
    BY <1>1, AppendElems
  <2>3. Asked = Elems(cmds) /\ Asked' = Elems(Append(cmds, op))
    BY <2>1 DEF Asked
  <2> QED BY <2>1, <2>2, <2>3
<1>3. CASE cmds' = cmds
  <2>1. Asked' = Asked /\ Behind(cmds', C) = Behind(cmds, C)
    BY <1>3 DEF Asked
  <2>2. Asked \cap C = {} => Behind(cmds, C) = {}
    BY <1>1, NothingBehind DEF Asked
  <2>3. Written(op) => Asked' = Asked \cup {op}
    BY <1>1, AppendElems DEF Written, Asked
  <2> QED BY <2>1, <2>2, <2>3
<1> QED BY <1>2, <1>3 DEF NotWritten

\* UartCmdRxThread takes the first event off the line: to Central's queue or not.
LEMMA RouteElems ==
    ASSUME TypeInv, RouteEvent, NEW e, e = Head(tty), NEW C
    PROVE  /\ e \in EventSet /\ Sent = {e} \cup Sent'
           /\ Behind(tty', C) \subseteq Behind(tty, C)
           /\ e \in C => Sent' \subseteq Behind(tty, C)
           /\ \/ /\ Route(e) = "COMMANDRESP" /\ Answers' = Answers \cup {e}
                 /\ Behind(mq'["COMMANDRESP"], C) \subseteq Behind(mq["COMMANDRESP"], C) \cup {e}
                 /\ Answers \cap C = {} => Behind(mq'["COMMANDRESP"], C) = {}
              \/ Route(e) # "COMMANDRESP" /\ mq'["COMMANDRESP"] = mq["COMMANDRESP"]
<1>1. /\ e \in EventSet /\ Sent = {e} \cup Sent'
      /\ Behind(tty', C) \subseteq Behind(tty, C)
      /\ e \in C => Sent' \subseteq Behind(tty, C)
  BY TailElems DEF RouteEvent, TypeInv, TypeOK, Sent
<1>2. /\ mq \in [Queues -> Seq(EventSet)] /\ "COMMANDRESP" \in Queues
      /\ mq["COMMANDRESP"] \in Seq(EventSet)
  BY DEF TypeInv, TypeOK, Queues
<1>3. (mq' = mq /\ Route(e) = NoQueue) \/ Enqueue(Route(e), e)
  BY DEF RouteEvent
<1>4. CASE Route(e) = "COMMANDRESP"
  <2>1. mq'["COMMANDRESP"] = Append(mq["COMMANDRESP"], e)
    BY <1>2, <1>3, <1>4 DEF Enqueue, Queues, NoQueue
  <2>2. /\ Elems(mq'["COMMANDRESP"]) = Elems(mq["COMMANDRESP"]) \cup {e}
        /\ Behind(mq'["COMMANDRESP"], C) \subseteq Behind(mq["COMMANDRESP"], C) \cup {e}
        /\ Elems(mq["COMMANDRESP"]) \cap C = {} => Behind(mq'["COMMANDRESP"], C) = {}
    <3> DEFINE s == mq["COMMANDRESP"]
    <3>1. s \in Seq(EventSet) /\ e \in EventSet
      BY <1>1, <1>2
    <3> HIDE DEF s
    <3>2. /\ Elems(Append(s, e)) = Elems(s) \cup {e}
          /\ Behind(Append(s, e), C) \subseteq Behind(s, C) \cup {e}
          /\ Elems(s) \cap C = {} => Behind(Append(s, e), C) = {}
      BY <3>1, AppendElems
    <3> QED BY <2>1, <3>2 DEF s
  <2> QED BY <1>1, <1>4, <2>2 DEF Answers
<1>5. CASE Route(e) # "COMMANDRESP"
  <2>1. mq'["COMMANDRESP"] = mq["COMMANDRESP"]
    <3> DEFINE q == Route(e)  longer == Append(mq[q], e)
    <3>1. (mq' = mq \/ mq' = [mq EXCEPT ![q] = longer]) /\ q # "COMMANDRESP"
      BY <1>3, <1>5 DEF Enqueue
    <3> HIDE DEF q, longer
    <3> QED BY <1>2, <3>1
  <2> QED BY <1>1, <1>5, <2>1
<1> QED BY <1>4, <1>5

\* Central reads the first message of its queue.
LEMMA ReadElems ==
    ASSUME TypeInv, Receive, NEW C
    PROVE  /\ buffer \in EventSet /\ Answers = {buffer} \cup Answers'
           /\ Behind(mq'["COMMANDRESP"], C) \subseteq Behind(mq["COMMANDRESP"], C)
           /\ buffer \in C => Answers' \subseteq Behind(mq["COMMANDRESP"], C)
<1>1. mq["COMMANDRESP"] \in Seq(EventSet) /\ mq["COMMANDRESP"] # <<>>
  BY DEF Receive, TypeInv, TypeOK, Queues
<1>2. mq'["COMMANDRESP"] = Tail(mq["COMMANDRESP"])
  BY ReceiveType
<1> QED BY <1>1, <1>2, TailElems DEF Answers, buffer

\* The commands, taken apart where one is compared with another.
LEMMA Opcodes ==
    /\ Later \subseteq Nat /\ Starting \subseteq Nat /\ VS_GAP_SET_PARAMETER \in Nat
    /\ VS_GAP_DEVICE_DISCOVERY_REQUEST \in Nat /\ VS_GAP_DEVICE_DISCOVERY_CANCEL \in Nat
    /\ {VS_ATT_WRITE_RESPONSE, VS_GAP_ESTABLISH_LINK_REQUEST, VS_GAP_AUTHENTICATE,
        VS_GAP_PASSKEY_UPDATE, GATT_WRITECHARVALUE} = Later
    /\ {BT_RESET, VS_GAP_DEVICE_INITIALIZATION} = Starting
    /\ (Later \cup {VS_GAP_SET_PARAMETER, VS_GAP_DEVICE_DISCOVERY_CANCEL}) \cap Starting = {}
    /\ VS_GAP_DEVICE_DISCOVERY_REQUEST \notin Later \cup Starting \cup
           {VS_GAP_DEVICE_DISCOVERY_CANCEL, VS_GAP_SET_PARAMETER}
    /\ VS_GAP_DEVICE_DISCOVERY_CANCEL \notin Later \cup Starting \cup {VS_GAP_SET_PARAMETER}
    /\ VS_GAP_ESTABLISH_LINK_REQUEST \notin Starting \cup
           {VS_ATT_WRITE_RESPONSE, VS_GAP_AUTHENTICATE, VS_GAP_PASSKEY_UPDATE,
            GATT_WRITECHARVALUE, VS_GAP_SET_PARAMETER}
BY DEF Later, Starting, BT_RESET, VS_GAP_DEVICE_INITIALIZATION, VS_GAP_DEVICE_DISCOVERY_REQUEST,
       VS_GAP_DEVICE_DISCOVERY_CANCEL, VS_GAP_ESTABLISH_LINK_REQUEST, VS_GAP_AUTHENTICATE,
       VS_GAP_PASSKEY_UPDATE, VS_GAP_SET_PARAMETER, GATT_WRITECHARVALUE, VS_ATT_WRITE_RESPONSE

\* A command that does not disturb the order of the others may be written anywhere.
LEMMA HarmlessWrite ==
    ASSUME TypeInv, CommandInv, NEW op \in Nat, Written(op) \/ NotWritten \/ UNCHANGED <<cmds, left>>,
           /\ op \in Later /\ op # VS_GAP_ESTABLISH_LINK_REQUEST,
           \/ central' = central
           \/ central \in Bonding /\ central' \in Bonding
    PROVE  CommandInv'
<1>1. /\ Asked' = Asked \cup {op} \/ Asked' = Asked
      /\ Behind(cmds', {VS_GAP_DEVICE_DISCOVERY_CANCEL}) \subseteq
             Behind(cmds, {VS_GAP_DEVICE_DISCOVERY_CANCEL}) \cup {op}
      /\ Behind(cmds', {VS_GAP_DEVICE_DISCOVERY_REQUEST}) \subseteq
             Behind(cmds, {VS_GAP_DEVICE_DISCOVERY_REQUEST}) \cup {op}
  BY WriteElems
<1>2. /\ op # VS_GAP_DEVICE_DISCOVERY_REQUEST /\ op # VS_GAP_DEVICE_DISCOVERY_CANCEL
      /\ op \notin Starting
  BY Opcodes
<1>3. CASE central' = central
  BY <1>1, <1>2, <1>3 DEF CommandInv
<1>4. CASE central \in Bonding /\ central' \in Bonding
  BY <1>1, <1>2, <1>4 DEF CommandInv, Bonding, Stopping, Linking
<1> QED BY <1>3, <1>4

\* What is known of commands holds initially and in every step.
LEMMA CommandInit == Init => CommandInv
<1> SUFFICES ASSUME Init PROVE CommandInv
  OBVIOUS
<1>1. Asked = {} /\ \A C : Behind(cmds, C) = {}
  BY NoElems DEF Init, Asked
<1> QED BY <1>1 DEF CommandInv

LEMMA CommandNext == TypeInv /\ CommandInv /\ [Next]_vars => CommandInv'
<1> SUFFICES ASSUME TypeInv, CommandInv, [Next]_vars PROVE CommandInv'
  OBVIOUS
<1> DEFINE request == VS_GAP_DEVICE_DISCOVERY_REQUEST
           cancel  == VS_GAP_DEVICE_DISCOVERY_CANCEL
           link    == VS_GAP_ESTABLISH_LINK_REQUEST
<1>1. ASSUME UNCHANGED <<central, cmds>> PROVE CommandInv'
  BY <1>1 DEF CommandInv, Asked
<1>2. CASE DongleCommand
  <2>1. /\ central' = central /\ Asked' \subseteq Asked
        /\ Behind(cmds', {cancel}) \subseteq Behind(cmds, {cancel})
        /\ Behind(cmds', {request}) \subseteq Behind(cmds, {request})
    BY <1>2, CommandElems DEF DongleCommand, host
  <2> QED BY <2>1 DEF CommandInv
<1>3. CASE data_ack
  BY <1>3, Opcodes, HarmlessWrite DEF data_ack
<1>4. CASE bond
  BY <1>4, Opcodes, HarmlessWrite DEF bond, Send, Bonding
<1>5. CASE data_led
  BY <1>5, Opcodes, HarmlessWrite DEF data_led, Bonding
<1>6. ASSUME NEW op \in Nat, Written(op) \/ NotWritten
      PROVE  /\ Asked' = Asked \cup {op} \/ Asked' = Asked
             /\ Behind(cmds', {cancel}) \subseteq Behind(cmds, {cancel}) \cup {op}
             /\ Behind(cmds', {request}) \subseteq Behind(cmds, {request}) \cup {op}
             /\ cancel \notin Asked => Behind(cmds', {cancel}) = {}
             /\ request \notin Asked => Behind(cmds', {request}) = {}
  BY <1>6, WriteElems
<1> USE Opcodes
<1> HIDE DEF request, cancel, link
<1>7. CASE HCI_Reset \/ HCI_Init
  <2>1. PICK op \in Starting : Written(op) \/ NotWritten
    BY <1>7 DEF HCI_Reset, HCI_Init, Send
  <2>2. /\ central \in {"RESET", "DEVICE_INIT"} /\ central' \in {"DEVICE_INIT", "PARAM_UPDATE"}
    BY <1>7 DEF HCI_Reset, HCI_Init, Send
  <2>3. cancel \notin Asked /\ request \notin Asked /\ link \notin Asked
    BY <2>2 DEF CommandInv, Stopping, Linking, Bonding, cancel, request, link
  <2>4. op \in Nat /\ op # cancel /\ op # request /\ op # link
    BY <2>1 DEF cancel, request, link
  <2> QED BY <1>6, <2>1, <2>2, <2>3, <2>4 DEF CommandInv, cancel, request, link
<1>8. CASE PARAM_UPDATE
  <2>1. Written(VS_GAP_SET_PARAMETER) \/ NotWritten
    BY <1>8 DEF PARAM_UPDATE, Send
  <2>2. central = "PARAM_UPDATE" /\ central' = "INIT"
    BY <1>8 DEF PARAM_UPDATE, Send
  <2>3. cancel \notin Asked /\ request \notin Asked /\ link \notin Asked
    BY <2>2 DEF CommandInv, Stopping, Linking, Bonding, cancel, request, link
  <2>4. VS_GAP_SET_PARAMETER # cancel /\ VS_GAP_SET_PARAMETER # link
    BY DEF cancel, link
  <2> QED BY <1>6, <2>1, <2>2, <2>3, <2>4 DEF CommandInv, cancel, request, link
<1>9. CASE Device_Scan_Req
  <2>1. Written(request) \/ NotWritten
    BY <1>9 DEF Device_Scan_Req, Request, request
  <2>2. central = "SCAN_REQ" /\ central' \in {"SCAN_RSP", "INIT"}
    BY <1>9 DEF Device_Scan_Req, Request
  <2>3. cancel \notin Asked /\ link \notin Asked
    BY <2>2 DEF CommandInv, Stopping, Linking, Bonding, cancel, link
  <2>4. request # cancel /\ request # link /\ request \notin Starting /\ request \in Nat
    BY DEF request, cancel, link
  <2> QED BY <1>6, <2>1, <2>2, <2>3, <2>4 DEF CommandInv, cancel, request, link
<1>10. CASE Device_Scan_Cancel_Req
  <2>1. \/ Written(cancel) /\ central' = "SCAN_CANCEL_RSP"
        \/ UNCHANGED <<central, cmds>>
    BY <1>10 DEF Device_Scan_Cancel_Req, Request, NotWritten, cancel
  <2>2. central = "SCAN_CANCEL"
    BY <1>10 DEF Device_Scan_Cancel_Req, Request
  <2>3. cancel \notin Asked /\ link \notin Asked
    BY <2>2 DEF CommandInv, Stopping, Linking, Bonding, cancel, link
  <2>4. cancel # link /\ cancel \notin Starting /\ cancel \in Nat
    BY DEF cancel, link
  <2>5. CASE Written(cancel) /\ central' = "SCAN_CANCEL_RSP"
    <3>1. central' \in Stopping /\ central' \notin {"RESET", "DEVICE_INIT", "PARAM_UPDATE"}
      BY <2>5 DEF Stopping
    <3>2. /\ Asked' = Asked \cup {cancel} \/ Asked' = Asked
          /\ Behind(cmds', {cancel}) = {}
          /\ Behind(cmds', {request}) \subseteq Behind(cmds, {request}) \cup {cancel}
      BY <1>6, <2>3, <2>4, <2>5
    <3> QED BY <2>3, <2>4, <3>1, <3>2 DEF CommandInv, cancel, request, link
  <2> QED BY <1>1, <2>1, <2>5
<1>11. CASE Device_Establish_Link_Req
  <2>1. \/ Written(link) /\ central' = "LINK_RSP"
        \/ UNCHANGED <<central, cmds>>
    BY <1>11 DEF Device_Establish_Link_Req, Request, NotWritten, link
  <2>2. link \in Later /\ link \in Nat /\ link \notin Starting /\ link # request
    BY DEF link, request
  <2>3. CASE Written(link) /\ central' = "LINK_RSP"
    <3>1. /\ central' \in Stopping /\ central' \in Linking
          /\ central' \notin {"RESET", "DEVICE_INIT", "PARAM_UPDATE"}
      BY <2>3 DEF Stopping, Linking
    <3>2. /\ Asked' = Asked \cup {link} \/ Asked' = Asked
          /\ Behind(cmds', {cancel}) \subseteq Behind(cmds, {cancel}) \cup {link}
          /\ Behind(cmds', {request}) \subseteq Behind(cmds, {request}) \cup {link}
      BY <1>6, <2>2, <2>3
    <3>3. /\ Behind(cmds, {cancel}) \subseteq Later
          /\ Behind(cmds, {request}) \cap Starting = {}
      BY DEF CommandInv, cancel, request
    <3> QED BY <2>2, <3>1, <3>2, <3>3 DEF CommandInv, cancel, request
  <2> QED BY <1>1, <2>1, <2>3
<1>12. CASE \/ StateInit \/ Device_Scan_Rsp \/ Device_Scan_Data \/ Device_Scan_Cancel_Rsp
            \/ Device_Establish_Link_Rsp
  <2>1. cmds' = cmds /\ Asked' = Asked
    BY <1>12 DEF StateInit, Device_Scan_Rsp, Device_Scan_Data, Device_Scan_Cancel_Rsp,
                 Device_Establish_Link_Rsp, Receive, Asked
  <2>2. \/ /\ central \in {"INIT", "SCAN_RSP", "SCAN_DATA"}
           /\ central' \in {"INIT", "SCAN_REQ", "SCAN_DATA", "SCAN_CANCEL"}
        \/ central = "SCAN_CANCEL_RSP" /\ central' \in {"SCAN_CANCEL_RSP", "LINK_REQ"}
        \/ central = "LINK_RSP" /\ central' \in {"LINK_RSP", "BOND"}
    BY <1>12 DEF StateInit, Device_Scan_Rsp, Device_Scan_Data, Device_Scan_Cancel_Rsp,
                 Device_Establish_Link_Rsp
  <2> QED BY <2>1, <2>2 DEF CommandInv, Stopping, Linking, Bonding
<1>13. CASE Restart
  BY <1>13, NoElems DEF Restart, CommandInv, Asked
<1>14. CASE RouteEvent \/ Advertise \/ ScanEnds \/ LinkOutcome \/ LinkTraffic \/ UNCHANGED vars
  BY <1>1, <1>14 DEF RouteEvent, Advertise, ScanEnds, LinkOutcome, LinkTraffic, host, vars
<1> QED
  BY <1>2, <1>3, <1>4, <1>5, <1>7, <1>8, <1>9, <1>10, <1>11, <1>12, <1>13, <1>14
     DEF Next, Dongle, UartCmdRxThread, CentralModeThread

\* The low byte of a request for another MTU is that of a match.
LEMMA MtuIsTwo == \A e : MtuAsked(e) => ScanDataResult(e) = 2
BY DEF MtuAsked, ScanDataResult, Matches, EVENT_VS_ATT_EXCHANGE_MTU_REQUEST,
       VS_GAP_DEVICE_INFORMATION

\* What the dongle says unasked: reports of a scan, of a link, and the traffic on it.
Reports(e) == Emit(<<e>>) /\ UNCHANGED <<host, cmds, mq, raced, unready, inherited, linked>>

\* A device, the end of the scan, a link, none after all, or traffic on the link.
Tells(e) ==
    \/ radio = "scanning" /\ radio' = "scanning" /\ reported' = reported
    \/ /\ radio = "scanning" /\ radio' = "idle" /\ reported' = reported
       /\ e.code = VS_GAP_DEVICE_DISCOVERY /\ Route(e) = "COMMANDRESP"
    \/ /\ radio = "connecting" /\ radio' \in {"connected", "idle"} /\ reported' = TRUE
       /\ e.code = VS_GAP_LINK_ESTABLISHED /\ Route(e) = "COMMANDRESP"
    \/ radio = "connecting" /\ radio' = "idle" /\ reported' = reported /\ e \in Noise
    \/ radio = "connected" /\ radio' \in {"connected", "idle"} /\ reported' = reported

\* What the dongle sends of its own accord is a report and ends no command.
LEMMA DongleReports ==
    ASSUME TypeInv, Advertise \/ ScanEnds \/ LinkOutcome \/ LinkTraffic
    PROVE  \E e \in EventSet :
               /\ Reports(e) /\ ~CancelDone(e) /\ left'.bytes = left.bytes
               /\ ScanDataResult(e) = 2 => Matches(e) \/ 2 \in left.bytes \/ MtuAsked(e)
               /\ MtuAsked(e) => radio = "connected"
               /\ Tells(e)
<1> USE DEF VS_GAP_DEVICE_DISCOVERY, VS_GAP_DEVICE_INFORMATION, VS_GAP_LINK_ESTABLISHED,
            VS_GAP_LINK_TERMINATED, EVENT_VS_ATT_EXCHANGE_MTU_REQUEST, MtuAsked
<1>1. CASE Advertise
  <2>1. PICK x \in left.bytes \cup {UUIDMatch} : Emit(<<Event(VS_GAP_DEVICE_INFORMATION, 0, 0, x)>>)
    BY <1>1 DEF Advertise
  <2>2. x \in Nat
    BY BytesType DEF UUIDMatch, TypeInv
  <2> DEFINE e == Event(VS_GAP_DEVICE_INFORMATION, 0, 0, x)
  <2>3. e \in EventSet /\ e.code = VS_GAP_DEVICE_INFORMATION /\ e.x = x
    BY <2>2, EventType
  <2>4. Emit(<<e>>)
    BY <2>1
  <2> HIDE DEF e
  <2>5. /\ ~CancelDone(e) /\ ~MtuAsked(e)
        /\ ScanDataResult(e) = 2 => Matches(e) \/ 2 \in left.bytes
    BY <2>1, <2>3 DEF CancelDone, ScanDataResult, Matches
  <2>6. left'.bytes = left.bytes /\ reported' = reported
    BY <1>1, UseType DEF Advertise, ghosts, TypeInv
  <2>7. Tells(e)
    BY <1>1, <2>6 DEF Tells, Advertise
  <2> QED BY <1>1, <2>3, <2>4, <2>5, <2>6, <2>7 DEF Advertise, Reports, ghosts
<1>2. CASE ScanEnds
  <2> DEFINE e == ScanDone(0)
  <2>1. e \in EventSet /\ e.code = VS_GAP_DEVICE_DISCOVERY /\ e.status = 0 /\ e.arg = 0 /\ e.evt = VENDOR
    BY EventType DEF ScanDone
  <2>2. Emit(<<e>>)
    BY <1>2 DEF ScanEnds
  <2> HIDE DEF e
  <2>3. ~CancelDone(e) /\ ScanDataResult(e) # 2 /\ ~MtuAsked(e) /\ Route(e) = "COMMANDRESP"
    BY <2>1, RoutedToCentral DEF CancelDone, ScanCancelled, ScanDataResult, Matches, ToCommandResp
  <2>4. Tells(e)
    BY <1>2, <2>1, <2>3 DEF Tells, ScanEnds, ghosts
  <2> QED BY <1>2, <2>1, <2>2, <2>3, <2>4 DEF ScanEnds, Reports, ghosts
<1>3. CASE LinkOutcome
  <2>1. ASSUME NEW status \in Nat, Emit(<<Event(VS_GAP_LINK_ESTABLISHED, status, 0, 0)>>),
               reported' = TRUE, radio' \in {"connected", "idle"}
        PROVE  \E e \in EventSet :
                   /\ Emit(<<e>>) /\ ~CancelDone(e) /\ ScanDataResult(e) # 2 /\ ~MtuAsked(e)
                   /\ e.code = VS_GAP_LINK_ESTABLISHED /\ Route(e) = "COMMANDRESP"
    <3> DEFINE e == Event(VS_GAP_LINK_ESTABLISHED, status, 0, 0)
    <3>1. e \in EventSet /\ e.code = VS_GAP_LINK_ESTABLISHED /\ e.arg = 0 /\ e.evt = VENDOR
      BY EventType
    <3>2. Emit(<<e>>)
      BY <2>1
    <3> HIDE DEF e
    <3>3. ~CancelDone(e) /\ ScanDataResult(e) # 2 /\ ~MtuAsked(e) /\ Route(e) = "COMMANDRESP"
      BY <3>1, RoutedToCentral DEF CancelDone, ScanDataResult, Matches, ToCommandResp
    <3> QED BY <3>1, <3>2, <3>3
  <2>2. ASSUME Emit(<<Event(VS_GAP_LINK_TERMINATED, 0, 0, \h3E)>>)
        PROVE  \E e \in EventSet : /\ Emit(<<e>>) /\ ~CancelDone(e) /\ ScanDataResult(e) # 2
                                   /\ e \in Noise /\ ~MtuAsked(e)
    <3> DEFINE e == Event(VS_GAP_LINK_TERMINATED, 0, 0, \h3E)
    <3>1. e \in EventSet /\ e.code = VS_GAP_LINK_TERMINATED /\ e.x = 62
      BY EventType
    <3>2. Emit(<<e>>)
      BY <2>2
    <3> HIDE DEF e
    <3>3. ~CancelDone(e) /\ ScanDataResult(e) # 2 /\ ~MtuAsked(e)
      BY <3>1 DEF CancelDone, ScanDataResult, Matches
    <3>4. LinkRspResult(e) = 2
      BY <3>1 DEF LinkRspResult
    <3>5. e \in Noise
      BY <3>1, <3>4 DEF Noise, Quiet
    <3> QED BY <3>1, <3>2, <3>3, <3>5
  <2>3. CASE /\ radio' \in {"connected", "idle"} /\ reported' = TRUE
             /\ \/ Emit(<<Event(VS_GAP_LINK_ESTABLISHED, 0, 0, 0)>>)
                \/ Emit(<<Event(VS_GAP_LINK_ESTABLISHED, Refused, 0, 0)>>)
    <3>1. PICK e \in EventSet :
                /\ Emit(<<e>>) /\ ~CancelDone(e) /\ ScanDataResult(e) # 2 /\ ~MtuAsked(e)
                /\ e.code = VS_GAP_LINK_ESTABLISHED /\ Route(e) = "COMMANDRESP"
      BY <2>1, <2>3 DEF Refused
    <3>2. UNCHANGED <<host, cmds, mq, left, raced, unready, inherited, linked>> /\ radio = "connecting"
      BY <1>3 DEF LinkOutcome
    <3>3. Tells(e)
      <4>1. radio = "connecting" /\ radio' \in {"connected", "idle"}
        BY <2>3, <3>2
      <4>2. reported' = TRUE
        BY <2>3
      <4>3. e.code = VS_GAP_LINK_ESTABLISHED /\ Route(e) = "COMMANDRESP"
        BY <3>1
      <4> HIDE DEF VS_GAP_DEVICE_DISCOVERY, VS_GAP_LINK_ESTABLISHED
      <4> QED BY <4>1, <4>2, <4>3, Zenon DEF Tells
    <3> QED BY <3>1, <3>2, <3>3 DEF Reports
  <2>4. CASE /\ radio' = "idle" /\ Emit(<<Event(VS_GAP_LINK_TERMINATED, 0, 0, \h3E)>>)
             /\ UNCHANGED reported
    <3>1. PICK e \in EventSet :
                /\ Emit(<<e>>) /\ ~CancelDone(e) /\ ScanDataResult(e) # 2 /\ e \in Noise
                /\ ~MtuAsked(e)
      BY <2>2, <2>4
    <3>2. UNCHANGED <<host, cmds, mq, left, raced, unready, inherited, linked>> /\ radio = "connecting"
      BY <1>3 DEF LinkOutcome
    <3>3. Tells(e)
      BY <2>4, <3>1, <3>2 DEF Tells
    <3> QED BY <3>1, <3>2, <3>3 DEF Reports
  <2>5. \/ radio' = "connected" /\ Emit(<<Event(VS_GAP_LINK_ESTABLISHED, 0, 0, 0)>>) /\ reported' = TRUE
        \/ radio' = "idle" /\ Emit(<<Event(VS_GAP_LINK_ESTABLISHED, Refused, 0, 0)>>) /\ reported' = TRUE
        \/ /\ radio' = "idle" /\ Emit(<<Event(VS_GAP_LINK_TERMINATED, 0, 0, \h3E)>>)
           /\ UNCHANGED reported
    BY <1>3 DEF LinkOutcome
  <2> HIDE DEF VS_GAP_LINK_TERMINATED, VS_GAP_LINK_ESTABLISHED
  <2> QED BY <2>3, <2>4, <2>5, Zenon
<1>4. CASE LinkTraffic
  <2>1. PICK code \in PeerCodes, x \in Nat : Emit(<<Event(code, 0, 0, x)>>)
    BY <1>4, TrafficEvent
  <2>2. code \in {1282, 1298, 1299, 1290, 1307, 1542}
    BY DEF PeerCodes
  <2> DEFINE e == Event(code, 0, 0, x)
  <2>3. e \in EventSet /\ e.code = code
    BY <2>2, EventType
  <2>4. Emit(<<e>>)
    BY <2>1
  <2> HIDE DEF e
  <2>5. ~CancelDone(e) /\ (ScanDataResult(e) = 2 => MtuAsked(e))
    BY <2>2, <2>3 DEF CancelDone, ScanDataResult, Matches
  <2>6. left'.bytes = left.bytes /\ reported' = reported /\ radio' \in {"connected", "idle"}
    BY <1>4, UseType DEF LinkTraffic, ghosts, TypeInv
  <2>7. Tells(e)
    BY <1>4, <2>6 DEF Tells, LinkTraffic
  <2> QED BY <1>4, <2>3, <2>4, <2>5, <2>6, <2>7 DEF LinkTraffic, Reports, ghosts
<1> QED BY <1>1, <1>2, <1>3, <1>4

\* A run that inherits no end of a cancelled scan begins without one.
LEMMA RestartElems ==
    ASSUME TypeInv, Restart
    PROVE  /\ Asked' = {} /\ Sent' = {} /\ Answers' = Answers
           /\ ~inherited' => Answers' \cap Ends = {}
<1>1. Asked' = {} /\ Sent' = {} /\ Answers' = Answers
  BY NoElems DEF Restart, Asked, Sent, Answers
<1>2. ASSUME ~inherited' PROVE Answers \cap Ends = {}
  <2>1. \A i \in 1..Len(mq["COMMANDRESP"]) : ~CancelDone(mq["COMMANDRESP"][i])
    BY <1>2, Zenon DEF Restart
  <2> QED BY <2>1 DEF Answers, Elems, Ends
<1> QED BY <1>1, <1>2

\* The same of the end of a scan.
LEMMA EndInit == Init => EndInv
<1> SUFFICES ASSUME Init PROVE EndInv
  OBVIOUS
<1>1. Answers = {} /\ Sent = {} /\ central = "RESET"
  BY NoElems DEF Init, Answers, Sent, Queues
<1> QED BY <1>1 DEF EndInv, EndUnread, Stopped, Bonding

\* What the dongle does keeps what is known of the end of a cancelled scan.
LEMMA EndDongle == TypeInv /\ CommandInv /\ EndInv /\ Dongle => EndInv'
<1> SUFFICES ASSUME TypeInv, CommandInv, EndInv, Dongle, ~inherited' PROVE EndInv'
  BY DEF EndInv
<1>0. inherited' = inherited
  BY DEF Dongle, DongleCommand, Advertise, ScanEnds, LinkOutcome, LinkTraffic, ghosts
<1>1. ~inherited /\ central' = central /\ mq' = mq /\ Answers' = Answers
  <2>1. central' = central /\ mq' = mq
    BY DEF Dongle, DongleCommand, Advertise, ScanEnds, LinkOutcome, LinkTraffic, host
  <2> QED BY <1>0, <2>1 DEF Answers
<1>2. radio \in Radio
  BY DEF TypeInv, TypeOK, Radio
<1>3. CASE DongleCommand
  <2> DEFINE op == Head(cmds)  r == Reaction(op)
  <2>1. /\ op \in Nat /\ Asked = {op} \cup Asked'
        /\ op = VS_GAP_DEVICE_DISCOVERY_CANCEL => Asked' \subseteq Later
    BY <1>3, CommandElems DEF DongleCommand, CommandInv
  <2> HIDE DEF op
  <2>2. r.events \in Seq(EventSet) /\ Emit(r.events) /\ radio' = r.radio
    BY <1>2, <1>3, <2>1, ReactionType DEF DongleCommand, op
  <2>3. Elems(r.events) \cap Ends # {} =>
            op = VS_GAP_DEVICE_DISCOVERY_CANCEL /\ radio = "scanning" /\ r.radio = "idle"
    BY <1>2, <2>1, ReactionEvents
  <2>4. ASSUME op \in Later
        PROVE  radio' = radio \/ (op = VS_GAP_ESTABLISH_LINK_REQUEST /\ radio' = "connecting")
    <3>1. /\ op \notin Starting /\ op # VS_GAP_DEVICE_DISCOVERY_CANCEL
          /\ op # VS_GAP_DEVICE_DISCOVERY_REQUEST
      BY <2>4, Opcodes
    <3>2. r.radio = Answered(op)
      BY <1>2, <2>1, <3>1, ReactionCases DEF Starting
    <3>3. radio' = Answered(op)
      BY <2>2, <3>2
    <3> QED BY <3>1, <3>3 DEF Answered
  <2> HIDE DEF r
  <2>5. Sent' = Sent \cup Elems(r.events)
    BY <2>2, EmitElems
  <2>6. CASE EndUnread \/ central \in Stopped
    <3>1. /\ Asked \subseteq Later /\ radio \notin {"scanning", "off"}
          /\ central \notin Linking => radio = "idle"
      BY <1>1, <2>6 DEF EndInv
    <3>2. op \in Later /\ Asked' \subseteq Later
      BY <2>1, <3>1
    <3>3. EndUnread' => EndUnread
      BY <1>1, <2>3, <2>5, <3>1 DEF EndUnread
    <3>4. central \notin Linking => op # VS_GAP_ESTABLISH_LINK_REQUEST
      BY <2>1 DEF CommandInv
    <3>5. radio' \notin {"scanning", "off"} /\ (central \notin Linking => radio' = "idle")
      BY <2>4, <3>1, <3>2, <3>4
    <3> QED BY <1>1, <3>2, <3>3, <3>5 DEF EndInv
  <2>7. CASE ~EndUnread /\ central \notin Stopped
    <3>1. EndUnread' => op = VS_GAP_DEVICE_DISCOVERY_CANCEL /\ r.radio = "idle"
      BY <1>1, <2>3, <2>5, <2>7 DEF EndUnread
    <3>2. VS_GAP_DEVICE_DISCOVERY_CANCEL \in Asked => central \in Stopping
      BY DEF CommandInv
    <3> QED BY <1>1, <2>1, <2>2, <2>7, <3>1, <3>2 DEF EndInv
  <2> QED BY <2>6, <2>7
<1>4. CASE Advertise \/ ScanEnds \/ LinkOutcome \/ LinkTraffic
  <2>1. PICK e \in EventSet : Reports(e) /\ ~CancelDone(e) /\ Tells(e)
    BY <1>4, DongleReports
  <2>2. Sent' = Sent \cup {e} /\ e \notin Ends /\ Asked' = Asked
    BY <2>1, SingleEvent, EmitElems DEF Reports, Ends, Asked
  <2>3. EndUnread' => EndUnread
    BY <1>1, <2>2 DEF EndUnread
  <2>4. radio' # "off" /\ (radio = "idle" => radio' = "idle")
        /\ (radio # "scanning" => radio' # "scanning")
    BY <2>1 DEF Tells
  <2> QED BY <1>1, <2>2, <2>3, <2>4 DEF EndInv
<1> QED BY <1>3, <1>4 DEF Dongle

\* A later command, or none, disturbs nothing where Central stays in its part.
LEMMA EndWrites ==
    ASSUME TypeInv, EndInv, NEW op \in Later, Written(op) \/ NotWritten \/ UNCHANGED <<cmds, left>>,
           UNCHANGED <<tty, mq, radio, inherited>>,
           central \in Stopping <=> central' \in Stopping,
           central \in Stopped <=> central' \in Stopped,
           central \in Linking => central' \in Linking
    PROVE  EndInv'
<1>1. Asked' \subseteq Asked \cup Later
  BY Opcodes, WriteElems
<1>2. EndUnread' <=> EndUnread
  BY DEF EndUnread, Answers, Sent
<1> QED BY <1>1, <1>2 DEF EndInv

LEMMA EndNext == TypeInv /\ CommandInv /\ EndInv /\ [Next]_vars => EndInv'
<1> SUFFICES ASSUME TypeInv, CommandInv, EndInv, [Next]_vars, ~inherited' PROVE EndInv'
  BY DEF EndInv
<1> USE DEF Stopping, Stopped, Linking, Bonding
<1>1. CASE Dongle
  BY <1>1, EndDongle
<1>2. CASE RouteEvent
  <2>1. (Answers \cup Sent)' \subseteq Answers \cup Sent
    BY <1>2, RouteElems DEF Answers
  <2>2. EndUnread' => EndUnread
    BY <2>1 DEF EndUnread
  <2> QED BY <1>2, <2>2 DEF RouteEvent, ghosts, EndInv, Asked
<1>3. CASE data_ack
  BY <1>3, Opcodes, EndWrites DEF data_ack, ghosts
<1>4. CASE bond \/ data_led
  BY <1>4, Opcodes, EndWrites DEF bond, data_led, Send, ghosts
<1>5. CASE Device_Establish_Link_Req
  BY <1>5, Opcodes, EndWrites DEF Device_Establish_Link_Req, Request, ghosts
<1>6. CASE \/ HCI_Reset \/ HCI_Init \/ PARAM_UPDATE \/ StateInit
           \/ Device_Scan_Req \/ Device_Scan_Cancel_Req
  <2>1. /\ central \notin Stopping /\ central' \notin Stopped
        /\ UNCHANGED <<mq, tty, inherited>>
    BY <1>6 DEF HCI_Reset, HCI_Init, PARAM_UPDATE, StateInit, Device_Scan_Req,
                Device_Scan_Cancel_Req, Send, Request, ghosts
  <2>2. ~EndUnread /\ EndUnread' = EndUnread
    BY <2>1 DEF EndInv, EndUnread, Answers, Sent
  <2> QED BY <2>1, <2>2 DEF EndInv
<1>7. CASE \/ Device_Scan_Rsp \/ Device_Scan_Data \/ Device_Scan_Cancel_Rsp
           \/ Device_Establish_Link_Rsp
  <2>1. Receive
    BY <1>7 DEF Device_Scan_Rsp, Device_Scan_Data, Device_Scan_Cancel_Rsp, Device_Establish_Link_Rsp
  <2>2. buffer \in EventSet /\ Answers = {buffer} \cup Answers'
    BY <2>1, ReadElems
  <2>3. UNCHANGED <<cmds, tty, radio, inherited>> /\ Asked' = Asked /\ Sent' = Sent
    BY <2>1 DEF Receive, ghosts, Asked, Sent
  <2>4. EndUnread' => EndUnread
    BY <2>2, <2>3 DEF EndUnread
  <2>5. CASE Device_Scan_Rsp \/ Device_Scan_Data
    <3>1. central \notin Stopping /\ central' \notin Stopped
      BY <2>5 DEF Device_Scan_Rsp, Device_Scan_Data
    <3> QED BY <2>3, <2>4, <3>1 DEF EndInv
  <2>6. CASE Device_Scan_Cancel_Rsp
    <3>1. /\ central = "SCAN_CANCEL_RSP" /\ central' \in {"SCAN_CANCEL_RSP", "LINK_REQ"}
          /\ central' = "LINK_REQ" => CancelDone(buffer)
      BY <2>6 DEF Device_Scan_Cancel_Rsp
    <3>2. central' = "LINK_REQ" => EndUnread
      BY <2>2, <3>1 DEF EndUnread, Ends
    <3> QED BY <2>3, <2>4, <3>1, <3>2 DEF EndInv
  <2>7. CASE Device_Establish_Link_Rsp
    <3>1. central = "LINK_RSP" /\ central' \in {"LINK_RSP", "BOND"}
      BY <2>7 DEF Device_Establish_Link_Rsp
    <3> QED BY <2>3, <2>4, <3>1 DEF EndInv
  <2> QED BY <1>7, <2>5, <2>6, <2>7
<1>8. CASE Restart
  <2>1. ~EndUnread'
    BY <1>8, RestartElems DEF EndUnread
  <2> QED BY <1>8, <2>1 DEF Restart, EndInv
<1>9. CASE UNCHANGED vars
  BY <1>9 DEF vars, EndInv, EndUnread, Answers, Sent, Asked
<1> QED
  BY <1>1, <1>2, <1>3, <1>4, <1>5, <1>6, <1>7, <1>8, <1>9
     DEF Next, UartCmdRxThread, CentralModeThread

\* The same of the answer awaited.
LEMMA AnswerInit == Init => AnswerInv
<1> SUFFICES ASSUME Init PROVE AnswerInv
  OBVIOUS
<1>1. /\ tty = <<>> /\ mq["COMMANDRESP"] = <<>> /\ central = "RESET"
  BY DEF Init, Queues
<1>2. /\ Answers = {} /\ Sent = {} /\ Behind(tty, Ends) = {}
      /\ Behind(mq["COMMANDRESP"], Ends) = {}
  BY <1>1, NoElems DEF Answers, Sent
<1> QED BY <1>1, <1>2 DEF AnswerInv, EndUnread, Stopped, Bonding

\* What the dongle does keeps what is known of the answer awaited.
LEMMA AnswerDongle ==
    TypeInv /\ CommandInv /\ EndInv /\ AnswerInv /\ Dongle => AnswerInv'
<1> SUFFICES ASSUME TypeInv, EndInv, AnswerInv, Dongle, ~inherited', ~reported'
             PROVE  AnswerInv'
  BY DEF AnswerInv
<1>1. inherited' = inherited
  BY DEF Dongle, DongleCommand, Advertise, ScanEnds, LinkOutcome, LinkTraffic, ghosts
<1>2. central' = central /\ mq' = mq /\ Answers' = Answers
  <2>1. central' = central /\ mq' = mq
    BY DEF Dongle, DongleCommand, Advertise, ScanEnds, LinkOutcome, LinkTraffic, host
  <2> QED BY <2>1 DEF Answers
<1>3. reported' = reported
  BY DEF Dongle, DongleCommand, Advertise, ScanEnds, LinkOutcome, LinkTraffic, ghosts
<1>4. /\ ~inherited /\ ~reported
      /\ EndUnread \/ central \in Stopped => Asked \subseteq Later
      /\ EndUnread \/ central \in Stopped => radio \in {"idle", "connecting"}
      /\ Behind(mq["COMMANDRESP"], Ends) \subseteq Quiet /\ Behind(tty, Ends) \subseteq Noise
      /\ Answers \cap Ends # {} \/ central \in Stopped => Sent \subseteq Noise
      /\ central \in Stopped => Answers \subseteq Quiet
      /\ central \notin Bonding
  BY <1>1, <1>3 DEF EndInv, AnswerInv
<1>5. ASSUME NEW events \in Seq(EventSet), Emit(events), Behind(events, Ends) = {},
             EndUnread \/ central \in Stopped =>
                 Elems(events) \subseteq Noise /\ radio' \in {"idle", "connecting"},
             Elems(events) \cap Ends # {} => radio' = "idle"
      PROVE  AnswerInv'
  <2>1. /\ Sent' = Sent \cup Elems(events)
        /\ Behind(tty', Ends) \subseteq Behind(tty, Ends) \cup Elems(events)
        /\ Sent \cap Ends = {} => Behind(tty', Ends) \subseteq Behind(events, Ends)
    BY <1>5, EmitElems
  <2>2. EndUnread' => EndUnread \/ Elems(events) \cap Ends # {}
    BY <1>2, <2>1 DEF EndUnread
  <2>3. Behind(tty', Ends) \subseteq Noise
    BY <1>4, <1>5, <2>1 DEF EndUnread
  <2>4. Answers \cap Ends # {} => EndUnread
    BY DEF EndUnread
  <2> QED BY <1>2, <1>4, <1>5, <2>1, <2>2, <2>3, <2>4 DEF AnswerInv
<1>6. CASE DongleCommand
  <2> DEFINE op == Head(cmds)  r == Reaction(op)
  <2>1. op \in Nat /\ op \in Asked
    BY <1>6, CommandElems DEF DongleCommand
  <2>2. radio \in Radio
    BY DEF TypeInv, TypeOK, Radio
  <2> HIDE DEF op
  <2>3. r.events \in Seq(EventSet) /\ Emit(r.events) /\ radio' = r.radio
    BY <1>6, <2>1, <2>2, ReactionType DEF DongleCommand, op
  <2>4. /\ Behind(r.events, Ends) = {}
        /\ Elems(r.events) \cap Ends # {} => r.radio = "idle"
        /\ op \in Later => Elems(r.events) \subseteq Noise
    BY <2>1, <2>2, ReactionEvents
  <2>5. ASSUME op \in Later, radio \in {"idle", "connecting"} PROVE r.radio \in {"idle", "connecting"}
    <3>1. /\ op \notin Starting /\ op # VS_GAP_DEVICE_DISCOVERY_CANCEL
          /\ op # VS_GAP_DEVICE_DISCOVERY_REQUEST
      BY <2>5, Opcodes
    <3>2. r.radio = Answered(op)
      BY <2>1, <2>2, <3>1, ReactionCases DEF Starting
    <3> HIDE DEF r
    <3> QED BY <2>5, <3>1, <3>2 DEF Answered
  <2> HIDE DEF r
  <2>6. EndUnread \/ central \in Stopped => op \in Later /\ radio \in {"idle", "connecting"}
    BY <1>4, <2>1
  <2> QED BY <1>5, <2>3, <2>4, <2>5, <2>6
<1>7. CASE Advertise \/ ScanEnds \/ LinkOutcome \/ LinkTraffic
  <2>1. PICK e \in EventSet : Reports(e) /\ ~CancelDone(e) /\ Tells(e)
    BY <1>7, DongleReports
  <2>2. <<e>> \in Seq(EventSet) /\ Elems(<<e>>) = {e} /\ Emit(<<e>>)
    BY <2>1, SingleEvent DEF Reports
  <2>3. e \notin Ends /\ Behind(<<e>>, Ends) = {}
    BY <2>1, <2>2, NothingBehind DEF Ends
  <2>4. radio \in {"idle", "connecting"} => e \in Noise /\ radio' = "idle"
    BY <2>1 DEF Tells
  <2> QED BY <1>4, <1>5, <2>2, <2>3, <2>4
<1> QED BY <1>6, <1>7 DEF Dongle

\* UartCmdRxThread carries what is quiet behind an end, and noise elsewhere.
LEMMA AnswerRouter == TypeInv /\ AnswerInv /\ RouteEvent => AnswerInv'
<1> SUFFICES ASSUME TypeInv, AnswerInv, RouteEvent, ~inherited', ~reported' PROVE AnswerInv'
  BY DEF AnswerInv
<1>1. inherited' = inherited /\ reported' = reported
  BY DEF RouteEvent, ghosts
<1>2. central' = central /\ radio' = radio
  BY DEF RouteEvent
<1>3. /\ EndUnread \/ central \in Stopped => radio \in {"idle", "connecting"}
      /\ Behind(mq["COMMANDRESP"], Ends) \subseteq Quiet /\ Behind(tty, Ends) \subseteq Noise
      /\ Answers \cap Ends # {} \/ central \in Stopped => Sent \subseteq Noise
      /\ central \in Stopped => Answers \subseteq Quiet
      /\ central \notin Bonding
  BY <1>1 DEF AnswerInv
<1> DEFINE e == Head(tty)
<1>4. /\ e \in EventSet /\ Sent = {e} \cup Sent'
      /\ Behind(tty', Ends) \subseteq Behind(tty, Ends)
      /\ e \in Ends => Sent' \subseteq Behind(tty, Ends)
      /\ \/ /\ Route(e) = "COMMANDRESP" /\ Answers' = Answers \cup {e}
            /\ Behind(mq'["COMMANDRESP"], Ends) \subseteq Behind(mq["COMMANDRESP"], Ends) \cup {e}
            /\ Answers \cap Ends = {} => Behind(mq'["COMMANDRESP"], Ends) = {}
         \/ Route(e) # "COMMANDRESP" /\ mq'["COMMANDRESP"] = mq["COMMANDRESP"]
  BY RouteElems
<1> HIDE DEF e
<1>5. Sent' \subseteq Sent /\ Behind(tty', Ends) \subseteq Noise
  BY <1>3, <1>4
<1>6. CASE Route(e) # "COMMANDRESP" /\ mq'["COMMANDRESP"] = mq["COMMANDRESP"]
  <2>1. Answers' = Answers
    BY <1>6 DEF Answers
  <2>2. EndUnread' => EndUnread
    BY <1>5, <2>1 DEF EndUnread
  <2> QED BY <1>2, <1>3, <1>5, <1>6, <2>1, <2>2 DEF AnswerInv
<1>7. CASE /\ Route(e) = "COMMANDRESP" /\ Answers' = Answers \cup {e}
           /\ Behind(mq'["COMMANDRESP"], Ends) \subseteq Behind(mq["COMMANDRESP"], Ends) \cup {e}
           /\ Answers \cap Ends = {} => Behind(mq'["COMMANDRESP"], Ends) = {}
  <2>1. e \in Noise => e \in Quiet
    BY <1>7 DEF Noise
  <2>2. Behind(mq'["COMMANDRESP"], Ends) \subseteq Quiet
    BY <1>3, <1>4, <1>7, <2>1
  <2>3. Answers' \cap Ends # {} \/ central \in Stopped => Sent' \subseteq Noise
    BY <1>3, <1>4, <1>5, <1>7
  <2>4. central \in Stopped => Answers' \subseteq Quiet
    BY <1>3, <1>4, <1>7, <2>1
  <2>5. EndUnread' => EndUnread
    BY <1>4, <1>5, <1>7 DEF EndUnread
  <2> QED BY <1>2, <1>3, <1>5, <2>2, <2>3, <2>4, <2>5 DEF AnswerInv
<1> QED BY <1>4, <1>6, <1>7

LEMMA AnswerNext ==
    TypeInv /\ CommandInv /\ EndInv /\ AnswerInv /\ [Next]_vars => AnswerInv'
<1> SUFFICES ASSUME TypeInv, CommandInv, EndInv, AnswerInv, [Next]_vars, ~inherited', ~reported'
             PROVE  AnswerInv'
  BY DEF AnswerInv
<1>1. CASE Dongle
  BY <1>1, AnswerDongle
<1>2. CASE RouteEvent
  BY <1>2, AnswerRouter
<1>3. ASSUME UNCHANGED <<tty, mq, radio, reported, inherited>>,
             central \in Bonding => central' \in Bonding,
             central' \in Stopped \/ central' \in Bonding => central \in Stopped,
             central' \in Bonding => central \in Bonding
      PROVE  AnswerInv'
  <2>1. Answers' = Answers /\ Sent' = Sent /\ (EndUnread' <=> EndUnread)
    BY <1>3 DEF Answers, Sent, EndUnread
  <2> QED BY <1>3, <2>1 DEF AnswerInv
<1>4. CASE data_ack \/ UNCHANGED vars
  BY <1>3, <1>4 DEF data_ack, ghosts, vars, Stopped
<1>5. CASE bond \/ data_led
  BY <1>3, <1>5 DEF bond, data_led, Send, ghosts, Stopped, Bonding
<1>6. CASE \/ HCI_Reset \/ HCI_Init \/ PARAM_UPDATE \/ StateInit
           \/ Device_Scan_Req \/ Device_Scan_Cancel_Req \/ Device_Establish_Link_Req
  BY <1>3, <1>6 DEF HCI_Reset, HCI_Init, PARAM_UPDATE, StateInit, Device_Scan_Req,
        Device_Scan_Cancel_Req, Device_Establish_Link_Req, Send, Request, ghosts, Stopped, Bonding
<1>7. CASE \/ Device_Scan_Rsp \/ Device_Scan_Data \/ Device_Scan_Cancel_Rsp
           \/ Device_Establish_Link_Rsp
  <2>1. Receive
    BY <1>7 DEF Device_Scan_Rsp, Device_Scan_Data, Device_Scan_Cancel_Rsp, Device_Establish_Link_Rsp
  <2>2. /\ buffer \in EventSet /\ Answers = {buffer} \cup Answers'
        /\ Behind(mq'["COMMANDRESP"], Ends) \subseteq Behind(mq["COMMANDRESP"], Ends)
        /\ buffer \in Ends => Answers' \subseteq Behind(mq["COMMANDRESP"], Ends)
    BY <2>1, ReadElems
  <2>3. UNCHANGED <<tty, radio, inherited, reported>> /\ Sent' = Sent
    BY <2>1 DEF Receive, ghosts, Sent
  <2>4. EndUnread' => EndUnread
    BY <2>2, <2>3 DEF EndUnread
  <2>5. ASSUME central' \in Stopped => central \in Stopped, central' \notin Bonding PROVE AnswerInv'
    BY <2>2, <2>3, <2>4, <2>5 DEF AnswerInv
  <2>6. CASE Device_Scan_Rsp \/ Device_Scan_Data
    BY <2>5, <2>6 DEF Device_Scan_Rsp, Device_Scan_Data, Stopped, Bonding
  <2>7. CASE Device_Scan_Cancel_Rsp
    <3>1. CASE buffer \in Ends
      <4>1. EndUnread /\ Answers \cap Ends # {}
        BY <2>2, <3>1 DEF EndUnread
      <4>2. /\ radio \in {"idle", "connecting"} /\ Sent \subseteq Noise /\ Answers' \subseteq Quiet
            /\ Behind(mq["COMMANDRESP"], Ends) \subseteq Quiet /\ Behind(tty, Ends) \subseteq Noise
        BY <2>2, <2>3, <3>1, <4>1 DEF AnswerInv
      <4>3. central' \notin Bonding
        BY <2>7 DEF Device_Scan_Cancel_Rsp, Bonding
      <4> QED BY <2>2, <2>3, <4>2, <4>3 DEF AnswerInv
    <3>2. CASE buffer \notin Ends
      BY <2>2, <2>5, <2>7, <3>2 DEF Device_Scan_Cancel_Rsp, Ends, Stopped, Bonding
    <3> QED BY <3>1, <3>2
  <2>8. CASE Device_Establish_Link_Rsp
    <3>1. central \in Stopped /\ central' \in Stopped
      BY <2>8 DEF Device_Establish_Link_Rsp, Stopped, Bonding
    <3>2. buffer \in Quiet
      BY <2>2, <2>3, <3>1 DEF AnswerInv
    <3>3. central' = "LINK_RSP"
      BY <2>8, <3>2 DEF Device_Establish_Link_Rsp, Quiet
    <3> QED BY <2>5, <3>1, <3>3 DEF Bonding
  <2> QED BY <1>7, <2>6, <2>7, <2>8
<1>8. CASE Restart
  <2>1. Sent' = {} /\ Answers' \cap Ends = {} /\ mq' = mq /\ central' = "RESET" /\ tty' = <<>>
    BY <1>8, RestartElems DEF Restart
  <2>2. Behind(mq["COMMANDRESP"], Ends) = {} /\ Behind(tty', Ends) = {}
    <3>1. mq["COMMANDRESP"] \in Seq(EventSet)
      BY DEF TypeInv, TypeOK, Queues
    <3>2. Answers' = Elems(mq["COMMANDRESP"])
      BY <2>1 DEF Answers
    <3> QED BY <2>1, <3>1, <3>2, NothingBehind, NoElems
  <2>3. ~EndUnread' /\ central' \notin Stopped /\ central' \notin Bonding
    BY <2>1 DEF EndUnread, Stopped, Bonding
  <2> QED BY <2>1, <2>2, <2>3 DEF AnswerInv
<1> QED
  BY <1>1, <1>2, <1>4, <1>5, <1>6, <1>7, <1>8 DEF Next, UartCmdRxThread, CentralModeThread

\* And of the links.
LEMMA LinkInit == Init => LinkInv
<1> SUFFICES ASSUME Init PROVE LinkInv
  OBVIOUS
<1>1. Answers = {} /\ Sent = {} /\ radio = "off"
  BY NoElems DEF Init, Answers, Sent, Queues
<1> QED BY <1>1 DEF LinkInv

LEMMA LinkNext == TypeInv /\ CommandInv /\ LinkInv /\ [Next]_vars => LinkInv'
<1> SUFFICES ASSUME TypeInv, CommandInv, LinkInv, [Next]_vars, ~linked', central' \notin Linking
             PROVE  LinkInv'
  BY DEF LinkInv
<1> DEFINE Unlinked == {"off", "idle", "scanning"}
<1>1. radio \in Radio
  BY DEF TypeInv, TypeOK, Radio
<1>2. ASSUME linked' = linked, central \notin Linking,
             radio \in Unlinked => radio' \in Unlinked,
             \A e \in Answers' \cup Sent' : e \in Answers \cup Sent \/ ~MtuAsked(e)
      PROVE  LinkInv'
  <2>1. radio \in Unlinked /\ \A e \in Answers \cup Sent : ~MtuAsked(e)
    BY <1>1, <1>2 DEF LinkInv, Radio
  <2> QED BY <1>2, <2>1 DEF LinkInv
<1>3. CASE DongleCommand
  <2> DEFINE op == Head(cmds)  r == Reaction(op)
  <2>1. op \in Nat /\ op \in Asked
    BY <1>3, CommandElems DEF DongleCommand
  <2>2. UNCHANGED <<central, linked>> /\ Answers' = Answers
    BY <1>3 DEF DongleCommand, host, Answers
  <2>3. op # VS_GAP_ESTABLISH_LINK_REQUEST
    BY <2>1, <2>2 DEF CommandInv
  <2> HIDE DEF op
  <2>4. /\ r.events \in Seq(EventSet) /\ Emit(r.events) /\ radio' = r.radio
        /\ \A e \in Elems(r.events) : ~MtuAsked(e)
    BY <1>1, <1>3, <2>1, ReactionType, ReactionEvents, MtuIsTwo DEF DongleCommand, op
  <2>5. radio \in Unlinked => r.radio \in Unlinked
    BY <1>1, <2>1, <2>3, ReactionCases DEF Answered
  <2> HIDE DEF r
  <2>6. Sent' = Sent \cup Elems(r.events)
    BY <2>4, EmitElems
  <2> QED BY <1>2, <2>2, <2>4, <2>5, <2>6
<1>4. CASE Advertise \/ ScanEnds \/ LinkOutcome \/ LinkTraffic
  <2>1. PICK e \in EventSet : Reports(e) /\ (MtuAsked(e) => radio = "connected") /\ Tells(e)
    BY <1>4, DongleReports
  <2>2. <<e>> \in Seq(EventSet) /\ Elems(<<e>>) = {e} /\ Emit(<<e>>)
    BY <2>1, SingleEvent DEF Reports
  <2>3. Sent' = Sent \cup {e}
    BY <2>2, EmitElems
  <2>4. Answers' = Answers /\ UNCHANGED <<central, linked>>
    BY <2>1 DEF Reports, host, Answers
  <2>5. radio \in Unlinked
    BY <1>1, <2>4 DEF LinkInv, Radio
  <2>6. radio' \in Unlinked /\ ~MtuAsked(e)
    BY <2>1, <2>5 DEF Tells
  <2> QED BY <1>2, <2>3, <2>4, <2>6
<1>5. CASE RouteEvent
  <2>1. (Answers \cup Sent)' \subseteq Answers \cup Sent
    BY <1>5, RouteElems DEF Answers
  <2>2. UNCHANGED <<central, linked, radio>>
    BY <1>5 DEF RouteEvent, ghosts
  <2> QED BY <1>2, <2>1, <2>2
<1>6. CASE data_ack \/ UNCHANGED vars
  <2>1. UNCHANGED <<central, linked, radio, tty, mq>>
    BY <1>6 DEF data_ack, ghosts, vars
  <2> QED BY <1>2, <2>1 DEF Answers, Sent
<1>7. CASE CentralModeThread
  <2>1. central \notin Linking /\ linked' = linked /\ radio' = radio /\ Sent' = Sent
    BY <1>7 DEF CentralModeThread, HCI_Reset, HCI_Init, PARAM_UPDATE, StateInit, Device_Scan_Req,
          Device_Scan_Rsp, Device_Scan_Data, Device_Scan_Cancel_Req, Device_Scan_Cancel_Rsp,
          Device_Establish_Link_Req, Device_Establish_Link_Rsp, bond, data_led, Send, Request,
          Receive, ghosts, Sent, Linking, Bonding
  <2>2. Answers' \subseteq Answers
    <3>1. mq' = mq \/ Receive
      BY <1>7 DEF CentralModeThread, HCI_Reset, HCI_Init, PARAM_UPDATE, StateInit, Device_Scan_Req,
            Device_Scan_Rsp, Device_Scan_Data, Device_Scan_Cancel_Req, Device_Scan_Cancel_Rsp,
            Device_Establish_Link_Req, Device_Establish_Link_Rsp, bond, data_led, Send, Request
    <3> QED BY <3>1, ReadElems DEF Answers
  <2> QED BY <1>2, <2>1, <2>2
<1>8. CASE Restart
  <2>1. Sent' = {} /\ Answers' = Answers /\ radio' = radio
    BY <1>8, RestartElems DEF Restart
  <2>2. /\ radio \notin {"connecting", "connected"}
        /\ \A i \in 1..Len(mq["COMMANDRESP"]) : ~MtuAsked(mq["COMMANDRESP"][i])
    BY <1>8, Zenon DEF Restart
  <2>3. \A e \in Answers : ~MtuAsked(e)
    BY <2>2 DEF Answers, Elems
  <2> QED BY <2>1, <2>2, <2>3 DEF LinkInv
<1> QED BY <1>3, <1>4, <1>5, <1>6, <1>7, <1>8 DEF Next, Dongle, UartCmdRxThread

\* The same of the peer that matched.
LEMMA MatchInit == Init => MatchInv
<1> SUFFICES ASSUME Init PROVE MatchInv
  OBVIOUS
<1>1. Answers = {} /\ Sent = {} /\ central = "RESET"
  BY NoElems DEF Init, Answers, Sent, Queues
<1> QED BY <1>1 DEF MatchInv

LEMMA MatchNext == TypeInv /\ LinkInv /\ MatchInv /\ [Next]_vars => MatchInv'
<1> SUFFICES ASSUME TypeInv, LinkInv, MatchInv, [Next]_vars PROVE MatchInv'
  OBVIOUS
<1> DEFINE Tell(e) == ScanDataResult(e) = 2 => Matches(e) \/ 2 \in left.bytes \/ MtuAsked(e)
           At == {"SCAN_CANCEL", "SCAN_CANCEL_RSP", "LINK_REQ"}
<1>1. left \in Bound /\ scanned_mac \in BOOLEAN
  BY DEF TypeInv, TypeOK
<1>2. ASSUME left'.bytes = left.bytes, \A e \in Answers' \cup Sent' : Tell(e),
             central' \in At => central \in At /\ scanned_mac' = scanned_mac /\ linked' = linked
      PROVE  MatchInv'
  BY <1>2 DEF MatchInv
<1>3. CASE DongleCommand
  <2> DEFINE op == Head(cmds)  r == Reaction(op)
  <2>1. op \in Nat /\ radio \in Radio
    BY <1>3, CommandElems DEF DongleCommand, TypeInv, TypeOK, Radio
  <2> HIDE DEF op
  <2>2. r.events \in Seq(EventSet) /\ Emit(r.events) /\ \A e \in Elems(r.events) : ScanDataResult(e) # 2
    BY <1>3, <2>1, ReactionType, ReactionEvents DEF DongleCommand, op
  <2> HIDE DEF r
  <2>3. Sent' = Sent \cup Elems(r.events)
    BY <2>2, EmitElems
  <2>4. Answers' = Answers /\ UNCHANGED <<left, central, scanned_mac, linked>>
    BY <1>3 DEF DongleCommand, host, Answers
  <2> QED BY <1>2, <2>2, <2>3, <2>4 DEF MatchInv
<1>4. CASE Advertise \/ ScanEnds \/ LinkOutcome \/ LinkTraffic
  <2>1. PICK e \in EventSet : Reports(e) /\ left'.bytes = left.bytes /\ Tell(e)
    BY <1>4, DongleReports
  <2>2. <<e>> \in Seq(EventSet) /\ Elems(<<e>>) = {e} /\ Emit(<<e>>)
    BY <2>1, SingleEvent DEF Reports
  <2>3. Sent' = Sent \cup {e}
    BY <2>2, EmitElems
  <2>4. Answers' = Answers /\ UNCHANGED <<central, scanned_mac, linked>>
    BY <2>1 DEF Reports, host, Answers
  <2> QED BY <1>2, <2>1, <2>3, <2>4 DEF MatchInv
<1>5. CASE RouteEvent
  <2>1. (Answers \cup Sent)' \subseteq Answers \cup Sent
    BY <1>5, RouteElems DEF Answers
  <2> QED BY <1>2, <1>5, <2>1 DEF RouteEvent, ghosts, MatchInv
<1>6. ASSUME NEW op \in Nat, Written(op) \/ NotWritten \/ UNCHANGED <<cmds, left>>,
             UNCHANGED <<tty, mq, scanned_mac, linked>>, central' \in At => central \in At
      PROVE  MatchInv'
  <2>1. left'.bytes = left.bytes
    BY <1>1, <1>6, WriteType
  <2>2. Answers' = Answers /\ Sent' = Sent
    BY <1>6 DEF Answers, Sent
  <2> QED BY <1>2, <1>6, <2>1, <2>2 DEF MatchInv
<1>7. CASE data_ack
  BY <1>6, <1>7, Opcodes DEF data_ack, ghosts
<1>8. CASE HCI_Reset \/ HCI_Init \/ PARAM_UPDATE \/ bond \/ data_led
  BY <1>6, <1>8, Opcodes DEF HCI_Reset, HCI_Init, PARAM_UPDATE, bond, data_led, Send, ghosts
<1>9. CASE Device_Scan_Req \/ Device_Scan_Cancel_Req \/ Device_Establish_Link_Req
  BY <1>6, <1>9, Opcodes DEF Device_Scan_Req, Device_Scan_Cancel_Req, Device_Establish_Link_Req,
                             Request, ghosts
<1>10. CASE StateInit
  BY <1>2, <1>10 DEF StateInit, ghosts, MatchInv, Answers, Sent
<1>11. CASE \/ Device_Scan_Rsp \/ Device_Scan_Data \/ Device_Scan_Cancel_Rsp
            \/ Device_Establish_Link_Rsp
  <2>1. Receive
    BY <1>11 DEF Device_Scan_Rsp, Device_Scan_Data, Device_Scan_Cancel_Rsp, Device_Establish_Link_Rsp
  <2>2. Answers = {buffer} \cup Answers'
    BY <2>1, ReadElems
  <2>3. left' = left /\ Sent' = Sent /\ linked' = linked
    BY <2>1 DEF Receive, Sent, ghosts
  <2>4. CASE Device_Scan_Data
    <3>1. scanned_mac' = (scanned_mac \/ Matches(buffer))
      BY <2>4, Zenon DEF Device_Scan_Data
    <3>2. central' \in At => ScanDataResult(buffer) = 2
      BY <2>4 DEF Device_Scan_Data
    <3>3. Tell(buffer)
      BY <2>2 DEF MatchInv
    <3>4. MtuAsked(buffer) => linked
      <4>1. central \notin Linking /\ buffer \in Answers
        BY <2>2, <2>4 DEF Device_Scan_Data, Linking, Bonding
      <4> QED BY <4>1 DEF LinkInv
    <3>5. central' \in At => scanned_mac' \/ 2 \in left.bytes \/ linked
      BY <3>1, <3>2, <3>3, <3>4
    <3> QED BY <2>2, <2>3, <3>5 DEF MatchInv
  <2>5. CASE Device_Scan_Rsp \/ Device_Scan_Cancel_Rsp \/ Device_Establish_Link_Rsp
    <3>1. central' \in At => central \in At /\ scanned_mac' = scanned_mac
      BY <2>5 DEF Device_Scan_Rsp, Device_Scan_Cancel_Rsp, Device_Establish_Link_Rsp
    <3> QED BY <1>2, <2>2, <2>3, <3>1 DEF MatchInv
  <2> QED BY <1>11, <2>4, <2>5
<1>12. CASE Restart
  <2>1. Sent' = {} /\ Answers' = Answers /\ central' = "RESET" /\ left'.bytes = left.bytes
    BY <1>1, <1>12, RestartElems, UseType DEF Restart
  <2> QED BY <1>2, <2>1 DEF MatchInv
<1>13. CASE UNCHANGED vars
  BY <1>2, <1>13 DEF vars, MatchInv, Answers, Sent
<1> QED
  BY <1>3, <1>4, <1>5, <1>7, <1>8, <1>9, <1>10, <1>11, <1>12, <1>13
     DEF Next, Dongle, UartCmdRxThread, CentralModeThread

-----------------------------------------------------------------------------
(* Theorems *)

\* What holds of every state: the types, and what is under way.
SessionInv == TypeInv /\ CommandInv /\ EndInv /\ AnswerInv /\ LinkInv /\ MatchInv

\* All of it together holds on every behaviour.
LEMMA SessionInvariant == Spec => []SessionInv
<1>1. Init => SessionInv
  BY TypeInit, CommandInit, EndInit, AnswerInit, LinkInit, MatchInit DEF SessionInv
<1>2. SessionInv /\ [Next]_vars => SessionInv'
  BY TypeNext, CommandNext, EndNext, AnswerNext, LinkNext, MatchNext DEF SessionInv
<1> QED BY <1>1, <1>2, PTL DEF Spec

\* Device_Establish_Link_Req() is made only when the radio has stopped scanning,
\* whatever is lost, refused or late, in a run that inherits no old end of a scan.
THEOREM NeverLinksWhileScanning == Spec => []NoScanWhileLinking
<1>1. SessionInv => NoScanWhileLinking
  BY DEF SessionInv, EndInv, NoScanWhileLinking, Stopped
<1> QED BY <1>1, SessionInvariant, PTL

\* bond() is reached only after the dongle has reported on a link: no answer that
\* Central reads before that is taken for one.
THEOREM BondsOnlyOnReport == Spec => []BondsOnReport
<1>1. SessionInv => BondsOnReport
  BY DEF SessionInv, AnswerInv, BondsOnReport
<1> QED BY <1>1, SessionInvariant, PTL

\* The address in Scanned_MAC_Buff is that of a device that advertised the
\* service, when Device_Establish_Link_Req() asks for a link to it, in a run that
\* began without a link or an MTU request of one, whatever queues and radio the
\* runs before have left.
THEOREM TargetMatched == Spec => LinkTargetMatched
<1>1. SessionInv /\ central = "LINK_REQ" => scanned_mac \/ 2 \in left.bytes \/ linked
  BY DEF SessionInv, MatchInv
<1>2. SessionInv =>
          [central = "LINK_REQ" /\ central' = "LINK_RSP"
           => scanned_mac \/ 2 \in left.bytes \/ linked]_vars
  BY <1>1
<1> QED BY <1>2, SessionInvariant, PTL DEF LinkTargetMatched
=============================================================================
