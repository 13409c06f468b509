--------------------------- MODULE BleSessionProofs ----------------------------
(***************************************************************************)
(* The scanner process implements the session of GapSession, and Central   *)
(* waits in vain only in the ways WaitsForAnAnswer names: for every        *)
(* capacity of the queues and of the line and every bound.                 *)
(***************************************************************************)
EXTENDS BleScannerProofs

-----------------------------------------------------------------------------
(* The session *)

Boots    == {"RESET", "DEVICE_INIT", "PARAM_UPDATE"}
Searches == {"INIT", "SCAN_REQ", "SCAN_RSP", "SCAN_DATA", "SCAN_CANCEL"}
Stops    == {"SCAN_CANCEL_RSP", "LINK_REQ"}

\* The phase of a state of Central.
LEMMA PhaseOf ==
    /\ central \in Boots => phase = "boot"
    /\ central \in Searches => phase = "search"
    /\ central \in Stops => phase = "stop"
    /\ central = "LINK_RSP" => phase = "link"
    /\ central \in Bonding => phase = "bond"
BY DEF phase, Boots, Searches, Stops, Bonding

\* The phase of the session is where Central is.
LEMMA PhaseNext ==
    /\ central' \in Boots => phase' = "boot"
    /\ central' \in Searches => phase' = "search"
    /\ central' \in Stops => phase' = "stop"
    /\ central' = "LINK_RSP" => phase' = "link"
    /\ central' \in Bonding => phase' = "bond"
BY DEF phase, Boots, Searches, Stops, Bonding

LEMMA SamePhase == central' = central => phase' = phase
BY DEF phase

\* The refinement: initial states, and steps.
LEMMA SessionInit == Init => Session!Init
BY DEF Init, Session!Init, phase

\* A command may move the radio; it starts to scan, or to connect, only for a
\* request that Central has made and not gone beyond.
LEMMA CommandRefines ==
    ASSUME SessionInv, DongleCommand
    PROVE  Session!RadioStep \/ UNCHANGED Session!vars
<1> DEFINE op == Head(cmds)  r == Reaction(op)
<1>1. radio \in Radio /\ inherited \in BOOLEAN /\ central \in CentralStates
  BY DEF SessionInv, TypeInv, TypeOK, Radio
<1>2. /\ op \in Nat /\ op \in Asked
      /\ UNCHANGED <<central, reported, inherited>> /\ radio' = r.radio
  BY CommandElems DEF DongleCommand, host, SessionInv
<1> HIDE DEF op
<1>3. r.radio \in Radio /\ r.radio \in {"off", "idle", Answered(op)}
  BY <1>1, <1>2, ReactionType, ReactionCases
<1> HIDE DEF r
<1>4. phase' = phase
  BY <1>2, SamePhase
<1>5. ASSUME radio' = "scanning", radio # "scanning"
      PROVE  phase \in {"search", "stop"} \/ inherited
  <2>1. op = VS_GAP_DEVICE_DISCOVERY_REQUEST
    BY <1>2, <1>3, <1>5 DEF Answered
  <2>2. central \notin Boots
    BY <1>2, <2>1 DEF SessionInv, CommandInv, Boots
  <2>3. central \in Stopped => inherited
    BY <1>2, <2>1, Opcodes DEF SessionInv, EndInv
  <2>4. central \in Boots \cup Searches \cup Stops \cup Stopped
    BY <1>1 DEF CentralStates, Boot, Boots, Searches, Stops, Stopped
  <2> QED BY <2>2, <2>3, <2>4, PhaseOf
<1>6. ASSUME radio' \in {"connecting", "connected"}, radio' # radio
      PROVE  phase \in {"link", "bond"}
  <2>1. op = VS_GAP_ESTABLISH_LINK_REQUEST
    BY <1>2, <1>3, <1>6 DEF Answered
  <2>2. central \in Linking
    BY <1>2, <2>1 DEF SessionInv, CommandInv
  <2> QED BY <2>2, PhaseOf DEF Linking
<1>7. CASE radio' = radio
  BY <1>2, <1>4, <1>7 DEF Session!vars
<1>8. CASE radio' # radio
  <2>1. radio' \in Session!Radio
    BY <1>2, <1>3 DEF Radio, Session!Radio
  <2> QED BY <1>2, <1>4, <1>5, <1>6, <1>8, <2>1 DEF Session!RadioStep
<1> QED BY <1>7, <1>8

\* What the dongle does of itself: the session's report, or the radio falls idle.
LEMMA ReportRefines ==
    ASSUME Advertise \/ ScanEnds \/ LinkOutcome \/ LinkTraffic
    PROVE  Session!RadioStep \/ Session!Report \/ UNCHANGED Session!vars
<1>1. UNCHANGED <<central, inherited>> /\ phase' = phase
  BY SamePhase DEF Advertise, ScanEnds, LinkOutcome, LinkTraffic, host, ghosts
<1>2. CASE Advertise
  BY <1>1, <1>2 DEF Advertise, ghosts, Session!vars
<1>3. CASE ScanEnds
  BY <1>1, <1>3 DEF ScanEnds, ghosts, Session!RadioStep, Session!Radio
<1>4. CASE LinkOutcome
  <2>1. radio = "connecting"
    BY <1>4 DEF LinkOutcome
  <2>2. CASE radio' = "idle" /\ UNCHANGED reported
    BY <1>1, <2>2 DEF Session!RadioStep, Session!Radio
  <2>3. CASE radio' \in {"idle", "connected"} /\ reported' = TRUE
    BY <1>1, <2>1, <2>3, Zenon DEF Session!Report
  <2>4. \/ radio' = "connected" /\ reported' = TRUE
        \/ radio' = "idle" /\ reported' = TRUE
        \/ radio' = "idle" /\ UNCHANGED reported
    BY <1>4, Zenon DEF LinkOutcome
  <2> QED BY <2>2, <2>3, <2>4, Zenon
<1>5. CASE LinkTraffic
  <2>1. radio' \in {radio, "idle"} /\ reported' = reported
    BY <1>5 DEF LinkTraffic, ghosts
  <2> QED BY <1>1, <2>1 DEF Session!RadioStep, Session!Radio, Session!vars
<1> QED BY <1>2, <1>3, <1>4, <1>5

\* Central searches, stops, links and bonds in that order, and moves on to the
\* link and to the bond only when the session does.
LEMMA CentralRefines ==
    ASSUME SessionInv, CentralModeThread
    PROVE  [Session!Next]_(Session!vars)
<1>1. UNCHANGED <<radio, reported, inherited>>
  BY DEF CentralModeThread, HCI_Reset, HCI_Init, PARAM_UPDATE, StateInit, Device_Scan_Req,
         Device_Scan_Rsp, Device_Scan_Data, Device_Scan_Cancel_Req, Device_Scan_Cancel_Rsp,
         Device_Establish_Link_Req, Device_Establish_Link_Rsp, bond, data_led, Send, Request,
         Receive, ghosts
<1>2. ASSUME phase' = phase PROVE UNCHANGED Session!vars
  BY <1>1, <1>2 DEF Session!vars
<1>3. CASE HCI_Reset \/ HCI_Init
  <2>1. central \in Boots /\ central' \in Boots
    BY <1>3 DEF HCI_Reset, HCI_Init, Send, Boots
  <2> QED BY <1>2, <2>1, PhaseOf, PhaseNext
<1>4. CASE PARAM_UPDATE
  <2>1. central \in Boots /\ central' \in Searches
    BY <1>4 DEF PARAM_UPDATE, Send, Boots, Searches
  <2> QED BY <1>1, <2>1, PhaseOf, PhaseNext DEF Session!Next, Session!Search
<1>5. CASE StateInit \/ Device_Scan_Req \/ Device_Scan_Rsp \/ Device_Scan_Data
  <2>1. central \in Searches /\ central' \in Searches
    BY <1>5 DEF StateInit, Device_Scan_Req, Device_Scan_Rsp, Device_Scan_Data, Request, Searches
  <2> QED BY <1>2, <2>1, PhaseOf, PhaseNext
<1>6. CASE Device_Scan_Cancel_Req
  <2>1. central \in Searches /\ central' \in Searches \cup Stops
    BY <1>6 DEF Device_Scan_Cancel_Req, Request, Searches, Stops
  <2> QED BY <1>1, <1>2, <2>1, PhaseOf, PhaseNext DEF Session!Next, Session!Stop
<1>7. CASE Device_Scan_Cancel_Rsp
  <2>1. central \in Stops /\ central' \in Stops
    BY <1>7 DEF Device_Scan_Cancel_Rsp, Stops
  <2> QED BY <1>2, <2>1, PhaseOf, PhaseNext
<1>8. CASE Device_Establish_Link_Req
  <2>1. central = "LINK_REQ" /\ central' \in {"LINK_REQ", "LINK_RSP"}
    BY <1>8 DEF Device_Establish_Link_Req, Request
  <2>2. radio # "scanning" \/ inherited
    BY <2>1 DEF SessionInv, EndInv, Stopped
  <2>3. CASE central' = "LINK_REQ"
    BY <1>2, <2>1, <2>3, SamePhase
  <2>4. CASE central' = "LINK_RSP"
    <3>1. phase = "stop" /\ phase' = "link"
      BY <2>1, <2>4, PhaseOf, PhaseNext DEF Stops
    <3>2. Session!Link
      BY <1>1, <2>2, <3>1, Zenon DEF Session!Link
    <3> QED BY <3>2 DEF Session!Next
  <2> QED BY <2>1, <2>3, <2>4
<1>9. CASE Device_Establish_Link_Rsp
  <2>1. central = "LINK_RSP" /\ central' \in {"LINK_RSP", "BOND"}
    BY <1>9 DEF Device_Establish_Link_Rsp
  <2>2. CASE central' = "LINK_RSP"
    BY <1>2, <2>1, <2>2, SamePhase
  <2>3. CASE central' = "BOND"
    <3>1. phase = "link" /\ phase' = "bond"
      BY <2>1, <2>3, PhaseOf, PhaseNext DEF Bonding
    <3>2. SessionInv'
      BY TypeNext, CommandNext, EndNext, AnswerNext, LinkNext, MatchNext DEF SessionInv, Next
    <3>3. reported' \/ inherited'
      BY <2>3, <3>2 DEF SessionInv, AnswerInv, Bonding
    <3>4. reported \/ inherited
      BY <1>1, <3>3, Zenon
    <3>5. Session!Bond
      BY <1>1, <3>1, <3>4, Zenon DEF Session!Bond
    <3> QED BY <3>5 DEF Session!Next
  <2> QED BY <2>1, <2>2, <2>3
<1>10. CASE bond \/ data_led
  <2>1. central \in Bonding /\ central' \in Bonding
    BY <1>10 DEF bond, data_led, Send, Bonding
  <2> QED BY <1>2, <2>1, PhaseOf, PhaseNext
<1> QED BY <1>3, <1>4, <1>5, <1>6, <1>7, <1>8, <1>9, <1>10 DEF CentralModeThread

LEMMA SessionStep == SessionInv /\ [Next]_vars => [Session!Next]_(Session!vars)
<1> SUFFICES ASSUME SessionInv, [Next]_vars PROVE [Session!Next]_(Session!vars)
  OBVIOUS
<1>1. CASE DongleCommand
  BY <1>1, CommandRefines DEF Session!Next
<1>2. CASE Advertise \/ ScanEnds \/ LinkOutcome \/ LinkTraffic
  BY <1>2, ReportRefines DEF Session!Next
<1>3. CASE UartCmdRxThread \/ UNCHANGED vars
  <2>1. UNCHANGED <<central, radio, reported, inherited>>
    BY <1>3 DEF UartCmdRxThread, RouteEvent, data_ack, ghosts, vars
  <2> QED BY <2>1, SamePhase DEF Session!vars
<1>4. CASE CentralModeThread
  BY <1>4, CentralRefines
<1>5. CASE Restart
  <2>1. phase' = "boot" /\ reported' = FALSE /\ radio' = radio
    BY <1>5, PhaseNext DEF Restart, Boots
  <2>2. inherited' \in BOOLEAN
    BY <1>5, Zenon DEF Restart
  <2> QED BY <2>1, <2>2 DEF Session!Next, Session!Restart
<1> QED BY <1>1, <1>2, <1>3, <1>4, <1>5 DEF Next, Dongle

\* CentralModeThread with the dongle, the queues and the line between them is an
\* implementation of the session: it asks for a link only when the radio has
\* stopped scanning, and pairs only when the dongle has reported on that link.
THEOREM ImplementsSession == Spec => FollowsSession
<1>1. Init => Session!Init
  BY SessionInit
<1>2. SessionInv /\ [Next]_vars => [Session!Next]_(Session!vars)
  BY SessionStep
<1> QED BY <1>1, <1>2, SessionInvariant, PTL DEF Spec, FollowsSession, Session!Spec

-----------------------------------------------------------------------------
(* What Central waits for *)

\* What is under way stays under way while nothing is read, and through the router.
LEMMA ComingStays ==
    ASSUME NEW C, Answers \subseteq Answers', Sent \subseteq Sent', Coming(C)
    PROVE  Coming(C)'
BY DEF Coming

\* An event that is coming is still coming when the router has moved it on.
LEMMA ComingRouted ==
    ASSUME TypeInv, RouteEvent, NEW C, Coming(C)
    PROVE  Coming(C)'
<1> DEFINE e == Head(tty)
<1>1. /\ Sent = {e} \cup Sent'
      /\ \/ Route(e) = "COMMANDRESP" /\ Answers' = Answers \cup {e}
         \/ Route(e) # "COMMANDRESP" /\ Answers' = Answers
  BY RouteElems DEF Answers
<1> HIDE DEF e
<1> QED BY <1>1 DEF Coming

\* Reading something else leaves it under way.
LEMMA ComingRead ==
    ASSUME TypeInv, Receive, NEW C, Coming(C), buffer \notin C
    PROVE  Coming(C)'
<1>1. Answers = {buffer} \cup Answers' /\ Sent' = Sent
  BY ReadElems DEF Receive, Sent
<1> QED BY <1>1 DEF Coming

\* An event for Central that the dongle emits is under way.
LEMMA ComingEmitted ==
    ASSUME TypeInv, NEW events \in Seq(EventSet), Emit(events), NEW e \in Elems(events),
           Route(e) = "COMMANDRESP", NEW C, e \in C
    PROVE  Coming(C)'
<1>1. e \in Sent'
  BY EmitElems
<1> QED BY <1>1 DEF Coming

\* The requests of Central are answered to Central.
LEMMA RequestAnswered ==
    ASSUME NEW op \in {VS_GAP_DEVICE_DISCOVERY_REQUEST, VS_GAP_DEVICE_DISCOVERY_CANCEL},
           radio \in Radio, NEW r, r = Reaction(op)
    PROVE  /\ \E e \in Elems(r.events) : e \in EventSet /\ Route(e) = "COMMANDRESP"
           /\ op = VS_GAP_DEVICE_DISCOVERY_CANCEL /\ radio = "scanning" =>
                  \E e \in Elems(r.events) : e \in Ends /\ Route(e) = "COMMANDRESP"
<1>1. op \in Nat /\ op \notin Starting
  BY Opcodes
<1>2. ASSUME NEW status \in Nat
      PROVE  /\ CommandStatus(op, status) \in EventSet
             /\ Route(CommandStatus(op, status)) = "COMMANDRESP"
  <2>1. op \notin {\hFC06, \hFC21} /\ StatusQueue(op) = "COMMANDRESP"
    BY DEF StatusQueue, PrintedStatus, VS_GAP_DEVICE_DISCOVERY_REQUEST, VS_GAP_DEVICE_DISCOVERY_CANCEL
  <2> QED BY <1>1, <2>1, StatusFacts
<1>3. CASE /\ op = VS_GAP_DEVICE_DISCOVERY_CANCEL /\ radio = "scanning"
           /\ r.events = <<CommandStatus(op, 0), ScanDone(ScanCancelled)>>
  <2> DEFINE s == CommandStatus(op, 0)  d == ScanDone(ScanCancelled)
  <2>1. s \in EventSet /\ Route(s) = "COMMANDRESP"
    BY <1>2
  <2>2. /\ d \in EventSet /\ d.code = VS_GAP_DEVICE_DISCOVERY /\ d.status = ScanCancelled
        /\ d.arg = 0 /\ d.evt = VENDOR
    BY EventType DEF ScanDone, VS_GAP_DEVICE_DISCOVERY, ScanCancelled
  <2>3. r.events = <<s, d>>
    BY <1>3
  <2> HIDE DEF s, d
  <2>4. Elems(r.events) = {s, d}
    BY <2>1, <2>2, <2>3, TwoEvents
  <2>5. d \in Ends /\ Route(d) = "COMMANDRESP"
    BY <2>2, RoutedToCentral DEF Ends, CancelDone, ToCommandResp
  <2> QED BY <2>1, <2>2, <2>4, <2>5
<1>4. CASE /\ ~(op = VS_GAP_DEVICE_DISCOVERY_CANCEL /\ radio = "scanning")
           /\ \E status \in {0, Refused} : r.events = <<CommandStatus(op, status)>>
  <2>1. PICK status \in {0, Refused} : r.events = <<CommandStatus(op, status)>>
    BY <1>4
  <2> DEFINE s == CommandStatus(op, status)
  <2>2. s \in EventSet /\ Route(s) = "COMMANDRESP" /\ r.events = <<s>>
    BY <1>2, <2>1 DEF Refused
  <2> HIDE DEF s
  <2>3. Elems(r.events) = {s}
    BY <2>2, SingleEvent
  <2> QED BY <1>4, <2>2, <2>3
<1> QED BY <1>1, <1>3, <1>4, ReactionCases DEF Starting

\* What Central waits for is on its way: initially, and in every step.
LEMMA WaitInit == Init => WaitInv
BY DEF Init, WaitInv

\* The dongle takes a command: it answers a request, or it is doing what was asked.
LEMMA WaitCommand ==
    ASSUME TypeInv, CommandInv, EndInv, WaitInv, DongleCommand
    PROVE  WaitInv'
<1> DEFINE op == Head(cmds)  r == Reaction(op)
           request == VS_GAP_DEVICE_DISCOVERY_REQUEST  cancel == VS_GAP_DEVICE_DISCOVERY_CANCEL
<1>1. radio \in Radio
  BY DEF TypeInv, TypeOK, Radio
<1>2. /\ op \in Nat /\ Asked = {op} \cup Asked' /\ UNCHANGED <<central, inherited>>
      /\ op = request => Asked' \subseteq Behind(cmds, {request})
      /\ radio' = r.radio /\ Emit(r.events) /\ Answers' = Answers
  BY CommandElems DEF DongleCommand, host, Answers
<1>3. raced' = (raced \/ (op = cancel /\ radio # "scanning"))
  BY Zenon DEF DongleCommand
<1>4. unready' = (unready \/ (op = request /\ radio \notin {"idle", "scanning"}))
  BY Zenon DEF DongleCommand
<1> HIDE DEF op
<1>5. r.events \in Seq(EventSet) /\ r.radio \in Radio
  BY <1>1, <1>2, ReactionType
<1>6. \/ op \in Starting
      \/ op = cancel /\ radio = "scanning"
      \/ op \notin Starting /\ radio' = Answered(op)
  BY <1>1, <1>2, ReactionCases DEF Starting
<1>7. op \in {request, cancel} =>
          /\ \E e \in Elems(r.events) : e \in EventSet /\ Route(e) = "COMMANDRESP"
          /\ op = cancel /\ radio = "scanning" =>
                 \E e \in Elems(r.events) : e \in Ends /\ Route(e) = "COMMANDRESP"
  BY <1>1, RequestAnswered
<1> HIDE DEF r
<1>8. ASSUME NEW C, Coming(C) PROVE Coming(C)'
  <2>1. Sent \subseteq Sent'
    BY <1>2, <1>5, EmitElems
  <2> QED BY <1>2, <1>8, <2>1, ComingStays
<1>9. request # cancel /\ request \notin Starting /\ cancel \notin Starting
  BY Opcodes
<1> HIDE DEF request, cancel
<1>10. ASSUME central = "SCAN_RSP" PROVE request \in Asked' \/ Coming(EventSet)'
  <2>1. request \in Asked \/ Coming(EventSet)
    BY <1>10 DEF WaitInv, request
  <2>2. CASE op = request
    BY <1>2, <1>5, <1>7, <2>2, ComingEmitted
  <2> QED BY <1>2, <1>8, <2>1, <2>2
<1>11. ASSUME central \in {"SCAN_RSP", "SCAN_DATA"}
       PROVE  /\ request \in Asked' \/ Coming(ScanEnd)' \/ radio' = "scanning" \/ unready'
              /\ Asked' \cap Starting # {} => request \in Asked'
  <2>1. /\ request \in Asked \/ Coming(ScanEnd) \/ radio = "scanning" \/ unready
        /\ Asked \cap Starting # {} => request \in Asked
    BY <1>11, Zenon DEF WaitInv, request
  <2>2. cancel \notin Asked /\ Behind(cmds, {request}) \cap Starting = {}
    BY <1>11 DEF CommandInv, Stopping, Bonding, request, cancel
  <2>3. Asked' \cap Starting # {} => request \in Asked'
    BY <1>2, <2>1, <2>2
  <2>4. CASE op = request
    <3>1. radio \in {"idle", "scanning"} => radio' = "scanning"
      BY <1>6, <1>9, <2>4 DEF Answered, request
    <3>2. radio \notin {"idle", "scanning"} => unready'
      BY <1>4, <2>4, Zenon
    <3> QED BY <2>3, <3>1, <3>2
  <2>5. CASE op # request
    <3>1. request \in Asked => request \in Asked'
      BY <1>2, <2>5
    <3>2. op \in Starting => request \in Asked'
      BY <1>2, <2>1, <3>1
    <3>3. radio = "scanning" /\ op \notin Starting => radio' = "scanning"
      BY <1>2, <1>6, <2>2, <2>5 DEF Answered, request
    <3>4. unready => unready'
      BY <1>4, Zenon
    <3>5. Coming(ScanEnd) => Coming(ScanEnd)'
      BY <1>8
    <3> QED BY <2>1, <2>3, <3>1, <3>2, <3>3, <3>4, <3>5, Zenon
  <2> QED BY <2>4, <2>5
<1>12. ASSUME central = "SCAN_CANCEL_RSP" PROVE cancel \in Asked' \/ Coming(Ends)' \/ raced'
  <2>1. cancel \in Asked \/ Coming(Ends) \/ raced
    BY <1>12, Zenon DEF WaitInv, cancel
  <2>2. CASE op = cancel /\ radio = "scanning"
    BY <1>2, <1>5, <1>7, <2>2, ComingEmitted
  <2>3. CASE op = cancel /\ radio # "scanning"
    BY <1>3, <2>3, Zenon
  <2>4. CASE op # cancel
    <3>1. cancel \in Asked => cancel \in Asked'
      BY <1>2, <2>4
    <3>2. Coming(Ends) => Coming(Ends)'
      BY <1>8
    <3> QED BY <1>3, <2>1, <3>1, <3>2, Zenon
  <2> QED BY <2>2, <2>3, <2>4
<1>13. ASSUME central = "LINK_RSP", ~inherited
       PROVE  radio' \in {"idle", "connecting"} \/ Coming(LinkUp)'
  <2>1. radio \in {"idle", "connecting"} \/ Coming(LinkUp)
    BY <1>13, Zenon DEF WaitInv
  <2>2. Asked \subseteq Later
    BY <1>13, Zenon DEF EndInv, Stopped
  <2>3. op \notin Starting /\ op # cancel /\ op # request
    BY <1>2, <2>2, Opcodes DEF request, cancel
  <2>4. radio \in {"idle", "connecting"} => radio' \in {"idle", "connecting"}
    BY <1>6, <2>3 DEF Answered, request
  <2> QED BY <1>8, <2>1, <2>4
<1>14. central' = central /\ inherited' = inherited
  BY <1>2
<1> QED BY <1>10, <1>11, <1>12, <1>13, <1>14, Zenon DEF WaitInv, request, cancel

\* What the dongle tells unasked takes the place of what it was doing.
LEMMA WaitReports ==
    ASSUME TypeInv, WaitInv, Advertise \/ ScanEnds \/ LinkOutcome \/ LinkTraffic
    PROVE  WaitInv'
<1>1. PICK e \in EventSet : Reports(e) /\ Tells(e)
  BY DongleReports
<1>2. /\ <<e>> \in Seq(EventSet) /\ Emit(<<e>>) /\ e \in Elems(<<e>>)
      /\ UNCHANGED <<central, cmds, raced, unready, inherited>> /\ Asked' = Asked /\ Answers' = Answers
  BY <1>1, SingleEvent DEF Reports, host, Asked, Answers
<1>3. Sent \subseteq Sent'
  BY <1>2, EmitElems
<1>4. /\ Coming(EventSet) => Coming(EventSet)'
      /\ Coming(ScanEnd) => Coming(ScanEnd)'
      /\ Coming(Ends) => Coming(Ends)'
      /\ Coming(LinkUp) => Coming(LinkUp)'
  BY <1>2, <1>3, ComingStays
<1>5. radio = "scanning" => radio' = "scanning" \/ Coming(ScanEnd)'
  <2>1. CASE e.code = VS_GAP_DEVICE_DISCOVERY /\ Route(e) = "COMMANDRESP"
    BY <1>2, <2>1, ComingEmitted DEF ScanEnd
  <2> QED BY <1>1, <2>1 DEF Tells
<1>6. radio \in {"idle", "connecting"} => radio' \in {"idle", "connecting"} \/ Coming(LinkUp)'
  <2>1. CASE e.code = VS_GAP_LINK_ESTABLISHED /\ Route(e) = "COMMANDRESP"
    BY <1>2, <2>1, ComingEmitted DEF LinkUp
  <2> QED BY <1>1, <2>1 DEF Tells
<1>7. raced' = raced /\ unready' = unready /\ inherited' = inherited /\ central' = central
  BY <1>2
<1>8. Asked' \cap Starting = Asked \cap Starting /\ \A c : c \in Asked => c \in Asked'
  BY <1>2
<1> QED BY <1>4, <1>5, <1>6, <1>7, <1>8, Zenon DEF WaitInv

\* A command that starts nothing is written, or lost, and Central stays where it is.
LEMMA WaitWrites ==
    ASSUME TypeInv, WaitInv, NEW op \in Nat, op \notin Starting,
           Written(op) \/ NotWritten \/ UNCHANGED <<cmds, left>>,
           UNCHANGED <<central, tty, mq, radio, ghosts>>
    PROVE  WaitInv'
<1>1. Asked \subseteq Asked' /\ Asked' \subseteq Asked \cup {op}
  BY WriteElems
<1>2. Answers' = Answers /\ Sent' = Sent
  BY DEF Answers, Sent
<1>3. \A C : Coming(C)' <=> Coming(C)
  BY <1>2 DEF Coming
<1>4. raced' = raced /\ unready' = unready /\ inherited' = inherited
  BY DEF ghosts
<1>5. /\ Asked' \cap Starting = Asked \cap Starting
      /\ \A c : c \in Asked => c \in Asked'
  BY <1>1
<1>6. central' = central /\ radio' = radio
  OBVIOUS
<1> QED BY <1>3, <1>4, <1>5, <1>6, Zenon DEF WaitInv

\* Central reads: it waits on only when it did not read what it waits for.
LEMMA WaitReads ==
    ASSUME TypeInv, WaitInv,
           \/ Device_Scan_Rsp \/ Device_Scan_Data \/ Device_Scan_Cancel_Rsp
           \/ Device_Establish_Link_Rsp
    PROVE  WaitInv'
<1>1. Receive
  BY DEF Device_Scan_Rsp, Device_Scan_Data, Device_Scan_Cancel_Rsp, Device_Establish_Link_Rsp
<1>2. buffer \in EventSet /\ Asked' = Asked /\ UNCHANGED <<radio, raced, unready, inherited>>
  BY <1>1, ReadElems DEF Receive, ghosts, Asked
<1>3. ASSUME NEW C, buffer \notin C, Coming(C) PROVE Coming(C)'
  BY <1>1, <1>3, ComingRead
<1>4. raced' = raced /\ unready' = unready /\ inherited' = inherited /\ radio' = radio
  BY <1>2
<1>5. Asked' \cap Starting = Asked \cap Starting /\ \A c : c \in Asked => c \in Asked'
  BY <1>2
<1>6. CASE Device_Scan_Rsp \/ Device_Scan_Data
  <2>1. /\ central \in {"SCAN_RSP", "SCAN_DATA"}
        /\ central' \notin {"SCAN_RSP", "SCAN_CANCEL_RSP", "LINK_RSP"}
    BY <1>6 DEF Device_Scan_Rsp, Device_Scan_Data
  <2>2. central' = "SCAN_DATA" => buffer \notin ScanEnd
    BY <1>6 DEF Device_Scan_Rsp, Device_Scan_Data, ScanRspResult, ScanDataResult, Matches, ScanEnd,
        VS_GAP_DEVICE_DISCOVERY, VS_GAP_DEVICE_INFORMATION, VS_COMMAND_STATUS
  <2>3. central' = "SCAN_DATA" => (Coming(ScanEnd) => Coming(ScanEnd)')
    BY <1>3, <2>2
  <2> QED BY <1>4, <1>5, <2>1, <2>3, Zenon DEF WaitInv
<1>7. CASE Device_Scan_Cancel_Rsp
  <2>1. /\ central = "SCAN_CANCEL_RSP" /\ central' \in {"SCAN_CANCEL_RSP", "LINK_REQ"}
        /\ central' = "SCAN_CANCEL_RSP" => buffer \notin Ends
    BY <1>7 DEF Device_Scan_Cancel_Rsp, Ends
  <2>2. central' = "SCAN_CANCEL_RSP" => (Coming(Ends) => Coming(Ends)')
    BY <1>3, <2>1
  <2>3. central' \notin {"SCAN_RSP", "SCAN_DATA", "LINK_RSP"}
    BY <2>1
  <2> QED BY <1>4, <1>5, <2>1, <2>2, <2>3, Zenon DEF WaitInv
<1>8. CASE Device_Establish_Link_Rsp
  <2>1. central = "LINK_RSP" /\ central' \in {"LINK_RSP", "BOND"}
    BY <1>8 DEF Device_Establish_Link_Rsp
  <2>2. central' = "LINK_RSP" => buffer \notin LinkUp
    <3>1. buffer \in LinkUp => LinkRspResult(buffer) = 0
      BY DEF LinkUp, LinkRspResult, VS_GAP_LINK_ESTABLISHED, VS_GAP_LINK_TERMINATED
    <3> QED BY <1>8, <3>1 DEF Device_Establish_Link_Rsp
  <2>3. central' = "LINK_RSP" => (Coming(LinkUp) => Coming(LinkUp)')
    BY <1>3, <2>2
  <2>4. central' \notin {"SCAN_RSP", "SCAN_DATA", "SCAN_CANCEL_RSP"}
    BY <2>1
  <2> QED BY <1>4, <1>5, <2>1, <2>3, <2>4, Zenon DEF WaitInv
<1> QED BY <1>6, <1>7, <1>8

LEMMA WaitNext ==
    TypeInv /\ CommandInv /\ EndInv /\ WaitInv /\ [Next]_vars => WaitInv'
<1> SUFFICES ASSUME TypeInv, CommandInv, EndInv, WaitInv, [Next]_vars PROVE WaitInv'
  OBVIOUS
<1>1. CASE Dongle
  BY <1>1, WaitCommand, WaitReports DEF Dongle
<1>2. CASE RouteEvent
  <2>1. \A C : Coming(C) => Coming(C)'
    BY <1>2, ComingRouted
  <2>2. /\ central' = central /\ radio' = radio /\ Asked' = Asked
        /\ raced' = raced /\ unready' = unready /\ inherited' = inherited
    BY <1>2 DEF RouteEvent, ghosts, Asked
  <2> QED BY <2>1, <2>2, Zenon DEF WaitInv
<1>3. CASE data_ack
  <2>1. /\ Written(VS_ATT_WRITE_RESPONSE) \/ NotWritten
        /\ UNCHANGED <<central, tty, mq, radio, ghosts>>
    BY <1>3 DEF data_ack
  <2> QED BY <2>1, Opcodes, WaitWrites
<1>4. CASE \/ HCI_Reset \/ HCI_Init \/ PARAM_UPDATE \/ StateInit \/ bond \/ data_led \/ Restart
  <2>1. central' \notin {"SCAN_RSP", "SCAN_DATA", "SCAN_CANCEL_RSP", "LINK_RSP"}
    BY <1>4 DEF HCI_Reset, HCI_Init, PARAM_UPDATE, StateInit, bond, data_led, Restart, Send
  <2> QED BY <2>1, Zenon DEF WaitInv
<1>5. CASE Device_Scan_Req
  <2>1. \/ Written(VS_GAP_DEVICE_DISCOVERY_REQUEST) /\ central' = "SCAN_RSP"
        \/ central' = "INIT"
    BY <1>5 DEF Device_Scan_Req, Request
  <2>2. Written(VS_GAP_DEVICE_DISCOVERY_REQUEST) => VS_GAP_DEVICE_DISCOVERY_REQUEST \in Asked'
    BY Opcodes, WriteElems
  <2> QED BY <2>1, <2>2, Zenon DEF WaitInv
<1>6. CASE Device_Scan_Cancel_Req
  <2>1. \/ Written(VS_GAP_DEVICE_DISCOVERY_CANCEL) /\ central' = "SCAN_CANCEL_RSP"
        \/ central' = "SCAN_CANCEL"
    BY <1>6 DEF Device_Scan_Cancel_Req, Request
  <2>2. Written(VS_GAP_DEVICE_DISCOVERY_CANCEL) => VS_GAP_DEVICE_DISCOVERY_CANCEL \in Asked'
    BY Opcodes, WriteElems
  <2> QED BY <2>1, <2>2, Zenon DEF WaitInv
<1>7. CASE Device_Establish_Link_Req
  <2>1. /\ central = "LINK_REQ" /\ central' \in {"LINK_REQ", "LINK_RSP"} /\ radio' = radio
        /\ inherited' = inherited
    BY <1>7 DEF Device_Establish_Link_Req, Request, ghosts
  <2>2. ~inherited => radio = "idle"
    BY <2>1, Zenon DEF EndInv, Stopped, Linking, Bonding
  <2> QED BY <2>1, <2>2 DEF WaitInv
<1>8. CASE Device_Scan_Rsp \/ Device_Scan_Data \/ Device_Scan_Cancel_Rsp \/ Device_Establish_Link_Rsp
  BY <1>8, WaitReads
<1>9. CASE UNCHANGED vars
  <2>1. /\ UNCHANGED <<central, tty, mq, radio, ghosts>> /\ UNCHANGED <<cmds, left>>
    BY <1>9 DEF vars, ghosts
  <2> QED BY <2>1, Opcodes, WaitWrites
<1> QED
  BY <1>1, <1>2, <1>3, <1>4, <1>5, <1>6, <1>7, <1>8, <1>9
     DEF Next, UartCmdRxThread, CentralModeThread

\* Both hold on every behaviour.
LEMMA WaitInvariant == Spec => [](SessionInv /\ WaitInv)
<1>1. SessionInv /\ WaitInv /\ [Next]_vars => WaitInv'
  BY WaitNext DEF SessionInv
<1> QED BY <1>1, WaitInit, SessionInvariant, PTL DEF Spec

\* Central's sys_mq_recv() waits for nothing only if it took an old answer for that
\* of a scan the dongle refused, if the scan ended before the cancel request came,
\* or if the link it asked for came to nothing.
THEOREM WaitsForAnswers == Spec => []WaitsForAnAnswer
<1>1. ASSUME NEW op \in Asked, op \in {VS_GAP_DEVICE_DISCOVERY_REQUEST,
                                       VS_GAP_DEVICE_DISCOVERY_CANCEL}
      PROVE  OnItsWay
  BY <1>1 DEF Asked, Elems, OnItsWay
<1>2. ASSUME NEW C, Coming(C) PROVE OnItsWay
  <2>1. CASE Answers \cap C # {}
    BY <2>1, NoElems DEF Answers, OnItsWay
  <2>2. CASE \E e \in Sent : Route(e) = "COMMANDRESP"
    BY <2>2 DEF Sent, Elems, OnItsWay
  <2> QED BY <1>2, <2>1, <2>2 DEF Coming
<1>3. /\ VS_GAP_DEVICE_DISCOVERY_REQUEST \in Asked => OnItsWay
      /\ VS_GAP_DEVICE_DISCOVERY_CANCEL \in Asked => OnItsWay
  BY <1>1
<1>4. WaitInv => WaitsForAnAnswer
  <2>1. /\ Coming(EventSet) => OnItsWay
        /\ Coming(ScanEnd) => OnItsWay
        /\ Coming(Ends) => OnItsWay
        /\ Coming(LinkUp) => OnItsWay
    BY <1>2
  <2>2. ASSUME WaitInv PROVE WaitsForAnAnswer
    BY <1>3, <2>1, <2>2, Zenon DEF WaitInv, WaitsForAnAnswer
  <2> QED BY <2>2
<1> QED BY <1>4, WaitInvariant, PTL
=============================================================================
